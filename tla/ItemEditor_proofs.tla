------------------------- MODULE ItemEditor_proofs -------------------------
(***************************************************************************)
(* Theorems of ItemEditor: all its safety invariants, for every account,   *)
(* frame and number of clicks.                                             *)
(*                                                                         *)
(* Everything turns on the queue of timers.  Merges says what SetTimers    *)
(* may do to it, Sure that a timer runs before the overlay is gone, Queued *)
(* that an Up finds its list ready.  On these stand, one behind the other, *)
(* the types (TypeInv), the dialog and its overlay (DialogInv), the sums   *)
(* (ConvInv), the columns (DomInv), the divs that shrink (GhostInv) and    *)
(* the frames (GateInv, FrameInv); what was sent stands alone.             *)
(***************************************************************************)
EXTENDS ItemEditor, SequenceTheorems, FiniteSetTheorems, WellFoundedInduction, TLAPS

------------------------------------------------------------------------------
(* Numbers. *)

\* Every set of natural numbers that is not empty has a least one.
LEMMA LeastNumber ==
  ASSUME NEW T \in SUBSET Nat, T # {}
  PROVE  \E n \in T : \A m \in T : n <= m
<1> DEFINE Less == {ss \in Nat \X Nat : ss[1] < ss[2]}
<1>1. IsWellFoundedOn(Less, Nat)
  BY NatLessThanWellFounded, Zenon DEF OpToRel
<1> HIDE DEF Less
<1>2. PICK n \in T : \A m \in T : ~(<<m, n>> \in Less)
  BY <1>1, WFMin
<1>3. \A m \in T : ~(m < n)
  BY <1>2 DEF Less
<1> QED BY <1>2, <1>3

\* Induction over the natural numbers, for a set of them.
LEMMA CountingUp ==
  ASSUME NEW T, 0 \in T, \A n \in Nat : n \in T => n + 1 \in T
  PROVE  Nat \subseteq T
<1> SUFFICES ASSUME Nat \ T # {} PROVE FALSE
  OBVIOUS
<1>1. PICK n \in Nat \ T : \A m \in Nat \ T : n <= m
  BY LeastNumber
<1>2. n # 0 /\ n - 1 \in Nat
  BY <1>1
<1>3. n - 1 \in T
  BY <1>1, <1>2
<1> QED BY <1>1, <1>2, <1>3

\* A set of natural numbers with a bound has a greatest one.
LEMMA GreatestNumber ==
  ASSUME NEW T \in SUBSET Nat, T # {}, NEW b \in Nat, \A m \in T : m <= b
  PROVE  \E n \in T : \A m \in T : m <= n
<1> DEFINE U == {b - m : m \in T}
<1>1. U \in SUBSET Nat /\ U # {}
  <2>1. \A m \in T : m \in Nat /\ b - m \in Nat
    OBVIOUS
  <2> QED BY <2>1
<1>2. PICK u \in U : \A v \in U : u <= v
  <2> HIDE DEF U
  <2> QED BY <1>1, LeastNumber
<1>3. PICK n \in T : u = b - n
  BY <1>2
<1>4. \A m \in T : b - m \in U
  OBVIOUS
<1>5. \A m \in T : b - n <= b - m
  BY <1>2, <1>3, <1>4
<1> HIDE DEF U
<1> QED BY <1>3, <1>5

\* The CHOOSE of SetMin picks the least number of a set.
LEMMA SetMinFacts ==
  ASSUME NEW T \in SUBSET Nat, T # {}
  PROVE  SetMin(T) \in T /\ \A m \in T : SetMin(T) <= m
BY LeastNumber DEF SetMin

\* The CHOOSE of SetMax picks the greatest number of a set with a bound.
LEMMA SetMaxFacts ==
  ASSUME NEW T \in SUBSET Nat, T # {}, NEW b \in Nat, \A m \in T : m <= b
  PROVE  SetMax(T) \in T /\ \A m \in T : m <= SetMax(T)
BY GreatestNumber DEF SetMax

------------------------------------------------------------------------------
(* Timers. *)

Jobs == DOMAIN Delay
Timers == {t \in [job : Jobs, col : Columns \cup {"none"}, id : Ids \cup {None}] :
             t.job \in {"remove", "up", "slide"} => t.col \in Columns}
Due(t) == Delay[t.job]

\* Every timer has its time.
LEMMA DueType ==
  ASSUME NEW t \in Timers
  PROVE  Due(t) \in Nat
BY DEF Due, Timers, Jobs, Delay, ConvertDelay

\* A new timer stands somewhere in the queue: in front of it what was there, behind it
\* only what takes longer.
LEMMA PlacedFacts ==
  ASSUME NEW q \in Seq(Timers), NEW t \in Timers, NEW p \in Placed(q, t)
  PROVE  \E k \in 1..Len(q) + 1 :
           /\ p \in Seq(Timers) /\ Len(p) = Len(q) + 1
           /\ p[k] = t
           /\ \A i \in 1..Len(q) : p[IF i < k THEN i ELSE i + 1] = q[i]
           /\ \A i \in k..Len(q) : Due(q[i]) > Due(t)
<1>0. Len(q) \in Nat /\ \A i \in 1..Len(q) : q[i] \in Timers
  BY ElementOfSeq, LenProperties
<1>1. PICK k \in 1..Len(q) + 1 : /\ \A i \in k..Len(q) : Due(q[i]) > Due(t)
                                 /\ p = InsertAt(q, k, t)
  BY DEF Placed, Due
<1> DEFINE a == SubSeq(q, 1, k - 1)
           b == SubSeq(q, k, Len(q))
<1>2. /\ a \in Seq(Timers) /\ Len(a) = k - 1
      /\ \A i \in 1..k - 1 : a[i] = q[i]
  <2>1. k - 1 \in Int /\ \A i \in 1..k - 1 : q[i] \in Timers
    BY <1>0
  <2> QED BY <2>1, SubSeqProperties
<1>3. /\ b \in Seq(Timers) /\ Len(b) = Len(q) - k + 1
      /\ \A i \in 1..Len(q) - k + 1 : b[i] = q[k + i - 1]
  <2>1. k \in Int /\ Len(q) \in Int /\ \A i \in k..Len(q) : q[i] \in Timers
    BY <1>0
  <2>2. /\ b \in Seq(Timers) /\ Len(b) = IF k <= Len(q) THEN Len(q) - k + 1 ELSE 0
        /\ \A i \in 1..Len(q) - k + 1 : b[i] = q[k + i - 1]
    BY <2>1, SubSeqProperties
  <2> QED BY <2>2, <1>0
<1> HIDE DEF a, b
<1>4. /\ <<t>> \in Seq(Timers) /\ Len(<<t>>) = 1 /\ <<t>>[1] = t
  OBVIOUS
<1> DEFINE c == a \o <<t>>
<1>5. /\ c \in Seq(Timers) /\ Len(c) = k
      /\ \A i \in 1..k - 1 : c[i] = q[i]
      /\ c[k] = t
  <2>1. a \in Seq(Timers) /\ <<t>> \in Seq(Timers) /\ Len(a) = k - 1 /\ k \in Nat \ {0}
    BY <1>0, <1>2, <1>4
  <2>2. /\ a \o <<t>> \in Seq(Timers)
        /\ Len(a \o <<t>>) = Len(a) + Len(<<t>>)
        /\ \A i \in 1..Len(a) + Len(<<t>>) :
              (a \o <<t>>)[i] = IF i <= Len(a) THEN a[i] ELSE <<t>>[i - Len(a)]
    <3>1. a \in Seq(Timers) /\ <<t>> \in Seq(Timers)
      BY <2>1
    <3> QED BY <3>1, ConcatProperties
  <2>3. /\ c \in Seq(Timers) /\ Len(c) = k
        /\ \A i \in 1..k : c[i] = IF i <= k - 1 THEN a[i] ELSE <<t>>[i - (k - 1)]
    BY <1>4, <2>1, <2>2
  <2> HIDE DEF c
  <2> QED BY <1>2, <1>4, <2>1, <2>3
<1> HIDE DEF c
<1>6. p = c \o b
  BY <1>1 DEF InsertAt, a, b, c
<1>7. /\ p \in Seq(Timers) /\ Len(p) = Len(q) + 1
      /\ \A i \in 1..Len(q) + 1 : p[i] = IF i <= k THEN c[i] ELSE b[i - k]
  <2>1. /\ p \in Seq(Timers) /\ Len(p) = Len(c) + Len(b)
        /\ \A i \in 1..Len(c) + Len(b) : p[i] = IF i <= Len(c) THEN c[i] ELSE b[i - Len(c)]
    BY <1>3, <1>5, <1>6, ConcatProperties
  <2>2. Len(c) + Len(b) = Len(q) + 1
    BY <1>0, <1>3, <1>5
  <2> QED BY <1>5, <2>1, <2>2
<1>8. p[k] = t
  BY <1>5, <1>7
<1>9. ASSUME NEW i \in 1..Len(q)
      PROVE  p[IF i < k THEN i ELSE i + 1] = q[i]
  <2>1. CASE i < k
    BY <2>1, <1>5, <1>7, <1>0
  <2>2. CASE ~(i < k)
    <3>1. p[i + 1] = b[i + 1 - k]
      BY <2>2, <1>7, <1>0
    <3>2. b[i + 1 - k] = q[k + (i + 1 - k) - 1]
      BY <2>2, <1>3, <1>0
    <3> QED BY <2>2, <3>1, <3>2, <1>0
  <2> QED BY <2>1, <2>2
<1> QED BY <1>1, <1>7, <1>8, <1>9

\* p holds the timers of q and the first n of ts, those of q where f puts them and
\* those of ts where g does: in their order, and what is due sooner or at the same
\* time first, as long as it was set first.
Merges(q, ts, n, p, f, g) ==
  /\ p \in Seq(Timers) /\ Len(p) = Len(q) + n
  /\ f \in [1..Len(q) -> 1..Len(p)] /\ g \in [1..n -> 1..Len(p)]
  /\ \A i \in 1..Len(q) : p[f[i]] = q[i]
  /\ \A j \in 1..n : p[g[j]] = ts[j]
  /\ \A k \in 1..Len(p) : (\E i \in 1..Len(q) : f[i] = k) \/ (\E j \in 1..n : g[j] = k)
  /\ \A i, h \in 1..Len(q) : i < h => f[i] < f[h]
  /\ \A i \in 1..Len(q), j \in 1..n : Due(q[i]) <= Due(ts[j]) => f[i] < g[j]
  /\ \A j, h \in 1..n : j < h /\ Due(ts[j]) <= Due(ts[h]) => g[j] < g[h]

\* One timer more of those a handler sets keeps the queue a merge.
LEMMA MergeOne ==
  ASSUME NEW q \in Seq(Timers), NEW ts \in Seq(Timers), NEW n \in Nat, n < Len(ts),
         NEW p, NEW f, NEW g, Merges(q, ts, n, p, f, g),
         NEW x \in Placed(p, ts[n + 1])
  PROVE  \E f2, g2 : Merges(q, ts, n + 1, x, f2, g2)
<1> DEFINE t == ts[n + 1]
<1>0. Len(q) \in Nat /\ Len(ts) \in Nat /\ t \in Timers
  BY LenProperties, ElementOfSeq
<1>1. p \in Seq(Timers) /\ Len(p) = Len(q) + n /\ Len(p) \in Nat
  BY <1>0 DEF Merges
<1>2. PICK k \in 1..Len(p) + 1 :
         /\ x \in Seq(Timers) /\ Len(x) = Len(p) + 1
         /\ x[k] = t
         /\ \A i \in 1..Len(p) : x[IF i < k THEN i ELSE i + 1] = p[i]
         /\ \A i \in k..Len(p) : Due(p[i]) > Due(t)
  <2>1. p \in Seq(Timers) /\ t \in Timers /\ x \in Placed(p, t)
    BY <1>0, <1>1
  <2> HIDE DEF t
  <2> QED BY <2>1, PlacedFacts
<1> DEFINE moved(i) == IF i < k THEN i ELSE i + 1
           f2 == [i \in 1..Len(q) |-> moved(f[i])]
           g2 == [j \in 1..n + 1 |-> IF j = n + 1 THEN k ELSE moved(g[j])]
<1>3. /\ \A i \in 1..Len(p) : /\ moved(i) \in 1..Len(x) /\ moved(i) # k
                              /\ x[moved(i)] = p[i]
      /\ \A i, h \in 1..Len(p) : i < h => moved(i) < moved(h)
  BY <1>1, <1>2
<1>4. \A m \in 1..Len(x) : m = k \/ \E i \in 1..Len(p) : moved(i) = m
  <2> SUFFICES ASSUME NEW m \in 1..Len(x), m # k
               PROVE  \E i \in 1..Len(p) : moved(i) = m
    OBVIOUS
  <2>1. CASE m < k
    BY <1>1, <1>2, <2>1
  <2>2. CASE m > k
    <3>1. m - 1 \in 1..Len(p) /\ moved(m - 1) = m
      BY <1>1, <1>2, <2>2
    <3> QED BY <3>1
  <2> QED BY <1>1, <1>2, <2>1, <2>2
<1>5. /\ \A i \in 1..Len(q) : f[i] \in 1..Len(p)
      /\ \A j \in 1..n : g[j] \in 1..Len(p)
  BY DEF Merges
<1>k. k \in Nat /\ k <= Len(p) + 1 /\ \A i \in 1..Len(p) : i < k => moved(i) = i
  BY <1>1, <1>2
<1> HIDE DEF moved
<1>6. /\ \A i \in 1..Len(q) : f2[i] = moved(f[i])
      /\ \A j \in 1..n : g2[j] = moved(g[j])
      /\ g2[n + 1] = k
      /\ \A j \in 1..n + 1 : j \in 1..n \/ j = n + 1
  OBVIOUS
<1>7. f2 \in [1..Len(q) -> 1..Len(x)] /\ g2 \in [1..n + 1 -> 1..Len(x)]
  <2>1. \A i \in 1..Len(q) : moved(f[i]) \in 1..Len(x)
    BY <1>3, <1>5
  <2>2. \A j \in 1..n + 1 : g2[j] \in 1..Len(x)
    BY <1>2, <1>3, <1>5, <1>6
  <2> QED BY <2>1, <2>2
<1> HIDE DEF f2, g2
<1>8. \A i \in 1..Len(q) : x[f2[i]] = q[i]
  <2>1. \A i \in 1..Len(q) : p[f[i]] = q[i]
    BY DEF Merges
  <2> QED BY <1>3, <1>5, <1>6, <2>1
<1>9. \A j \in 1..n + 1 : x[g2[j]] = ts[j]
  <2>1. \A j \in 1..n : p[g[j]] = ts[j]
    BY DEF Merges
  <2>2. \A j \in 1..n : x[g2[j]] = ts[j]
    BY <1>3, <1>5, <1>6, <2>1
  <2>3. x[g2[n + 1]] = ts[n + 1]
    BY <1>2, <1>6
  <2> QED BY <1>6, <2>2, <2>3
<1>10. ASSUME NEW m \in 1..Len(x)
       PROVE  (\E i \in 1..Len(q) : f2[i] = m) \/ (\E j \in 1..n + 1 : g2[j] = m)
  <2>1. CASE m = k
    BY <1>6, <2>1
  <2>2. CASE m # k
    <3>1. PICK i \in 1..Len(p) : moved(i) = m
      BY <1>4, <2>2
    <3>2. (\E h \in 1..Len(q) : f[h] = i) \/ (\E j \in 1..n : g[j] = i)
      BY DEF Merges
    <3>3. 1..n \subseteq 1..n + 1
      OBVIOUS
    <3> QED BY <1>6, <3>1, <3>2, <3>3
  <2> QED BY <2>1, <2>2
<1>11. \A i, h \in 1..Len(q) : i < h => f2[i] < f2[h]
  <2>1. \A i, h \in 1..Len(q) : i < h => f[i] < f[h]
    BY DEF Merges
  <2> QED BY <1>3, <1>5, <1>6, <2>1
<1>s. \A i \in 1..Len(p) : Due(p[i]) <= Due(t) => moved(i) < k
  <2> SUFFICES ASSUME NEW i \in 1..Len(p), Due(p[i]) <= Due(t)
               PROVE  moved(i) < k
    OBVIOUS
  <2>1. Due(p[i]) \in Nat /\ Due(t) \in Nat
    BY <1>0, <1>1, ElementOfSeq, DueType
  <2>2. ~(i \in k..Len(p))
    BY <1>2, <2>1
  <2>3. i < k
    BY <1>1, <1>k, <2>2
  <2> QED BY <1>k, <2>3
<1>12. \A i \in 1..Len(q), j \in 1..n + 1 : Due(q[i]) <= Due(ts[j]) => f2[i] < g2[j]
  <2> SUFFICES ASSUME NEW i \in 1..Len(q), NEW j \in 1..n + 1, Due(q[i]) <= Due(ts[j])
               PROVE  f2[i] < g2[j]
    OBVIOUS
  <2>1. CASE j = n + 1
    <3>1. p[f[i]] = q[i]
      BY DEF Merges
    <3> QED BY <1>5, <1>6, <1>s, <2>1, <3>1
  <2>2. CASE j \in 1..n
    <3>1. f[i] < g[j]
      BY <2>2 DEF Merges
    <3> QED BY <1>3, <1>5, <1>6, <2>2, <3>1
  <2> QED BY <1>6, <2>1, <2>2
<1>13. \A j, h \in 1..n + 1 : j < h /\ Due(ts[j]) <= Due(ts[h]) => g2[j] < g2[h]
  <2> SUFFICES ASSUME NEW j \in 1..n + 1, NEW h \in 1..n + 1,
                      j < h, Due(ts[j]) <= Due(ts[h])
               PROVE  g2[j] < g2[h]
    OBVIOUS
  <2>0. j \in 1..n
    OBVIOUS
  <2>1. CASE h = n + 1
    <3>1. p[g[j]] = ts[j]
      BY <2>0 DEF Merges
    <3> QED BY <1>5, <1>6, <1>s, <2>0, <2>1, <3>1
  <2>2. CASE h \in 1..n
    <3>1. g[j] < g[h]
      BY <2>0, <2>2 DEF Merges
    <3> QED BY <1>3, <1>5, <1>6, <2>0, <2>2, <3>1
  <2> QED BY <1>6, <2>1, <2>2
<1>14. Len(x) = Len(q) + (n + 1)
  BY <1>0, <1>1, <1>2
<1>15. Merges(q, ts, n + 1, x, f2, g2)
  BY <1>2, <1>7, <1>8, <1>9, <1>10, <1>11, <1>12, <1>13, <1>14 DEF Merges
<1> QED BY <1>15

\* A set of the positions of a sequence has a last one.
LEMMA LastPosition ==
  ASSUME NEW n \in Nat, NEW s \in SUBSET (1..n), s # {}
  PROVE  Max(s) \in s /\ \A m \in s : m <= Max(s)
<1>1. \E x \in s : \A m \in s : m <= x
  <2>1. s \in SUBSET Nat /\ \A m \in s : m <= n
    OBVIOUS
  <2> QED BY <2>1, GreatestNumber
<1>2. \E x \in s : \A m \in s : x >= m
  BY <1>1
<1>3. Max(s) \in s /\ \A m \in s : Max(s) >= m
  BY <1>2, Zenon DEF Max
<1> QED BY <1>3

\* The last position of an interval, which the fold takes away.
LEMMA LastOfInterval ==
  ASSUME NEW n \in Nat
  PROVE  /\ Max(1..n + 1) = n + 1
         /\ (1..n + 1) \ {n + 1} = 1..n
         /\ 1..n + 1 # {}
<1>1. 1..n + 1 # {}
  OBVIOUS
<1>2. Max(1..n + 1) \in 1..n + 1 /\ \A m \in 1..n + 1 : m <= Max(1..n + 1)
  <2> DEFINE b == n + 1
             I == 1..b
  <2>1. b \in Nat /\ I \in SUBSET (1..b) /\ I # {}
    OBVIOUS
  <2>2. Max(I) \in I /\ \A m \in I : m <= Max(I)
    <3> HIDE DEF b, I
    <3> QED BY <2>1, LastPosition
  <2> QED BY <2>2
<1>3. n + 1 \in 1..n + 1
  OBVIOUS
<1> QED BY <1>1, <1>2, <1>3

\* Taking an element out of a finite set leaves one element fewer.
LEMMA Smaller ==
  ASSUME NEW S, IsFiniteSet(S), NEW s \in SUBSET S
  PROVE  /\ Cardinality(s) \in Nat
         /\ Cardinality(s) <= Cardinality(S)
         /\ Cardinality(s) = 0 <=> s = {}
         /\ \A x \in s : s \ {x} \in SUBSET S /\ Cardinality(s \ {x}) = Cardinality(s) - 1
<1>1. IsFiniteSet(s) /\ Cardinality(s) <= Cardinality(S)
  BY FS_Subset
<1>2. Cardinality(s) \in Nat /\ (Cardinality(s) = 0 <=> s = {})
  BY <1>1, FS_CardinalityType, FS_EmptySet
<1>3. \A x \in s : Cardinality(s \ {x}) = Cardinality(s) - 1
  BY <1>1, FS_RemoveElement
<1> QED BY <1>1, <1>2, <1>3

\* The fold of SetTimers, which sets the timers of ts one after the other.
Folds(q, ts, g) == g = [s \in SUBSET (DOMAIN ts) |->
                          IF s = {} THEN {q}
                          ELSE UNION {Placed(p, ts[Max(s)]) : p \in g[s \ {Max(s)}]}]

\* It is defined: by the size of the set of positions.
LEMMA FoldIsDefined ==
  ASSUME NEW q, NEW ts \in Seq(Timers)
  PROVE  \E g : Folds(q, ts, g)
<1> DEFINE S == DOMAIN ts
           Step(g, s) == IF s = {} THEN {q}
                         ELSE UNION {Placed(p, ts[Max(s)]) : p \in g[s \ {Max(s)}]}
           Upto(n) == \E g : \A s \in SUBSET S : Cardinality(s) <= n => g[s] = Step(g, s)
           T == {n \in Nat : Upto(n)}
<1>i. Len(ts) \in Nat /\ S = 1..Len(ts)
  BY LenProperties
<1>f. IsFiniteSet(S)
  BY <1>i, FS_Interval
<1>0. \A s \in SUBSET S : s # {} => /\ s \ {Max(s)} \in SUBSET S
                                    /\ Cardinality(s \ {Max(s)}) = Cardinality(s) - 1
  <2> SUFFICES ASSUME NEW s \in SUBSET S, s # {}
               PROVE  /\ s \ {Max(s)} \in SUBSET S
                      /\ Cardinality(s \ {Max(s)}) = Cardinality(s) - 1
    OBVIOUS
  <2>1. Max(s) \in s
    BY <1>i, LastPosition
  <2> HIDE DEF S
  <2> QED BY <1>f, <2>1, Smaller
<1> HIDE DEF S
<1>1. 0 \in T
  <2> DEFINE g == [s \in SUBSET S |-> {q}]
  <2>1. \A s \in SUBSET S : Cardinality(s) <= 0 => s = {}
    BY <1>f, Smaller
  <2>2. \A s \in SUBSET S : Cardinality(s) <= 0 => g[s] = Step(g, s)
    BY <2>1
  <2> HIDE DEF g
  <2>3. Upto(0)
    BY <2>2
  <2> HIDE DEF Upto
  <2> QED BY <2>3
<1>2. ASSUME NEW n \in Nat, n \in T
      PROVE  n + 1 \in T
  <2>1. PICK g : \A s \in SUBSET S : Cardinality(s) <= n => g[s] = Step(g, s)
    BY <1>2
  <2> DEFINE h == [s \in SUBSET S |-> IF Cardinality(s) <= n THEN g[s] ELSE Step(g, s)]
  <2>2. \A s \in SUBSET S : h[s] = Step(g, s)
    BY <2>1
  <2>3. ASSUME NEW s \in SUBSET S, Cardinality(s) <= n + 1
        PROVE  Step(h, s) = Step(g, s)
    <3>1. CASE s = {}
      BY <3>1
    <3>2. CASE s # {}
      <4>1. s \ {Max(s)} \in SUBSET S /\ Cardinality(s \ {Max(s)}) = Cardinality(s) - 1
        BY <1>0, <3>2
      <4>2. Cardinality(s) \in Nat
        BY <1>f, Smaller
      <4>3. Cardinality(s \ {Max(s)}) <= n
        BY <2>3, <4>1, <4>2
      <4>4. h[s \ {Max(s)}] = g[s \ {Max(s)}]
        BY <4>1, <4>3
      <4> HIDE DEF h
      <4> QED BY <4>4
    <3> QED BY <3>1, <3>2
  <2> HIDE DEF h
  <2>4. \A s \in SUBSET S : Cardinality(s) <= n + 1 => h[s] = Step(h, s)
    BY <2>2, <2>3
  <2>5. Upto(n + 1)
    BY <2>4
  <2> HIDE DEF Upto
  <2> QED BY <2>5
<1>3. Cardinality(S) \in T
  <2> HIDE DEF T
  <2>1. Cardinality(S) \in Nat
    BY <1>f, FS_CardinalityType
  <2> QED BY <1>1, <1>2, <2>1, CountingUp
<1>4. PICK g : \A s \in SUBSET S : g[s] = Step(g, s)
  <2>1. Upto(Cardinality(S))
    BY <1>3
  <2>2. \A s \in SUBSET S : Cardinality(s) <= Cardinality(S)
    BY <1>f, Smaller
  <2> QED BY <2>1, <2>2
<1> DEFINE h == [s \in SUBSET S |-> g[s]]
<1>5. ASSUME NEW s \in SUBSET S PROVE Step(h, s) = g[s]
  <2>1. CASE s = {}
    BY <1>4, <2>1
  <2>2. CASE s # {}
    <3>1. s \ {Max(s)} \in SUBSET S
      BY <1>0, <2>2
    <3>2. h[s \ {Max(s)}] = g[s \ {Max(s)}]
      BY <3>1
    <3> HIDE DEF h
    <3> QED BY <1>4, <3>2
  <2> QED BY <2>1, <2>2
<1>6. h = [s \in SUBSET S |-> Step(h, s)]
  BY <1>5
<1>7. Folds(q, ts, h)
  BY <1>6 DEF Folds, S
<1> QED BY <1>7

\* Wherever SetTimers puts the new timers, they are merged with those pending.
LEMMA SetTimersMerges ==
  ASSUME NEW q \in Seq(Timers), NEW ts \in Seq(Timers), NEW p \in SetTimers(q, ts)
  PROVE  \E f, g : Merges(q, ts, Len(ts), p, f, g)
<1> DEFINE iter == CHOOSE g : Folds(q, ts, g)
           T == {n \in Nat : n <= Len(ts) => \A x \in iter[1..n] : \E f, g : Merges(q, ts, n, x, f, g)}
<1>0. Len(ts) \in Nat /\ DOMAIN ts = 1..Len(ts) /\ Len(q) \in Nat
  BY LenProperties
<1>1. SetTimers(q, ts) = iter[1..Len(ts)]
  BY <1>0 DEF SetTimers, FoldLeft, MapThenFoldSet, Folds
<1>2. Folds(q, ts, iter)
  BY FoldIsDefined, Zenon
<1> HIDE DEF iter
<1>3. iter[{}] = {q}
  BY <1>2 DEF Folds
<1>4. 0 \in T
  <2> DEFINE f == [i \in 1..Len(q) |-> i]
             g == [j \in 1..0 |-> 0]
  <2>1. 1..0 = {}
    OBVIOUS
  <2>2. Merges(q, ts, 0, q, f, g)
    BY <1>0 DEF Merges
  <2> HIDE DEF f, g
  <2>3. \A x \in iter[1..0] : x = q
    BY <1>3, <2>1
  <2> QED BY <2>2, <2>3
<1>5. ASSUME NEW n \in Nat, n \in T
      PROVE  n + 1 \in T
  <2> SUFFICES ASSUME n + 1 <= Len(ts), NEW x \in iter[1..n + 1]
               PROVE  \E f, g : Merges(q, ts, n + 1, x, f, g)
    OBVIOUS
  <2>1. 1..n + 1 \in SUBSET (DOMAIN ts) /\ n < Len(ts)
    BY <1>0
  <2>2. iter[1..n + 1] = UNION {Placed(z, ts[n + 1]) : z \in iter[1..n]}
    <3>1. iter[1..n + 1] = UNION {Placed(z, ts[Max(1..n + 1)]) : z \in iter[(1..n + 1) \ {Max(1..n + 1)}]}
      <4>1. 1..n + 1 # {}
        BY LastOfInterval
      <4> HIDE DEF T
      <4> QED BY <1>2, <2>1, <4>1 DEF Folds
    <3>2. Max(1..n + 1) = n + 1 /\ (1..n + 1) \ {n + 1} = 1..n
      BY LastOfInterval
    <3> QED BY <3>1, <3>2, Zenon
  <2>3. PICK z \in iter[1..n] : x \in Placed(z, ts[n + 1])
    BY <2>2
  <2>4. PICK f, g : Merges(q, ts, n, z, f, g)
    BY <1>0, <1>5, <2>1
  <2> HIDE DEF T
  <2> QED BY <2>1, <2>3, <2>4, MergeOne
<1>6. Len(ts) \in T
  <2> HIDE DEF T
  <2> QED BY <1>0, <1>4, <1>5, CountingUp
<1> QED BY <1>0, <1>1, <1>6

\* Setting timers keeps a queue a queue.
LEMMA SetTimersType ==
  ASSUME NEW q \in Seq(Timers), NEW ts \in Seq(Timers), NEW p \in SetTimers(q, ts)
  PROVE  p \in Seq(Timers)
BY SetTimersMerges DEF Merges

\* The timers the handlers build are timers.
LEMMA TimerTypes ==
  /\ \A job \in Jobs \ {"remove", "up", "slide"} : Timer(job) \in Timers
  /\ \A job \in Jobs, c \in Columns : TimerOf(job, c) \in Timers
  /\ \A job \in Jobs, c \in Columns, i \in Ids \cup {None} : TimerForItem(job, c, i) \in Timers
BY DEF Timers, Timer, TimerOf, TimerForItem, Ids, None

\* What a timer may do.
LEMMA JobNames ==
  Jobs = {"reset", "convert", "slide", "remove", "up", "Up", "Down", "fade",
          "save", "fadeStatistic", "launchStatistic"}
BY DEF Jobs, Delay, ConvertDelay

------------------------------------------------------------------------------
(* Types. *)

Objects == UNION {[D -> Values] : D \in SUBSET Ids}
Before  == Len(InitItems["income"]) + Len(InitItems["expense"])
Dialogs == [open : BOOLEAN, mode : {"add", "edit"}, col : Columns, id : Ids \cup {None},
            val : Values \cup {Blank}, visible : BOOLEAN]

\* The types, with what keeps them: an id is at most the number of the items at the
\* start and of the clicks since, and without arrows a list fits its frame, so that
\* a slider that may go up has been pulled down.
TypeInv ==
  /\ items \in Columned(Objects)
  /\ \A c \in Columns : \A i \in DOMAIN items[c] : i <= clicks + Before
  /\ conv \in Columned(Objects)
  /\ list \in Columned(Seq(Div))
  /\ arrows \in Columned(BOOLEAN) /\ empty \in Columned(BOOLEAN)
  /\ shift \in Columned(Nat)
  /\ dialog \in Dialogs
  /\ first \in Columned(Ids \cup {None}) /\ second \in Ids \cup {None}
  /\ page \in {"settings", "statistic"}
  /\ timers \in Seq(Timers)
  /\ gates \in SUBSET Debounced
  /\ clicks \in 0..MaxClicks
  /\ unsent \in BOOLEAN /\ late \in BOOLEAN
  /\ SignsMatchList

\* What the assumption says of the constants, in the form the proofs use.
LEMMA Bounds ==
  /\ MaxClicks \in Nat /\ Before \in Nat /\ MaxId = MaxClicks + Before
  /\ Frame \in Nat \ {0} /\ Ids \in SUBSET Nat /\ Ids = 1..(MaxClicks + Before)
  /\ \A c \in Columns : InitItems[c] \in Seq(Values) /\ Len(InitItems[c]) \in 0..Before
<1>1. \A c \in Columns : InitItems[c] \in Seq(Values) /\ Len(InitItems[c]) \in Nat
  BY EditorAssumption, LenProperties DEF EditorAssumption
<1>2. MaxClicks \in Nat /\ Frame \in Nat \ {0}
  BY EditorAssumption DEF EditorAssumption
<1>3. Len(InitItems["income"]) \in Nat /\ Len(InitItems["expense"]) \in Nat
  BY <1>1 DEF Columns
<1> DEFINE a == Len(InitItems["income"])
           b == Len(InitItems["expense"])
<1>n. a \in Nat /\ b \in Nat
  BY <1>3
<1>m. MaxId = (MaxClicks + a) + b /\ Before = a + b
  BY DEF MaxId, Before
<1>5a. \A c \in Columns : Len(InitItems[c]) = a \/ Len(InitItems[c]) = b
  BY DEF Columns
<1> HIDE DEF a, b
<1>4. Before \in Nat /\ MaxId = MaxClicks + Before
  BY <1>2, <1>n, <1>m
<1>5. \A c \in Columns : Len(InitItems[c]) <= Before
  BY <1>n, <1>m, <1>5a
<1> QED BY <1>1, <1>2, <1>4, <1>5 DEF Ids

\* The inductive invariant has the types of TypeOK.
LEMMA TypeInvIsTypeOK == TypeInv => TypeOK
<1> SUFFICES ASSUME TypeInv PROVE TypeOK
  OBVIOUS
<1>1. \A c \in Columns : /\ DOMAIN items[c] \subseteq Ids
                         /\ \A i \in DOMAIN items[c] : items[c][i] \in Values
                         /\ DOMAIN conv[c] \subseteq Ids
  BY DEF TypeInv, Columned, Objects
<1>2. timers \in Seq([job : DOMAIN Delay, col : Columns \cup {"none"}, id : Ids \cup {None}])
  <2>1. Timers \subseteq [job : DOMAIN Delay, col : Columns \cup {"none"}, id : Ids \cup {None}]
    BY DEF Timers, Jobs
  <2> QED BY <2>1, SeqMonotonic DEF TypeInv
<1> QED BY <1>1, <1>2 DEF TypeInv, TypeOK, Dialogs, Columned

\* Writing an item gives columns of items, and changes this item only.
LEMMA PutType ==
  ASSUME items \in Columned(Objects), NEW c \in Columns, NEW i \in Ids, NEW v \in Values
  PROVE  /\ Put(c, i, v) \in Columned(Objects)
         /\ DOMAIN Put(c, i, v)[c] = DOMAIN items[c] \cup {i}
         /\ \A j \in DOMAIN items[c] \cup {i} : Put(c, i, v)[c][j] = IF j = i THEN v ELSE items[c][j]
         /\ \A d \in Columns \ {c} : Put(c, i, v)[d] = items[d]
<1> DEFINE o == [j \in DOMAIN items[c] \cup {i} |-> IF j = i THEN v ELSE items[c][j]]
<1>1. PICK D \in SUBSET Ids : items[c] \in [D -> Values]
  BY DEF Columned, Objects
<1>2. o \in [D \cup {i} -> Values] /\ D \cup {i} \in SUBSET Ids
  BY <1>1
<1>3. o \in Objects
  BY <1>2 DEF Objects
<1>4. DOMAIN o = DOMAIN items[c] \cup {i}
  OBVIOUS
<1>4a. \A j \in DOMAIN items[c] \cup {i} : o[j] = IF j = i THEN v ELSE items[c][j]
  OBVIOUS
<1>5. Put(c, i, v) = [items EXCEPT ![c] = o]
  BY DEF Put
<1> HIDE DEF o
<1> QED BY <1>3, <1>4, <1>4a, <1>5 DEF Columned

\* Taking an item away gives columns of items, and changes nothing else.
LEMMA WithoutType ==
  ASSUME items \in Columned(Objects), NEW c \in Columns, NEW i
  PROVE  /\ Without(c, i) \in Columned(Objects)
         /\ DOMAIN Without(c, i)[c] = DOMAIN items[c] \ {i}
         /\ \A j \in DOMAIN items[c] \ {i} : Without(c, i)[c][j] = items[c][j]
         /\ \A d \in Columns \ {c} : Without(c, i)[d] = items[d]
<1> DEFINE o == [j \in DOMAIN items[c] \ {i} |-> items[c][j]]
<1>1. PICK D \in SUBSET Ids : items[c] \in [D -> Values]
  BY DEF Columned, Objects
<1>2. o \in [D \ {i} -> Values] /\ D \ {i} \in SUBSET Ids
  BY <1>1
<1>3. o \in Objects
  BY <1>2 DEF Objects
<1>4. DOMAIN o = DOMAIN items[c] \ {i} /\ \A j \in DOMAIN items[c] \ {i} : o[j] = items[c][j]
  OBVIOUS
<1>5. Without(c, i) = [items EXCEPT ![c] = o]
  BY DEF Without
<1> HIDE DEF o
<1> QED BY <1>3, <1>4, <1>5 DEF Columned

\* A new id is larger than those in use, and no larger than the clicks allow.
LEMMA NewIdIsNew ==
  ASSUME TypeInv, NEW c \in Columns
  PROVE  /\ NewId(c) \in Nat \ {0} /\ NewId(c) <= clicks + 1 + Before
         /\ \A i \in DOMAIN items[c] : i < NewId(c)
<1> DEFINE T == {None} \cup DOMAIN items[c]
           b == clicks + Before
<1>1. DOMAIN items[c] \in SUBSET Nat
  <2>1. items[c] \in Objects
    BY DEF TypeInv, Columned
  <2>2. PICK D \in SUBSET Ids : items[c] \in [D -> Values]
    BY <2>1 DEF Objects
  <2> QED BY <2>2, Bounds
<1>2. b \in Nat /\ \A i \in T : i <= b
  BY Bounds DEF TypeInv, None
<1>3. T \in SUBSET Nat /\ T # {}
  BY <1>1 DEF None
<1>4. SetMax(T) \in T /\ \A m \in T : m <= SetMax(T)
  <2> HIDE DEF T, b
  <2> QED BY <1>2, <1>3, SetMaxFacts
<1>5. NewId(c) = 1 + SetMax(T) /\ SetMax(T) \in Nat /\ SetMax(T) <= b
  BY <1>2, <1>3, <1>4 DEF NewId
<1>6. \A m \in DOMAIN items[c] : m <= SetMax(T) /\ m \in Nat
  BY <1>1, <1>4
<1>7. clicks \in Nat
  BY DEF TypeInv
<1> HIDE DEF T
<1> QED BY <1>5, <1>6, <1>7, Bounds

\* The signs agree with the lists they were computed from.
LEMMA PositionType ==
  ASSUME NEW l \in Columned(Seq(Div))
  PROVE  /\ ItemsPosition(l) \in Columned(BOOLEAN)
         /\ CheckSlidersLength(l) \in Columned(BOOLEAN)
         /\ \A c \in Columns : /\ ~ItemsPosition(l)[c] => Len(l[c]) <= Frame
                               /\ CheckSlidersLength(l)[c] <=> l[c] = <<>>
<1>1. \A c \in Columns : Len(l[c]) \in Nat
  BY LenProperties DEF Columned
<1>2. Frame \in Nat
  BY Bounds
<1>2a. \A n \in Nat : (n > Frame) \in BOOLEAN /\ (~(n > Frame) => n <= Frame)
  BY <1>2
<1>3. /\ ItemsPosition(l) \in Columned(BOOLEAN)
      /\ \A c \in Columns : ~ItemsPosition(l)[c] => Len(l[c]) <= Frame
  <2>1. \A c \in Columns : ItemsPosition(l)[c] = (Len(l[c]) > Frame)
    BY DEF ItemsPosition
  <2>2. ItemsPosition(l) \in Columned(BOOLEAN)
    <3>1. \A c \in Columns : (Len(l[c]) > Frame) \in BOOLEAN
      BY <1>1, <1>2a
    <3> QED BY <3>1, Zenon DEF ItemsPosition, Columned
  <2> QED BY <1>1, <1>2a, <2>1, <2>2
<1>4. /\ CheckSlidersLength(l) \in Columned(BOOLEAN)
      /\ \A c \in Columns : CheckSlidersLength(l)[c] <=> l[c] = <<>>
  BY DEF CheckSlidersLength, Columned
<1> QED BY <1>3, <1>4

\* jsonDataSave keeps the types of the queue and the debounces.
LEMMA SaveTypes ==
  ASSUME TypeInv, User, NEW its, NEW before \in Seq(Timers), NEW after \in Seq(Timers),
         NEW closed \in SUBSET Debounced, SaveAnd(its, before, after, closed)
  PROVE  /\ timers' \in Seq(Timers) /\ gates' \in SUBSET Debounced
         /\ clicks' \in 0..MaxClicks /\ unsent' \in BOOLEAN
<1>0. clicks' \in 0..MaxClicks
  BY Bounds DEF TypeInv, User
<1>1. before \o after \in Seq(Timers) /\ before \o <<Timer("save")>> \o after \in Seq(Timers)
  <2>1. <<Timer("save")>> \in Seq(Timers)
    <3>1. Timer("save") \in Timers
      BY TimerTypes, JobNames
    <3> QED BY <3>1
  <2> QED BY <2>1, ConcatProperties
<1>2. timers' \in Seq(Timers)
  BY <1>1, SetTimersType DEF SaveAnd, TypeInv
<1>3. gates' \in SUBSET Debounced
  BY DEF SaveAnd, TypeInv, Debounced
<1>4. unsent' \in BOOLEAN
  BY DEF SaveAnd
<1> QED BY <1>0, <1>2, <1>3, <1>4

\* Up and Down keep a slider's place a number: without arrows the list fits the
\* frame, so Up moves it only when it has been pulled down.
LEMMA SlideTypes ==
  ASSUME TypeInv, NEW c \in Columns, NEW q \in Seq(Timers),
         CallUp(c, q) \/ CallDown(c, q)
  PROVE  /\ timers' \in Seq(Timers) /\ gates' \in SUBSET Debounced
         /\ shift' \in Columned(Nat)
<1>1. \A m \in BOOLEAN, job \in {"Up", "Down"} :
         (IF m THEN <<TimerOf("slide", c)>> ELSE <<>>) \o <<Timer(job)>> \in Seq(Timers)
  <2>1. \A job \in {"Up", "Down"} : <<Timer(job)>> \in Seq(Timers)
    BY TimerTypes, JobNames
  <2>2. <<TimerOf("slide", c)>> \in Seq(Timers) /\ <<>> \in Seq(Timers)
    BY TimerTypes, JobNames
  <2> QED BY <2>1, <2>2, ConcatProperties
<1>2. timers \in Seq(Timers) /\ gates \in SUBSET Debounced /\ shift \in Columned(Nat)
  BY DEF TypeInv
<1>3. Len(list[c]) \in Nat /\ Frame \in Nat /\ shift[c] \in Nat /\ arrows[c] \in BOOLEAN
      /\ (~arrows[c] => Len(list[c]) <= Frame)
  BY LenProperties, Bounds DEF TypeInv, Columned, SignsMatchList
<1>4. Top(c) > Frame - Len(list[c]) => shift[c] - 1 \in Nat
  BY <1>3 DEF Top
<1>5. CASE CallUp(c, q)
  <2> DEFINE moves == ~Moving(c) /\ Top(c) > Frame - Len(list[c])
  <2>1. shift' \in Columned(Nat)
    BY <1>2, <1>4, <1>5 DEF CallUp, Columned
  <2>2. gates' \in SUBSET Debounced
    BY <1>2, <1>5 DEF CallUp, Debounced
  <2>3. timers' \in Seq(Timers)
    <3>1. timers' = q \/ timers' \in SetTimers(q, (IF moves THEN <<TimerOf("slide", c)>> ELSE <<>>)
                                           \o <<Timer("Up")>>)
      BY <1>5 DEF CallUp
    <3>2. moves \in BOOLEAN
      OBVIOUS
    <3> HIDE DEF moves
    <3> QED BY <1>1, <3>1, <3>2, SetTimersType
  <2> QED BY <2>1, <2>2, <2>3
<1>6. CASE CallDown(c, q)
  <2> DEFINE moves == ~Moving(c) /\ Top(c) < 0
  <2>1. shift' \in Columned(Nat)
    <3>1. shift' = shift \/ shift' = [shift EXCEPT ![c] = @ + 1]
                         \/ shift' = [shift EXCEPT ![c] = @]
      BY <1>6 DEF CallDown
    <3>2. shift[c] + 1 \in Nat
      BY <1>3
    <3> QED BY <1>2, <3>1, <3>2 DEF Columned
  <2>2. gates' \in SUBSET Debounced
    BY <1>2, <1>6 DEF CallDown, Debounced
  <2>3. timers' \in Seq(Timers)
    <3>1. timers' = q \/ timers' \in SetTimers(q, (IF moves THEN <<TimerOf("slide", c)>> ELSE <<>>)
                                           \o <<Timer("Down")>>)
      BY <1>6 DEF CallDown
    <3>2. moves \in BOOLEAN
      OBVIOUS
    <3> HIDE DEF moves
    <3> QED BY <1>1, <3>1, <3>2, SetTimersType
  <2> QED BY <2>1, <2>2, <2>3
<1> QED BY <1>5, <1>6

\* The page starts well typed.
LEMMA InitTypes == Init => TypeInv
<1> SUFFICES ASSUME Init PROVE TypeInv
  OBVIOUS
<1> USE DEF Init
<1>1. \A c \in Columns : /\ InitItems[c] \in Seq(Values) /\ Len(InitItems[c]) \in 0..Before
                         /\ DOMAIN InitItems[c] = 1..Len(InitItems[c])
                         /\ InitItems[c] \in [1..Len(InitItems[c]) -> Values]
  BY Bounds, LenProperties
<1>2. \A c \in Columns : 1..Len(InitItems[c]) \in SUBSET Ids
  BY <1>1, Bounds
<1>3. items \in Columned(Objects) /\ conv \in Columned(Objects)
  <2>1. \A c \in Columns : InitItems[c] \in Objects
    BY <1>1, <1>2 DEF Objects
  <2>2. InitItems \in [Columns -> Seq(Values)]
    BY EditorAssumption DEF EditorAssumption
  <2> QED BY <2>1, <2>2 DEF Columned
<1>4. clicks = 0 /\ \A c \in Columns : \A i \in DOMAIN items[c] : i <= clicks + Before
  BY <1>1, Bounds
<1>5. \A c \in Columns : list[c] \in Seq(Div) /\ Len(list[c]) = Len(InitItems[c])
  <2> SUFFICES ASSUME NEW c \in Columns
               PROVE  list[c] \in Seq(Div) /\ Len(list[c]) = Len(InitItems[c])
    OBVIOUS
  <2> DEFINE n == Len(InitItems[c])
  <2>1. list[c] = [k \in 1..n |-> [id |-> k, val |-> InitItems[c][k]]]
    BY <1>1
  <2>2. \A k \in 1..n : [id |-> k, val |-> InitItems[c][k]] \in Div
    BY <1>1, <1>2 DEF Div
  <2>3. n \in Nat
    BY <1>1
  <2> HIDE DEF n
  <2>4. list[c] \in Seq(Div) /\ Len(list[c]) = n
    BY <2>1, <2>2, <2>3
  <2> QED BY <2>4 DEF n
<1>6. list \in Columned(Seq(Div))
  BY <1>5 DEF Columned
<1>7. /\ arrows \in Columned(BOOLEAN) /\ empty \in Columned(BOOLEAN)
      /\ SignsMatchList
  BY <1>6, PositionType DEF SignsMatchList
<1>8. shift \in Columned(Nat)
  BY DEF Columned, Ids
<1>9. first \in Columned(Ids \cup {None})
  <2>1. \A c \in Columns : InitItems[c] # <<>> => 1 \in Ids
    <3> SUFFICES ASSUME NEW c \in Columns, InitItems[c] # <<>>
                 PROVE  1 \in Ids
      OBVIOUS
    <3>1. InitItems[c] \in Seq(Values) /\ Len(InitItems[c]) \in Nat
      BY <1>1, LenProperties
    <3>2. Len(InitItems[c]) # 0
      BY <3>1, EmptySeq
    <3>3. 1 \in 1..Len(InitItems[c])
      BY <3>1, <3>2
    <3> QED BY <1>2, <3>3
  <2> QED BY <2>1 DEF Columned
<1>10. second \in Ids \cup {None}
  <2>1. Cardinality(DOMAIN InitItems["expense"]) = Len(InitItems["expense"])
    <3>1. ASSUME NEW n \in Nat PROVE Cardinality(1..n) = n
      <4>1. \A a, b \in Int : Cardinality(a..b) = IF a > b THEN 0 ELSE b - a + 1
        BY FS_Interval, Zenon
      <4>2. 1 \in Int /\ n \in Int
        OBVIOUS
      <4>3. Cardinality(1..n) = IF 1 > n THEN 0 ELSE n - 1 + 1
        BY <4>1, <4>2, Zenon
      <4> QED BY <4>3
    <3>2. "expense" \in Columns
      BY DEF Columns
    <3> QED BY <1>1, <3>1, <3>2
  <2>2. Len(InitItems["expense"]) > 1 => 2 \in 1..Len(InitItems["expense"])
    BY <1>1 DEF Columns
  <2> QED BY <1>2, <2>1, <2>2 DEF Columns
<1>11. dialog \in Dialogs
  BY DEF Dialogs, Columns
<1>12. timers \in Seq(Timers) /\ clicks \in 0..MaxClicks
  BY Bounds
<1> QED BY <1>3, <1>4, <1>6, <1>7, <1>8, <1>9, <1>10, <1>11, <1>12 DEF TypeInv

\* What AddNewItem does to the columns.
LEMMA AddTypes ==
  ASSUME TypeInv, User, AddNewItem, UNCHANGED <<shift, sums, page>>, late' \in BOOLEAN
  PROVE  TypeInv'
<1> DEFINE c == dialog.col
           id == NewId(c)
           d == [id |-> id, val |-> dialog.val]
           l == [list EXCEPT ![c] = Append(@, d)]
           before == IF dialog.val # Blank THEN <<Timer("reset"), Timer("convert")>> \o Fading
                                           ELSE <<Timer("convert")>>
<1>1. c \in Columns /\ dialog \in Dialogs /\ dialog.val \in Values \cup {Blank}
  BY DEF TypeInv, Dialogs
<1>2. clicks' \in 0..MaxClicks /\ clicks' = clicks + 1 /\ clicks \in Nat
  BY Bounds DEF TypeInv, User
<1>3. id \in Ids /\ id <= clicks' + Before
  BY <1>1, <1>2, NewIdIsNew, Bounds
<1>4. (items' = Put(c, id, dialog.val) /\ dialog.val \in Values) \/ items' = items
  BY <1>1 DEF AddNewItem
<1>5. items' \in Columned(Objects) /\ \A e \in Columns : \A i \in DOMAIN items'[e] : i <= clicks' + Before
  <2>1. items \in Columned(Objects) /\ \A e \in Columns : \A i \in DOMAIN items[e] : i \in Nat /\ i <= clicks + Before
    <3>1. \A e \in Columns : DOMAIN items[e] \in SUBSET Ids
      BY DEF TypeInv, Columned, Objects
    <3> QED BY <3>1, Bounds DEF TypeInv
  <2>2. CASE items' = items
    BY <1>2, <2>1, <2>2, Bounds
  <2>3. CASE items' = Put(c, id, dialog.val) /\ dialog.val \in Values
    <3>1. /\ items' \in Columned(Objects)
          /\ DOMAIN items'[c] = DOMAIN items[c] \cup {id}
          /\ \A e \in Columns \ {c} : items'[e] = items[e]
      <4> HIDE DEF c, id
      <4> QED BY <1>1, <1>3, <2>1, <2>3, PutType
    <3> HIDE DEF c, id
    <3> QED BY <1>2, <1>3, <2>1, <3>1, Bounds
  <2> QED BY <1>4, <2>2, <2>3
<1>6. list' \in Columned(Seq(Div))
  <2>1. d \in Div \/ dialog.val = Blank
    BY <1>1, <1>3 DEF Div
  <2>2. list[c] \in Seq(Div) /\ list \in [Columns -> Seq(Div)]
    BY <1>1 DEF TypeInv, Columned
  <2>3. dialog.val # Blank => Append(list[c], d) \in Seq(Div)
    BY <2>1, <2>2, AppendProperties
  <2>4. list' = IF dialog.val # Blank THEN l ELSE list
    BY DEF AddNewItem
  <2> QED BY <2>2, <2>3, <2>4 DEF Columned
<1>7. arrows' \in Columned(BOOLEAN) /\ empty' \in Columned(BOOLEAN) /\ SignsMatchList'
  BY <1>6, PositionType DEF AddNewItem, SignsMatchList
<1>8. dialog' \in Dialogs
  BY <1>1 DEF AddNewItem, TurnOff, Dialogs
<1>9. before \in Seq(Timers)
  BY JobNames, TimerTypes, ConcatProperties DEF Fading
<1>10. /\ timers' \in Seq(Timers) /\ gates' \in SUBSET Debounced
       /\ clicks' \in 0..MaxClicks /\ unsent' \in BOOLEAN
  <2>1. SaveAnd(items', before, <<>>, {})
    BY DEF AddNewItem, Save
  <2>2. <<>> \in Seq(Timers) /\ {} \in SUBSET Debounced
    OBVIOUS
  <2> HIDE DEF before
  <2> QED BY <1>9, <2>1, <2>2, SaveTypes
<1> QED BY <1>5, <1>6, <1>7, <1>8, <1>10 DEF TypeInv, sums

\* Another click leaves the bounds that count clicks true.
LEMMA LaterClick ==
  ASSUME TypeInv, User, UNCHANGED <<items, shown, sums, net>>
  PROVE  /\ clicks' \in 0..MaxClicks
         /\ \A c \in Columns : \A i \in DOMAIN items'[c] : i <= clicks' + Before
         /\ items' \in Columned(Objects) /\ conv' \in Columned(Objects)
         /\ list' \in Columned(Seq(Div))
         /\ arrows' \in Columned(BOOLEAN) /\ empty' \in Columned(BOOLEAN)
         /\ first' \in Columned(Ids \cup {None}) /\ second' \in Ids \cup {None}
         /\ unsent' \in BOOLEAN
         /\ SignsMatchList'
<1>1. clicks' \in 0..MaxClicks /\ clicks' = clicks + 1 /\ clicks \in Nat
  BY Bounds DEF TypeInv, User
<1>2. \A c \in Columns : DOMAIN items[c] \in SUBSET Ids
  BY DEF TypeInv, Columned, Objects
<1>3. \A c \in Columns : \A i \in DOMAIN items[c] : i \in Nat /\ i <= clicks + Before
  BY <1>2, Bounds DEF TypeInv
<1>4. \A c \in Columns : \A i \in DOMAIN items'[c] : i <= clicks' + Before
  BY <1>1, <1>3, Bounds
<1>5. SignsMatchList'
  BY DEF TypeInv, SignsMatchList, shown
<1> QED BY <1>1, <1>4, <1>5 DEF TypeInv, shown, sums, net

\* saveOldItem keeps the types.
LEMMA SaveOldTypes ==
  ASSUME TypeInv, User, SaveOldItem, UNCHANGED <<shift, sums, page>>, late' \in BOOLEAN
  PROVE  TypeInv'
<1> DEFINE c == dialog.col
           renew(d) == IF d.id = dialog.id THEN [d EXCEPT !.val = dialog.val] ELSE d
           renewed == [k \in DOMAIN list[c] |-> renew(list[c][k])]
           before == IF dialog.val # Blank THEN <<Timer("reset"), Timer("convert")>> \o Fading
                                           ELSE <<Timer("convert")>>
<1>1. c \in Columns /\ dialog \in Dialogs /\ dialog.val \in Values \cup {Blank}
  BY DEF TypeInv, Dialogs
<1>2. clicks' \in 0..MaxClicks /\ clicks' = clicks + 1 /\ clicks \in Nat
  BY Bounds DEF TypeInv, User
<1>b. \A e \in Columns : \A i \in DOMAIN items[e] : i \in Nat /\ i <= clicks' + Before
  <2>1. \A e \in Columns : DOMAIN items[e] \in SUBSET Ids
    BY DEF TypeInv, Columned, Objects
  <2>2. \A e \in Columns : \A i \in DOMAIN items[e] : i \in Nat /\ i <= clicks + Before
    BY <2>1, Bounds DEF TypeInv
  <2> QED BY <1>2, <2>2, Bounds
<1>3. CASE dialog.val # Blank /\ dialog.id \notin DOMAIN items[c]
  <2>1. UNCHANGED <<items, shown, dialog, timers, gates, net>>
    BY <1>3 DEF SaveOldItem
  <2>2. SignsMatchList'
    BY <2>1 DEF TypeInv, SignsMatchList, shown
  <2> QED BY <1>2, <1>b, <2>1, <2>2 DEF TypeInv, shown, sums, net
<1>4. CASE ~(dialog.val # Blank /\ dialog.id \notin DOMAIN items[c])
  <2>1. \/ items' = items
        \/ /\ items' = Put(c, dialog.id, dialog.val)
           /\ dialog.val \in Values /\ dialog.id \in DOMAIN items[c]
    BY <1>1, <1>4 DEF SaveOldItem
  <2>2. /\ items' \in Columned(Objects)
        /\ \A e \in Columns : DOMAIN items'[e] = DOMAIN items[e]
    <3>1. items \in Columned(Objects)
      BY DEF TypeInv
    <3>2. dialog.id \in DOMAIN items[c] => dialog.id \in Ids
      BY <1>1, <3>1 DEF Columned, Objects
    <3>3. CASE items' = items
      BY <3>1, <3>3
    <3>4. CASE items' = Put(c, dialog.id, dialog.val) /\ dialog.val \in Values
                            /\ dialog.id \in DOMAIN items[c]
      <4>1. /\ items' \in Columned(Objects)
            /\ DOMAIN items'[c] = DOMAIN items[c] \cup {dialog.id}
            /\ \A e \in Columns \ {c} : items'[e] = items[e]
        <5> HIDE DEF c
        <5> QED BY <1>1, <3>1, <3>2, <3>4, PutType
      <4> HIDE DEF c
      <4> QED BY <3>4, <4>1
    <3> QED BY <2>1, <3>3, <3>4
  <2>3. list' = IF dialog.val # Blank THEN [list EXCEPT ![c] = renewed] ELSE list
    BY <1>4 DEF SaveOldItem
  <2>4. list' \in Columned(Seq(Div))
    <3>1. list[c] \in Seq(Div) /\ list \in [Columns -> Seq(Div)]
      BY <1>1 DEF TypeInv, Columned
    <3>2. Len(list[c]) \in Nat /\ DOMAIN list[c] = 1..Len(list[c])
          /\ \A k \in 1..Len(list[c]) : list[c][k] \in Div
      BY <3>1, LenProperties, ElementOfSeq
    <3>3. dialog.val # Blank => \A d \in Div : renew(d) \in Div
      BY <1>1 DEF Div
    <3> HIDE DEF renew
    <3>4. dialog.val # Blank => renewed \in Seq(Div)
      BY <3>2, <3>3
    <3> HIDE DEF renewed
    <3> QED BY <2>3, <3>1, <3>4 DEF Columned
  <2>5. arrows' \in Columned(BOOLEAN) /\ empty' \in Columned(BOOLEAN) /\ SignsMatchList'
    BY <1>4, <2>4, PositionType DEF SaveOldItem, SignsMatchList
  <2>6. dialog' \in Dialogs
    BY <1>1, <1>4 DEF SaveOldItem, TurnOff, Dialogs
  <2>7. before \in Seq(Timers)
    BY JobNames, TimerTypes, ConcatProperties DEF Fading
  <2>8. /\ timers' \in Seq(Timers) /\ gates' \in SUBSET Debounced
        /\ clicks' \in 0..MaxClicks /\ unsent' \in BOOLEAN
    <3>1. SaveAnd(items', before, <<>>, {})
      BY <1>4 DEF SaveOldItem, Save
    <3>2. <<>> \in Seq(Timers) /\ {} \in SUBSET Debounced
      OBVIOUS
    <3> HIDE DEF before
    <3> QED BY <2>7, <3>1, <3>2, SaveTypes
  <2> QED BY <1>b, <2>2, <2>4, <2>5, <2>6, <2>8 DEF TypeInv, sums
<1> QED BY <1>3, <1>4

\* What deleteItem sets before the fade: at least the timers of turnOffModal and
\* runConvert, and the one that takes the div away.
Erasing(c) == <<Timer("reset"), Timer("convert"), TimerForItem("remove", c, dialog.id)>>
                \o (IF NearHead(c) /\ Len(list[c]) > Frame THEN <<TimerOf("up", c)>> ELSE <<>>)

\* The timers of deleteItem are timers.
LEMMA ErasingType ==
  ASSUME TypeInv, NEW c \in Columns
  PROVE  Erasing(c) \o Fading \in Seq(Timers)
<1>1. dialog.id \in Ids \cup {None}
  BY DEF TypeInv, Dialogs
<1>2. /\ <<Timer("reset"), Timer("convert"), TimerForItem("remove", c, dialog.id)>> \in Seq(Timers)
      /\ <<TimerOf("up", c)>> \in Seq(Timers) /\ <<>> \in Seq(Timers)
      /\ Fading \in Seq(Timers)
  BY <1>1, JobNames, TimerTypes DEF Fading
<1>3. (IF NearHead(c) /\ Len(list[c]) > Frame THEN <<TimerOf("up", c)>> ELSE <<>>) \in Seq(Timers)
  BY <1>2
<1> QED BY <1>2, <1>3, ConcatProperties DEF Erasing

\* deleteItem keeps the types.
LEMMA DeleteTypes ==
  ASSUME TypeInv, ClickDelete, late' \in BOOLEAN
  PROVE  TypeInv'
<1> DEFINE c == dialog.col
<1>1. c \in Columns /\ dialog \in Dialogs
  BY DEF TypeInv, Dialogs
<1>2. clicks' \in 0..MaxClicks /\ clicks' = clicks + 1 /\ clicks \in Nat
  BY Bounds DEF TypeInv, User, ClickDelete
<1>3. /\ items' \in Columned(Objects)
      /\ \A e \in Columns : \A i \in DOMAIN items'[e] : i <= clicks' + Before
  <2>1. items \in Columned(Objects)
        /\ \A e \in Columns : \A i \in DOMAIN items[e] : i \in Nat /\ i <= clicks + Before
    <3>1. \A e \in Columns : DOMAIN items[e] \in SUBSET Ids
      BY DEF TypeInv, Columned, Objects
    <3> QED BY <3>1, Bounds DEF TypeInv
  <2>2. items' = Without(c, dialog.id)
    BY DEF ClickDelete
  <2>3. /\ items' \in Columned(Objects)
        /\ DOMAIN items'[c] = DOMAIN items[c] \ {dialog.id}
        /\ \A e \in Columns \ {c} : items'[e] = items[e]
    <3> HIDE DEF c
    <3> QED BY <1>1, <2>1, <2>2, WithoutType
  <2> HIDE DEF c
  <2> QED BY <1>2, <2>1, <2>3, Bounds
<1>4. arrows' \in Columned(BOOLEAN) /\ SignsMatchList'
  <2>1. arrows' = ItemsPosition(list) /\ list' = list /\ empty' = empty
    BY DEF ClickDelete
  <2>2. list \in Columned(Seq(Div))
    BY DEF TypeInv
  <2> QED BY <2>1, <2>2, PositionType DEF SignsMatchList, TypeInv
<1>5. dialog' \in Dialogs
  BY <1>1 DEF ClickDelete, TurnOff, Dialogs
<1>6. /\ timers' \in Seq(Timers) /\ gates' \in SUBSET Debounced
      /\ clicks' \in 0..MaxClicks /\ unsent' \in BOOLEAN
  <2>1. SaveAnd(items', Erasing(c) \o Fading, <<>>, {}) /\ User
    BY DEF ClickDelete, Save, Erasing
  <2>2. <<>> \in Seq(Timers) /\ {} \in SUBSET Debounced
    OBVIOUS
  <2>3. Erasing(c) \o Fading \in Seq(Timers)
    BY <1>1, ErasingType
  <2> QED BY <2>1, <2>2, <2>3, SaveTypes
<1> QED BY <1>3, <1>4, <1>5, <1>6 DEF TypeInv, ClickDelete, sums

\* Scrolling keeps the types.
LEMMA ScrollTypes ==
  ASSUME TypeInv, NEW c \in Columns, ScrollUp(c) \/ ScrollDown(c), late' \in BOOLEAN
  PROVE  TypeInv'
<1>1. User /\ UNCHANGED <<items, shown, dialog, sums, page, net>>
  BY DEF ScrollUp, ScrollDown
<1>2. timers' \in Seq(Timers) /\ gates' \in SUBSET Debounced /\ shift' \in Columned(Nat)
  <2>1. timers \in Seq(Timers)
    BY DEF TypeInv
  <2>2. CallUp(c, timers) \/ CallDown(c, timers)
    BY DEF ScrollUp, ScrollDown
  <2> QED BY <2>1, <2>2, SlideTypes
<1>3. dialog' \in Dialogs /\ page' \in {"settings", "statistic"}
  BY <1>1 DEF TypeInv
<1> QED BY <1>1, <1>2, <1>3, LaterClick DEF TypeInv

\* Clicks that open or close the dialog, type, or change the page.
LEMMA OtherClickTypes ==
  ASSUME TypeInv, late' \in BOOLEAN,
         \/ \E c \in Columns : OpenAdd(c) \/ \E k \in DOMAIN list[c] : ItemClick(c, k)
         \/ \E v \in Values \cup {Blank} : TypeFields(v)
         \/ ClickAway \/ LaunchStatistic \/ FadeStatistic
  PROVE  TypeInv'
<1>0. dialog \in Dialogs /\ timers \in Seq(Timers) /\ gates \in SUBSET Debounced
      /\ page \in {"settings", "statistic"}
  BY DEF TypeInv
<1>1. ASSUME NEW c \in Columns, OpenAdd(c) PROVE TypeInv'
  <2>1. User /\ UNCHANGED <<items, shown, shift, sums, page, timers, gates, net>>
    BY <1>1 DEF OpenAdd
  <2>2. dialog' \in Dialogs
    BY <1>0, <1>1 DEF OpenAdd, Dialogs
  <2> QED BY <2>1, <2>2, LaterClick DEF TypeInv
<1>2. ASSUME NEW c \in Columns, NEW k \in DOMAIN list[c], ItemClick(c, k) PROVE TypeInv'
  <2>1. User /\ UNCHANGED <<items, shown, shift, sums, page, timers, gates, net>>
    BY <1>2 DEF ItemClick
  <2>2. list[c][k] \in [id : Ids, val : Values]
    <3>1. list[c] \in Seq(Div)
      BY DEF TypeInv, Columned
    <3> QED BY <3>1, ElementOfSeq, LenProperties DEF Div
  <2>3. dialog' \in Dialogs
    BY <1>2, <2>2 DEF ItemClick, Dialogs
  <2> QED BY <2>1, <2>3, LaterClick DEF TypeInv
<1>3. ASSUME NEW v \in Values \cup {Blank}, TypeFields(v) PROVE TypeInv'
  <2>1. UNCHANGED <<items, shown, shift, sums, page, timers, gates, net, clicks>>
    BY <1>3 DEF TypeFields
  <2>2. dialog' \in Dialogs
    BY <1>0, <1>3 DEF TypeFields, Dialogs
  <2>3. SignsMatchList'
    BY <2>1 DEF TypeInv, SignsMatchList, shown
  <2> QED BY <2>1, <2>2, <2>3 DEF TypeInv, shown, sums, net
<1>4. CASE ClickAway
  <2>1. User /\ UNCHANGED <<items, shown, shift, sums, page, gates, net>>
    BY <1>4 DEF ClickAway
  <2>2. dialog' \in Dialogs
    BY <1>0, <1>4 DEF ClickAway, TurnOff, Dialogs
  <2>3. timers' \in Seq(Timers)
    <3>1. <<Timer("reset")>> \in Seq(Timers) /\ Fading \in Seq(Timers)
      BY JobNames, TimerTypes DEF Fading
    <3>2. <<Timer("reset")>> \o Fading \in Seq(Timers)
      BY <3>1, ConcatProperties
    <3> QED BY <1>0, <1>4, <3>2, SetTimersType DEF ClickAway
  <2> QED BY <2>1, <2>2, <2>3, LaterClick DEF TypeInv
<1>5. CASE LaunchStatistic
  <2>1. User /\ UNCHANGED <<items, shown, shift, dialog, sums>>
    BY <1>5 DEF LaunchStatistic
  <2>2. CASE UNCHANGED <<page, timers, gates, net>>
    BY <2>1, <2>2, LaterClick DEF TypeInv
  <2>3. CASE /\ page' \in {"statistic", page}
             /\ SaveAnd(items, <<>>, <<Timer("launchStatistic")>>, {"launchStatistic"})
    <3>1. <<>> \in Seq(Timers) /\ <<Timer("launchStatistic")>> \in Seq(Timers)
          /\ {"launchStatistic"} \in SUBSET Debounced
      BY JobNames, TimerTypes DEF Debounced
    <3>2. /\ timers' \in Seq(Timers) /\ gates' \in SUBSET Debounced
          /\ clicks' \in 0..MaxClicks /\ unsent' \in BOOLEAN
      BY <2>1, <2>3, <3>1, SaveTypes
    <3>3. \A e \in Columns : \A i \in DOMAIN items[e] : i <= clicks' + Before
      <4>1. \A e \in Columns : DOMAIN items[e] \in SUBSET Ids
        BY DEF TypeInv, Columned, Objects
      <4>2. \A e \in Columns : \A i \in DOMAIN items[e] : i \in Nat /\ i <= clicks + Before
        BY <4>1, Bounds DEF TypeInv
      <4> QED BY <4>2, <2>1, Bounds DEF TypeInv, User
    <3>4. SignsMatchList' /\ page' \in {"settings", "statistic"}
      BY <1>0, <2>1, <2>3 DEF TypeInv, SignsMatchList, shown
    <3> QED BY <2>1, <3>2, <3>3, <3>4 DEF TypeInv, shown, sums
  <2> QED BY <1>5, <2>2, <2>3 DEF LaunchStatistic
<1>6. CASE FadeStatistic
  <2>1. User /\ UNCHANGED <<items, shown, shift, dialog, sums, net>>
    BY <1>6 DEF FadeStatistic
  <2>2. timers' \in Seq(Timers)
    <3>1. <<Timer("fadeStatistic")>> \in Seq(Timers)
      BY JobNames, TimerTypes
    <3> QED BY <1>0, <1>6, <3>1, SetTimersType DEF FadeStatistic
  <2>3. gates' \in SUBSET Debounced /\ page' \in {"settings", "statistic"}
    BY <1>0, <1>6 DEF FadeStatistic, Debounced
  <2> QED BY <2>1, <2>2, <2>3, LaterClick DEF TypeInv
<1> QED BY <1>1, <1>2, <1>3, <1>4, <1>5, <1>6

\* The first timer of a queue that is not empty, and the rest.
LEMMA TailFacts ==
  ASSUME TypeInv, timers # <<>>
  PROVE  /\ Head(timers) = timers[1] /\ Head(timers) \in Timers
         /\ Tail(timers) \in Seq(Timers)
         /\ Len(timers) \in Nat \ {0} /\ DOMAIN timers = 1..Len(timers)
         /\ Len(Tail(timers)) = Len(timers) - 1
         /\ DOMAIN Tail(timers) = 1..Len(timers) - 1
         /\ \A k \in 1..Len(timers) - 1 : Tail(timers)[k] = timers[k + 1]
<1>1. timers \in Seq(Timers)
  BY DEF TypeInv
<1>2. /\ Head(timers) \in Timers /\ Tail(timers) \in Seq(Timers)
      /\ Len(Tail(timers)) = Len(timers) - 1
      /\ \A k \in 1..Len(Tail(timers)) : Tail(timers)[k] = timers[k + 1]
  BY <1>1, HeadTailProperties
<1>3. Head(timers) = timers[1] /\ Len(timers) \in Nat \ {0} /\ DOMAIN timers = 1..Len(timers)
  BY <1>1, EmptySeq, LenProperties
<1>4. DOMAIN Tail(timers) = 1..Len(timers) - 1
  BY <1>2, LenProperties
<1> QED BY <1>2, <1>3, <1>4

\* Removing the first div with an id.
LEMMA RemoveAtFacts ==
  ASSUME NEW S, NEW l \in Seq(S), NEW k \in 1..Len(l)
  PROVE  /\ RemoveAt(l, k) \in Seq(S) /\ Len(RemoveAt(l, k)) = Len(l) - 1
         /\ \A i \in 1..Len(l) - 1 : RemoveAt(l, k)[i] = l[IF i < k THEN i ELSE i + 1]
<1> DEFINE a == SubSeq(l, 1, k - 1)
           b == SubSeq(l, k + 1, Len(l))
<1>0. Len(l) \in Nat /\ \A i \in 1..Len(l) : l[i] \in S
  BY ElementOfSeq, LenProperties
<1>1. /\ a \in Seq(S) /\ Len(a) = k - 1
      /\ \A i \in 1..k - 1 : a[i] = l[i]
  <2>1. k - 1 \in Int /\ \A i \in 1..k - 1 : l[i] \in S
    BY <1>0
  <2> QED BY <2>1, SubSeqProperties
<1>2. /\ b \in Seq(S) /\ Len(b) = Len(l) - k
      /\ \A i \in 1..Len(l) - k : b[i] = l[k + i]
  <2>1. k + 1 \in Int /\ Len(l) \in Int /\ \A i \in k + 1..Len(l) : l[i] \in S
    BY <1>0
  <2>2. /\ b \in Seq(S) /\ Len(b) = IF k + 1 <= Len(l) THEN Len(l) - (k + 1) + 1 ELSE 0
        /\ \A i \in 1..Len(l) - (k + 1) + 1 : b[i] = l[(k + 1) + i - 1]
    BY <2>1, SubSeqProperties
  <2> QED BY <2>2, <1>0
<1> HIDE DEF a, b
<1>3. RemoveAt(l, k) = a \o b
  BY DEF RemoveAt, a, b
<1>4. /\ RemoveAt(l, k) \in Seq(S) /\ Len(RemoveAt(l, k)) = Len(a) + Len(b)
      /\ \A i \in 1..Len(a) + Len(b) : RemoveAt(l, k)[i] = IF i <= Len(a) THEN a[i] ELSE b[i - Len(a)]
  <2>1. /\ a \o b \in Seq(S) /\ Len(a \o b) = Len(a) + Len(b)
        /\ \A i \in 1..Len(a) + Len(b) : (a \o b)[i] = IF i <= Len(a) THEN a[i] ELSE b[i - Len(a)]
    <3>1. a \in Seq(S) /\ b \in Seq(S)
      BY <1>1, <1>2
    <3> QED BY <3>1, ConcatProperties
  <2> QED BY <2>1, <1>3
<1>5. Len(a) + Len(b) = Len(l) - 1
  BY <1>0, <1>1, <1>2
<1>6. ASSUME NEW i \in 1..Len(l) - 1
      PROVE  RemoveAt(l, k)[i] = l[IF i < k THEN i ELSE i + 1]
  <2>1. CASE i < k
    BY <2>1, <1>0, <1>1, <1>4, <1>5
  <2>2. CASE ~(i < k)
    <3>1. RemoveAt(l, k)[i] = b[i - (k - 1)]
      BY <2>2, <1>0, <1>1, <1>4, <1>5
    <3>2. b[i - (k - 1)] = l[k + (i - (k - 1))]
      BY <2>2, <1>0, <1>2
    <3> QED BY <2>2, <3>1, <3>2, <1>0
  <2> QED BY <2>1, <2>2
<1> QED BY <1>4, <1>5, <1>6

\* Every callback of a timer keeps the types.
LEMMA CallbackTypes ==
  ASSUME TypeInv, Callback
  PROVE  TypeInv'
<1>0. late' \in BOOLEAN /\ timers # <<>>
  BY DEF Callback, TypeInv, ResetFields, RunConvert, RemoveDiv, FollowRemoval, TimePasses, Fires
<1>t. Tail(timers) \in Seq(Timers) /\ Head(timers) \in Timers
  BY <1>0, TailFacts
<1>1. CASE ResetFields
  <2>1. dialog' \in Dialogs
    BY <1>1 DEF ResetFields, TypeInv, Dialogs
  <2>2. SignsMatchList'
    BY <1>1 DEF ResetFields, TypeInv, SignsMatchList, shown
  <2> QED BY <1>0, <1>1, <1>t, <2>1, <2>2 DEF ResetFields, TypeInv, shown, sums, net
<1>2. CASE RunConvert
  <2>0. \A c \in Columns : /\ DOMAIN items[c] \in SUBSET Ids /\ DOMAIN items[c] \in SUBSET Nat
                           /\ items[c] # <<>> => DOMAIN items[c] # {}
    <3>1. \A c \in Columns : DOMAIN items[c] \in SUBSET Ids /\ items[c] \in Objects
      BY DEF TypeInv, Columned, Objects
    <3>2. \A o \in Objects : DOMAIN o = {} => o = <<>>
      BY DEF Objects
    <3> QED BY <3>1, <3>2, Bounds
  <2>1. first' \in Columned(Ids \cup {None})
    <3>1. \A c \in Columns : items[c] # <<>> => SetMin(DOMAIN items[c]) \in Ids
      BY <2>0, SetMinFacts
    <3> QED BY <1>2, <3>1 DEF RunConvert, TypeInv, Columned
  <2>2. second' \in Ids \cup {None}
    <3> DEFINE D == DOMAIN items["expense"]
               E == D \ {SetMin(D)}
    <3>1. D \in SUBSET Nat /\ D \in SUBSET Ids
      BY <2>0 DEF Columns
    <3>2. E # {} => SetMin(E) \in Ids
      <4>1. E \in SUBSET Nat /\ E \in SUBSET Ids
        BY <3>1
      <4> HIDE DEF E
      <4> QED BY <4>1, SetMinFacts
    <3>3. Cardinality(D) > 1 => E # {}
      <4>1. SUFFICES ASSUME E = {} PROVE ~(Cardinality(D) > 1)
        OBVIOUS
      <4>2. D = {} \/ D = {SetMin(D)}
        BY <4>1
      <4> HIDE DEF D
      <4>3. Cardinality(D) = 0 \/ Cardinality(D) = 1
        BY <4>2, FS_EmptySet, FS_Singleton
      <4> QED BY <4>3
    <3>4. second' = IF Cardinality(D) > 1 THEN SetMin(E) ELSE second
      BY <1>2 DEF RunConvert, SecondItem
    <3> HIDE DEF D, E
    <3> QED BY <3>2, <3>3, <3>4 DEF TypeInv
  <2>3. SignsMatchList'
    BY <1>2 DEF RunConvert, TypeInv, SignsMatchList, shown
  <2>4. conv' \in Columned(Objects)
    <3>1. conv' = items
      BY <1>2 DEF RunConvert
    <3>2. items \in Columned(Objects)
      BY Zenon DEF TypeInv
    <3> QED BY <3>1, <3>2, Zenon
  <2> QED BY <1>0, <1>2, <1>t, <2>1, <2>2, <2>3, <2>4 DEF RunConvert, TypeInv, shown, net
<1>3. CASE RemoveDiv
  <2> DEFINE t == Head(timers)
             c == t.col
             ks == {k \in DOMAIN list[c] : list[c][k].id = t.id}
             r == IF ks = {} THEN list[c] ELSE RemoveAt(list[c], SetMin(ks))
  <2>1. c \in Columns
    BY <1>3, <1>t DEF RemoveDiv, Fires, Timers
  <2>2. list' = [list EXCEPT ![c] = r] /\ list \in [Columns -> Seq(Div)]
    BY <1>3, <2>1 DEF RemoveDiv, TypeInv, Columned
  <2>3. r \in Seq(Div) /\ Len(r) <= Len(list[c])
    <3>1. list[c] \in Seq(Div) /\ Len(list[c]) \in Nat /\ DOMAIN list[c] = 1..Len(list[c])
      BY <2>1, <2>2, LenProperties
    <3>2. ks \in SUBSET (1..Len(list[c]))
      BY <3>1
    <3>3. ks # {} => SetMin(ks) \in 1..Len(list[c])
      <4>1. ks \in SUBSET Nat
        BY <3>2
      <4> HIDE DEF ks
      <4> QED BY <3>2, <4>1, SetMinFacts
    <3> HIDE DEF ks
    <3> QED BY <3>1, <3>3, RemoveAtFacts
  <2>4. list' \in Columned(Seq(Div))
    <3> HIDE DEF r, c
    <3> QED BY <2>1, <2>2, <2>3 DEF Columned
  <2>5. empty' = CheckSlidersLength(list') /\ arrows' = arrows
    BY <1>3 DEF RemoveDiv
  <2>6. SignsMatchList' /\ empty' \in Columned(BOOLEAN)
    <3>1. \A e \in Columns : Len(list'[e]) <= Len(list[e])
      <4>1. \A e \in Columns : Len(list[e]) \in Nat
        BY <2>2, LenProperties
      <4> HIDE DEF r, c
      <4> QED BY <2>1, <2>2, <2>3, <4>1
    <3>2. \A e \in Columns : ~arrows[e] => Len(list[e]) <= Frame
      BY DEF TypeInv, SignsMatchList
    <3>3. \A e \in Columns : Len(list[e]) \in Nat /\ Len(list'[e]) \in Nat /\ Frame \in Nat
      BY <2>2, <2>4, LenProperties, Bounds DEF Columned
    <3>4. \A e \in Columns : ~arrows'[e] => Len(list'[e]) <= Frame
      BY <2>5, <3>1, <3>2, <3>3
    <3> QED BY <2>4, <2>5, <3>4, PositionType DEF SignsMatchList
  <2> QED BY <1>0, <1>3, <1>t, <2>4, <2>5, <2>6, Zenon DEF RemoveDiv, TypeInv, sums, net
<1>4. CASE FollowRemoval
  <2>1. Head(timers).col \in Columns
    BY <1>4, <1>t DEF FollowRemoval, Fires, Timers
  <2>2. timers' \in Seq(Timers) /\ gates' \in SUBSET Debounced /\ shift' \in Columned(Nat)
    BY <1>4, <1>t, <2>1, SlideTypes DEF FollowRemoval
  <2>3. SignsMatchList'
    BY <1>4 DEF FollowRemoval, TypeInv, SignsMatchList, shown
  <2> QED BY <1>0, <1>4, <2>2, <2>3 DEF FollowRemoval, TypeInv, shown, sums, net
<1>5. CASE TimePasses
  <2>1. gates' \in SUBSET Debounced
    BY <1>5 DEF TimePasses, TypeInv
  <2>2. SignsMatchList'
    BY <1>5 DEF TimePasses, TypeInv, SignsMatchList, shown
  <2> QED BY <1>0, <1>5, <1>t, <2>1, <2>2 DEF TimePasses, TypeInv, shown, sums, net
<1> QED BY <1>1, <1>2, <1>3, <1>4, <1>5 DEF Callback

\* The types are an invariant, action by action.
LEMMA TypeInvHolds == Spec => []TypeInv
<1>1. Init => TypeInv
  BY InitTypes
<1>2. TypeInv /\ [Next]_vars => TypeInv'
  <2> SUFFICES ASSUME TypeInv, [Next]_vars PROVE TypeInv'
    OBVIOUS
  <2>1. CASE UserActs
    <3>1. late' \in BOOLEAN
      BY <2>1 DEF UserActs, TypeInv
    <3>2. CASE \E c \in Columns : ScrollUp(c) \/ ScrollDown(c)
      BY <3>1, <3>2, ScrollTypes
    <3>3. CASE ClickSave
      <4>1. User /\ UNCHANGED <<shift, sums, page>> /\ (AddNewItem \/ SaveOldItem)
        BY <3>3 DEF ClickSave
      <4> QED BY <3>1, <4>1, AddTypes, SaveOldTypes
    <3>4. CASE ClickDelete
      BY <3>1, <3>4, DeleteTypes
    <3>5. CASE \/ OpensDialog \/ \E v \in Values \cup {Blank} : TypeFields(v)
               \/ ClickAway \/ LaunchStatistic \/ FadeStatistic
      BY <3>1, <3>5, OtherClickTypes DEF OpensDialog
    <3> QED BY <2>1, <3>2, <3>3, <3>4, <3>5 DEF UserActs
  <2>2. CASE Callback
    BY <2>2, CallbackTypes
  <2>3. CASE UNCHANGED vars
    <3>1. SignsMatchList'
      BY <2>3 DEF TypeInv, SignsMatchList, vars, shown
    <3> QED BY <2>3, <3>1 DEF TypeInv, vars, shown, sums, net
  <2> QED BY <2>1, <2>2, <2>3 DEF Next
<1> QED BY <1>1, <1>2, PTL DEF Spec

\* Every reachable state is well typed, whatever columns, frame and clicks there
\* are: timers, ids, the places of the sliders, which never go below zero.
THEOREM EditorTypeCorrect == Spec => []TypeOK
BY TypeInvHolds, TypeInvIsTypeOK, PTL

\* The signs agree with the list: without arrows everything is in the frame, and
\* the big sign stands exactly in an empty column.
THEOREM SignsAreRight == Spec => []SignsMatchList
<1>1. TypeInv => SignsMatchList
  BY DEF TypeInv
<1> QED BY <1>1, TypeInvHolds, PTL

------------------------------------------------------------------------------
(* Saves. *)

\* A save sends the items as they are, or is remembered as dropped.
LEMMA SaveKeeps ==
  ASSUME NEW before, NEW after, NEW closed, SaveAnd(items', before, after, closed)
  PROVE  UnsavedIsExplained'
BY DEF SaveAnd, UnsavedIsExplained

\* No path of the editor changes an item without sending it: when the items are not
\* those of the latest PUT sent, the debounce of jsonDataSave dropped the latest save.
THEOREM UnsavedHasAReason == Spec => []UnsavedIsExplained
<1>1. Init => UnsavedIsExplained
  BY DEF Init, UnsavedIsExplained
<1>2. UnsavedIsExplained /\ [Next]_vars => UnsavedIsExplained'
  <2> SUFFICES ASSUME UnsavedIsExplained, [Next]_vars PROVE UnsavedIsExplained'
    OBVIOUS
  <2>u. UNCHANGED <<items, net>> => UnsavedIsExplained'
    BY DEF UnsavedIsExplained, net
  <2>1. CASE UserActs
    <3>1. CASE \E c \in Columns : ScrollUp(c) \/ ScrollDown(c)
      BY <2>u, <3>1 DEF ScrollUp, ScrollDown
    <3>2. CASE OpensDialog \/ \E v \in Values \cup {Blank} : TypeFields(v)
      BY <2>u, <3>2 DEF OpensDialog, OpenAdd, ItemClick, TypeFields
    <3>3. CASE ClickSave
      <4>1. CASE AddNewItem
        BY <4>1, SaveKeeps DEF AddNewItem, Save
      <4>2. CASE SaveOldItem
        BY <2>u, <4>2, SaveKeeps DEF SaveOldItem, Save
      <4> QED BY <3>3, <4>1, <4>2 DEF ClickSave
    <3>4. CASE ClickDelete
      BY <3>4, SaveKeeps DEF ClickDelete, Save
    <3>5. CASE ClickAway \/ FadeStatistic
      BY <2>u, <3>5 DEF ClickAway, FadeStatistic, net
    <3>6. CASE LaunchStatistic
      <4>1. items' = items
        BY <3>6 DEF LaunchStatistic
      <4>2. UNCHANGED net \/ SaveAnd(items', <<>>, <<Timer("launchStatistic")>>, {"launchStatistic"})
        BY <3>6, <4>1 DEF LaunchStatistic
      <4> QED BY <2>u, <4>1, <4>2, SaveKeeps
    <3> QED BY <2>1, <3>1, <3>2, <3>3, <3>4, <3>5, <3>6 DEF UserActs
  <2>2. CASE Callback
    BY <2>2, <2>u DEF Callback, ResetFields, RunConvert, RemoveDiv, FollowRemoval, TimePasses
  <2>3. CASE UNCHANGED vars
    BY <2>3, <2>u DEF vars
  <2> QED BY <2>1, <2>2, <2>3 DEF Next
<1> QED BY <1>1, <1>2, PTL DEF Spec

------------------------------------------------------------------------------
(* The order of the timers. *)

Has(q, t) == \E k \in DOMAIN q : q[k] = t

\* t will run, and the overlay of the dialog covers the page until it has.
Sure(q, t) == \E k, j \in DOMAIN q : k < j /\ q[k] = t /\ q[j].job = "fade"

Adds(q, ts, p) == \E f, g : Merges(q, ts, Len(ts), p, f, g)

\* A handler that sets no timer leaves the queue.
LEMMA AddsNothing ==
  ASSUME NEW q \in Seq(Timers)
  PROVE  Adds(q, <<>>, q)
<1> DEFINE f == [i \in 1..Len(q) |-> i]
           g == [j \in 1..0 |-> 0]
<1>1. 1..0 = {} /\ Len(q) \in Nat /\ Len(<<>>) = 0
  BY LenProperties
<1>2. Merges(q, <<>>, 0, q, f, g)
  BY <1>1 DEF Merges
<1> HIDE DEF f, g
<1> QED BY <1>1, <1>2 DEF Adds

\* A merged queue holds the timers of both, and what was sure to run under the overlay
\* still is; so is a new timer that is due no later than a new end of the fade.
LEMMA AddsFacts ==
  ASSUME NEW q \in Seq(Timers), NEW ts \in Seq(Timers), NEW p, Adds(q, ts, p)
  PROVE  /\ p \in Seq(Timers)
         /\ \A t : Has(p, t) <=> Has(q, t) \/ Has(ts, t)
         /\ \A t : Sure(q, t) => Sure(p, t)
         /\ \A a, b \in DOMAIN ts : a < b /\ Due(ts[a]) <= Due(ts[b]) /\ ts[b].job = "fade"
                                      => Sure(p, ts[a])
<1>1. PICK f, g : Merges(q, ts, Len(ts), p, f, g)
  BY DEF Adds
<1>2. p \in Seq(Timers)
  BY <1>1 DEF Merges
<1>3. /\ DOMAIN q = 1..Len(q) /\ DOMAIN ts = 1..Len(ts) /\ DOMAIN p = 1..Len(p)
  BY <1>2, LenProperties
<1>4. /\ \A i \in DOMAIN q : f[i] \in DOMAIN p /\ p[f[i]] = q[i]
      /\ \A j \in DOMAIN ts : g[j] \in DOMAIN p /\ p[g[j]] = ts[j]
      /\ \A k \in DOMAIN p : (\E i \in DOMAIN q : f[i] = k) \/ (\E j \in DOMAIN ts : g[j] = k)
      /\ \A i, h \in DOMAIN q : i < h => f[i] < f[h]
      /\ \A j, h \in DOMAIN ts : j < h /\ Due(ts[j]) <= Due(ts[h]) => g[j] < g[h]
  BY <1>1, <1>3 DEF Merges
<1>5. \A t : Has(p, t) <=> Has(q, t) \/ Has(ts, t)
  BY <1>4 DEF Has
<1>6. \A t : Sure(q, t) => Sure(p, t)
  BY <1>4 DEF Sure
<1>7. \A a, b \in DOMAIN ts : a < b /\ Due(ts[a]) <= Due(ts[b]) /\ ts[b].job = "fade"
                                => Sure(p, ts[a])
  BY <1>4 DEF Sure
<1> QED BY <1>2, <1>5, <1>6, <1>7

\* What SetTimers may return is such a merged queue.
LEMMA SetTimersAdds ==
  ASSUME NEW q \in Seq(Timers), NEW ts \in Seq(Timers), NEW p \in SetTimers(q, ts)
  PROVE  Adds(q, ts, p)
BY SetTimersMerges DEF Adds

\* A pending job is a timer of the queue.
LEMMA PendingHas ==
  ASSUME NEW job
  PROVE  /\ Pending(job) <=> \E t : t.job = job /\ Has(timers, t)
         /\ Pending(job)' <=> \E t : t.job = job /\ Has(timers', t)
BY DEF Pending, Has

\* A timer that fires leaves the others as they are.
LEMMA TailKeeps ==
  ASSUME TypeInv, timers # <<>>
  PROVE  /\ Tail(timers) \in Seq(Timers)
         /\ \A t : Has(timers, t) <=> Has(Tail(timers), t) \/ t = Head(timers)
         /\ \A t : Sure(timers, t) /\ t # Head(timers) => Sure(Tail(timers), t)
<1>1. /\ Head(timers) = timers[1] /\ Tail(timers) \in Seq(Timers)
      /\ Len(timers) \in Nat \ {0} /\ DOMAIN timers = 1..Len(timers)
      /\ DOMAIN Tail(timers) = 1..Len(timers) - 1
      /\ \A k \in 1..Len(timers) - 1 : Tail(timers)[k] = timers[k + 1]
  BY TailFacts
<1>2. \A k \in DOMAIN timers : \/ k = 1
                               \/ k - 1 \in DOMAIN Tail(timers) /\ Tail(timers)[k - 1] = timers[k]
  BY <1>1
<1>3. \A k \in DOMAIN Tail(timers) : k + 1 \in DOMAIN timers
  BY <1>1
<1>4. \A t : Has(timers, t) <=> Has(Tail(timers), t) \/ t = Head(timers)
  <2>1. ASSUME NEW t, Has(timers, t) PROVE Has(Tail(timers), t) \/ t = Head(timers)
    BY <1>1, <1>2, <2>1 DEF Has
  <2>2. ASSUME NEW t, Has(Tail(timers), t) PROVE Has(timers, t)
    BY <1>1, <1>3, <2>2 DEF Has
  <2>3. Has(timers, Head(timers))
    <3>1. 1 \in DOMAIN timers
      BY <1>1
    <3> QED BY <1>1, <3>1 DEF Has
  <2> QED BY <2>1, <2>2, <2>3
<1>5. ASSUME NEW t, Sure(timers, t), t # Head(timers)
      PROVE  Sure(Tail(timers), t)
  <2>1. PICK k, j \in DOMAIN timers : k < j /\ timers[k] = t /\ timers[j].job = "fade"
    BY <1>5 DEF Sure
  <2>2. k # 1 /\ j # 1
    BY <1>1, <1>5, <2>1
  <2>3. k - 1 < j - 1
    BY <1>1, <2>1
  <2> QED BY <1>2, <2>1, <2>2, <2>3 DEF Sure
<1> QED BY <1>1, <1>4, <1>5

\* What a save adds to the queue: first what its caller sets before.
Queues(before, after, ts) ==
  /\ ts \in Seq(Timers)
  /\ Adds(timers, ts, timers')
  /\ \A j \in DOMAIN before : j \in DOMAIN ts /\ ts[j] = before[j]
  /\ \A t : Has(ts, t) => Has(before, t) \/ Has(after, t) \/ t = Timer("save")
  /\ \A j \in DOMAIN ts : j \in DOMAIN before \/ ts[j] = Timer("save") \/ Has(after, ts[j])

\* jsonDataSave adds its own timer, or none, to those of its caller.
LEMMA SaveAdds ==
  ASSUME TypeInv, NEW its, NEW before \in Seq(Timers), NEW after \in Seq(Timers), NEW closed,
         SaveAnd(its, before, after, closed)
  PROVE  \E ts : Queues(before, after, ts)
<1>0. timers \in Seq(Timers) /\ <<Timer("save")>> \in Seq(Timers)
  <2>1. Timer("save") \in Timers
    BY TimerTypes, JobNames
  <2> QED BY <2>1 DEF TypeInv
<1>1. DOMAIN before = 1..Len(before) /\ Len(before) \in Nat
      /\ DOMAIN after = 1..Len(after) /\ Len(after) \in Nat
  BY LenProperties
<1>2. CASE "save" \in gates
  <2> DEFINE ts == before \o after
  <2>1. /\ ts \in Seq(Timers) /\ Len(ts) = Len(before) + Len(after)
        /\ \A i \in 1..Len(before) + Len(after) :
              ts[i] = IF i <= Len(before) THEN before[i] ELSE after[i - Len(before)]
    BY ConcatProperties
  <2>2. Adds(timers, ts, timers')
    BY <1>0, <1>2, <2>1, SetTimersAdds DEF SaveAnd
  <2>3. DOMAIN ts = 1..Len(before) + Len(after)
    BY <2>1, LenProperties
  <2> HIDE DEF ts
  <2>4. \A j \in DOMAIN before : j \in DOMAIN ts /\ ts[j] = before[j]
    BY <1>1, <2>1, <2>3
  <2>5. \A j \in DOMAIN ts : \/ ts[j] = before[j] /\ j \in DOMAIN before
                             \/ ts[j] = after[j - Len(before)] /\ j - Len(before) \in DOMAIN after
    BY <1>1, <2>1, <2>3
  <2>6. \A t : Has(ts, t) => Has(before, t) \/ Has(after, t)
    BY <2>5 DEF Has
  <2>7. \A j \in DOMAIN ts : j \in DOMAIN before \/ Has(after, ts[j])
    BY <2>5 DEF Has
  <2> QED BY <2>1, <2>2, <2>4, <2>6, <2>7 DEF Queues
<1>3. CASE "save" \notin gates
  <2> DEFINE mid == before \o <<Timer("save")>>
             ts == mid \o after
  <2>1. /\ mid \in Seq(Timers) /\ Len(mid) = Len(before) + 1
        /\ \A i \in 1..Len(before) + 1 :
              mid[i] = IF i <= Len(before) THEN before[i] ELSE Timer("save")
    <3>1. Len(<<Timer("save")>>) = 1 /\ <<Timer("save")>>[1] = Timer("save")
      OBVIOUS
    <3>2. /\ mid \in Seq(Timers) /\ Len(mid) = Len(before) + 1
          /\ \A i \in 1..Len(before) + 1 :
                mid[i] = IF i <= Len(before) THEN before[i] ELSE <<Timer("save")>>[i - Len(before)]
      BY <1>0, <3>1, ConcatProperties
    <3>3. \A i \in 1..Len(before) + 1 : i <= Len(before) \/ i - Len(before) = 1
      BY <1>1
    <3> HIDE DEF mid
    <3> QED BY <3>1, <3>2, <3>3
  <2> HIDE DEF mid
  <2>2. /\ ts \in Seq(Timers) /\ Len(ts) = Len(mid) + Len(after)
        /\ \A i \in 1..Len(mid) + Len(after) :
              ts[i] = IF i <= Len(mid) THEN mid[i] ELSE after[i - Len(mid)]
    BY <2>1, ConcatProperties
  <2>3. Adds(timers, ts, timers')
    <3>1. timers' \in SetTimers(timers, ts)
      <4>1. (before \o <<Timer("save")>>) \o after = before \o <<Timer("save")>> \o after
        BY <1>0, ConcatAssociative
      <4> QED BY <1>3, <4>1 DEF SaveAnd, mid
    <3> QED BY <1>0, <2>2, <3>1, SetTimersAdds
  <2>4. DOMAIN ts = 1..Len(mid) + Len(after) /\ Len(mid) \in Nat
    BY <1>1, <2>1, <2>2, LenProperties
  <2> HIDE DEF ts
  <2>5. \A j \in DOMAIN before : j \in DOMAIN ts /\ ts[j] = before[j]
    BY <1>1, <2>1, <2>2, <2>4
  <2>6. \A j \in DOMAIN ts : \/ j \in 1..Len(mid) /\ ts[j] = mid[j]
                             \/ ts[j] = after[j - Len(mid)] /\ j - Len(mid) \in DOMAIN after
    BY <1>1, <2>2, <2>4
  <2>7. \A j \in 1..Len(mid) : \/ mid[j] = Timer("save")
                               \/ j \in DOMAIN before /\ mid[j] = before[j]
    BY <1>1, <2>1
  <2>8. \A t : Has(ts, t) => Has(before, t) \/ Has(after, t) \/ t = Timer("save")
    BY <2>6, <2>7 DEF Has
  <2>9. \A j \in DOMAIN ts : j \in DOMAIN before \/ ts[j] = Timer("save") \/ Has(after, ts[j])
    BY <2>6, <2>7 DEF Has
  <2> QED BY <2>2, <2>3, <2>5, <2>8, <2>9 DEF Queues
<1> QED BY <1>2, <1>3

\* Up and Down add the slide and the end of their debounce.
LEMMA SlideAdds ==
  ASSUME TypeInv, NEW c \in Columns, NEW q \in Seq(Timers),
         CallUp(c, q) \/ CallDown(c, q)
  PROVE  \E ts \in Seq(Timers) :
           /\ Adds(q, ts, timers')
           /\ \A t : Has(ts, t) => t \in {TimerOf("slide", c), Timer("Up"), Timer("Down")}
<1> DEFINE ts(m, job) == (IF m THEN <<TimerOf("slide", c)>> ELSE <<>>) \o <<Timer(job)>>
<1>1. ASSUME NEW m \in BOOLEAN, NEW job \in {"Up", "Down"}
      PROVE  /\ ts(m, job) \in Seq(Timers)
             /\ \A t : Has(ts(m, job), t) => t \in {TimerOf("slide", c), Timer("Up"), Timer("Down")}
  <2>1. TimerOf("slide", c) \in Timers /\ Timer(job) \in Timers
    BY TimerTypes, JobNames
  <2> DEFINE a == IF m THEN <<TimerOf("slide", c)>> ELSE <<>>
             b == <<Timer(job)>>
  <2>2. /\ a \in Seq(Timers) /\ b \in Seq(Timers) /\ Len(b) = 1 /\ b[1] = Timer(job)
        /\ \A i \in 1..Len(a) : a[i] = TimerOf("slide", c)
    BY <2>1
  <2>3. ts(m, job) = a \o b
    OBVIOUS
  <2> HIDE DEF a, b, ts
  <2>4. /\ a \o b \in Seq(Timers) /\ Len(a \o b) = Len(a) + Len(b)
        /\ \A i \in 1..Len(a) + Len(b) :
              (a \o b)[i] = IF i <= Len(a) THEN a[i] ELSE b[i - Len(a)]
    BY <2>2, ConcatProperties
  <2>5. Len(a) \in Nat /\ DOMAIN (a \o b) = 1..Len(a) + Len(b)
    BY <2>2, <2>4, LenProperties
  <2>6. \A i \in DOMAIN (a \o b) : \/ (a \o b)[i] = TimerOf("slide", c)
                                  \/ (a \o b)[i] = Timer(job)
    <3>1. \A i \in 1..Len(a) + 1 : i <= Len(a) \/ i - Len(a) = 1
      BY <2>5
    <3> QED BY <2>2, <2>4, <2>5, <3>1
  <2> QED BY <2>3, <2>4, <2>6 DEF Has
<1>2. timers' = q \/ \E m \in BOOLEAN, job \in {"Up", "Down"} : timers' \in SetTimers(q, ts(m, job))
  <2>1. CASE CallUp(c, q)
    <3> DEFINE m == ~Moving(c) /\ Top(c) > Frame - Len(list[c])
    <3>1. m \in BOOLEAN /\ (timers' = q \/ timers' \in SetTimers(q, ts(m, "Up")))
      BY <2>1 DEF CallUp
    <3> HIDE DEF m, ts
    <3> QED BY <3>1
  <2>2. CASE CallDown(c, q)
    <3> DEFINE m == ~Moving(c) /\ Top(c) < 0
    <3>1. m \in BOOLEAN /\ (timers' = q \/ timers' \in SetTimers(q, ts(m, "Down")))
      BY <2>2 DEF CallDown
    <3> HIDE DEF m, ts
    <3> QED BY <3>1
  <2> QED BY <2>1, <2>2
<1>3. CASE timers' = q
  <2>1. Adds(q, <<>>, timers') /\ <<>> \in Seq(Timers)
    BY <1>3, AddsNothing
  <2>2. \A t : ~Has(<<>>, t)
    BY DEF Has
  <2> QED BY <2>1, <2>2
<1>4. CASE \E m \in BOOLEAN, job \in {"Up", "Down"} : timers' \in SetTimers(q, ts(m, job))
  <2> HIDE DEF ts
  <2> QED BY <1>1, <1>4, SetTimersAdds
<1> QED BY <1>2, <1>3, <1>4

\* Jobs that say nothing of the dialog.
Aside == {"slide", "Up", "Down", "save", "fadeStatistic", "launchStatistic"}

\* A fade is set when the dialog was open, and only then.
LEMMA FadeFacts ==
  /\ Fading \in Seq(Timers)
  /\ dialog.open => Len(Fading) = 1 /\ Fading[1] = Timer("fade")
  /\ ~dialog.open => Len(Fading) = 0
BY TimerTypes, JobNames DEF Fading

\* Clicks outside the dialog and typing set no timer of the dialog.
LEMMA OtherClickQueue ==
  ASSUME TypeInv,
         \/ \E c \in Columns : ScrollUp(c) \/ ScrollDown(c)
         \/ OpensDialog \/ \E v \in Values \cup {Blank} : TypeFields(v)
         \/ LaunchStatistic \/ FadeStatistic
  PROVE  /\ \A t : t.job \notin Aside => (Has(timers', t) <=> Has(timers, t))
         /\ \A t : Sure(timers, t) => Sure(timers', t)
         /\ \A t : Has(timers, t) => Has(timers', t)
<1>0. timers \in Seq(Timers)
  BY DEF TypeInv
<1>1. SUFFICES ASSUME NEW ts \in Seq(Timers), Adds(timers, ts, timers'),
                      \A t : Has(ts, t) => t.job \in Aside
               PROVE  /\ \A t : t.job \notin Aside => (Has(timers', t) <=> Has(timers, t))
                      /\ \A t : Sure(timers, t) => Sure(timers', t)
                      /\ \A t : Has(timers, t) => Has(timers', t)
  <2> DEFINE Goal == /\ \A t : t.job \notin Aside => (Has(timers', t) <=> Has(timers, t))
                     /\ \A t : Sure(timers, t) => Sure(timers', t)
                     /\ \A t : Has(timers, t) => Has(timers', t)
  <2>0. ASSUME NEW ts \in Seq(Timers), Adds(timers, ts, timers'),
               \A t : Has(ts, t) => t.job \in Aside
        PROVE  Goal
    BY <1>1, <2>0
  <2>1. CASE \E c \in Columns : ScrollUp(c) \/ ScrollDown(c)
    <3>1. PICK c \in Columns : CallUp(c, timers) \/ CallDown(c, timers)
      BY <2>1 DEF ScrollUp, ScrollDown
    <3>2. PICK ts \in Seq(Timers) :
            /\ Adds(timers, ts, timers')
            /\ \A t : Has(ts, t) => t \in {TimerOf("slide", c), Timer("Up"), Timer("Down")}
      BY <1>0, <3>1, SlideAdds
    <3>3. \A t : Has(ts, t) => t.job \in Aside
      BY <3>2 DEF Timer, TimerOf, Aside
    <3> HIDE DEF Goal
    <3> QED BY <2>0, <3>2, <3>3
  <2>2. CASE UNCHANGED timers
    BY <2>2
  <2>3. CASE LaunchStatistic
    <3>1. UNCHANGED timers \/ SaveAnd(items, <<>>, <<Timer("launchStatistic")>>, {"launchStatistic"})
      BY <2>3 DEF LaunchStatistic
    <3>2. CASE SaveAnd(items, <<>>, <<Timer("launchStatistic")>>, {"launchStatistic"})
      <4>1. <<>> \in Seq(Timers) /\ <<Timer("launchStatistic")>> \in Seq(Timers)
        BY TimerTypes, JobNames
      <4>2. PICK ts : Queues(<<>>, <<Timer("launchStatistic")>>, ts)
        BY <3>2, <4>1, SaveAdds
      <4>3. \A t : Has(ts, t) => t.job \in Aside
        BY <4>2 DEF Queues, Has, Timer, Aside
      <4>4. ts \in Seq(Timers) /\ Adds(timers, ts, timers')
        BY <4>2 DEF Queues
      <4> HIDE DEF Goal
      <4> QED BY <2>0, <4>3, <4>4
    <3> HIDE DEF Goal
    <3> QED BY <2>2, <3>1, <3>2
  <2>4. CASE FadeStatistic
    <3>1. UNCHANGED timers \/ timers' \in SetTimers(timers, <<Timer("fadeStatistic")>>)
      BY <2>4 DEF FadeStatistic
    <3>2. <<Timer("fadeStatistic")>> \in Seq(Timers)
      BY TimerTypes, JobNames
    <3>3. \A t : Has(<<Timer("fadeStatistic")>>, t) => t.job \in Aside
      BY DEF Has, Timer, Aside
    <3>4. timers' \in SetTimers(timers, <<Timer("fadeStatistic")>>)
            => Adds(timers, <<Timer("fadeStatistic")>>, timers')
      BY <1>0, <3>2, SetTimersAdds
    <3> HIDE DEF Goal
    <3> QED BY <2>0, <2>2, <3>1, <3>2, <3>3, <3>4
  <2>5. CASE OpensDialog \/ \E v \in Values \cup {Blank} : TypeFields(v)
    BY <2>2, <2>5 DEF OpensDialog, OpenAdd, ItemClick, TypeFields
  <2> QED BY <2>1, <2>3, <2>4, <2>5
<1> QED BY <1>0, <1>1, AddsFacts

\* A callback takes the first timer and sets none of the dialog.
LEMMA CallbackQueue ==
  ASSUME TypeInv, Callback
  PROVE  /\ timers # <<>> /\ Head(timers) \in Timers
         /\ \A t : t.job \notin Aside /\ Has(timers', t) => Has(timers, t)
         /\ \A t : Has(timers, t) /\ t # Head(timers) => Has(timers', t)
         /\ \A t : Sure(timers, t) /\ t # Head(timers) => Sure(timers', t)
<1>0. timers # <<>>
  BY DEF Callback, ResetFields, RunConvert, RemoveDiv, FollowRemoval, TimePasses, Fires
<1>t. Tail(timers) \in Seq(Timers) /\ Head(timers) \in Timers
  BY <1>0, TailFacts
<1>1. PICK ts \in Seq(Timers) : /\ Adds(Tail(timers), ts, timers')
                                /\ \A t : Has(ts, t) => t.job \in Aside
  <2>1. CASE timers' = Tail(timers)
    <3>1. Adds(Tail(timers), <<>>, Tail(timers))
      BY <1>t, AddsNothing
    <3>2. <<>> \in Seq(Timers) /\ \A t : ~Has(<<>>, t)
      BY DEF Has
    <3> QED BY <2>1, <3>1, <3>2
  <2>2. CASE FollowRemoval
    <3>1. Head(timers).col \in Columns /\ CallUp(Head(timers).col, Tail(timers))
      BY <1>t, <2>2 DEF FollowRemoval, Fires, Timers
    <3> DEFINE c == Head(timers).col
    <3>2. \E ts \in Seq(Timers) :
            /\ Adds(Tail(timers), ts, timers')
            /\ \A t : Has(ts, t) => t \in {TimerOf("slide", c), Timer("Up"), Timer("Down")}
      <4> HIDE DEF c
      <4>1. c \in Columns /\ CallUp(c, Tail(timers))
        BY <3>1 DEF c
      <4> QED BY <1>t, <4>1, SlideAdds
    <3>3. \A t : t \in {TimerOf("slide", c), Timer("Up"), Timer("Down")} => t.job \in Aside
      BY DEF Timer, TimerOf, Aside
    <3> QED BY <3>2, <3>3
  <2> QED BY <2>1, <2>2 DEF Callback, ResetFields, RunConvert, RemoveDiv, TimePasses
<1>2. /\ \A t : Has(timers', t) <=> Has(Tail(timers), t) \/ Has(ts, t)
      /\ \A t : Sure(Tail(timers), t) => Sure(timers', t)
  BY <1>t, <1>1, AddsFacts
<1>3. /\ \A t : Has(timers, t) <=> Has(Tail(timers), t) \/ t = Head(timers)
      /\ \A t : Sure(timers, t) /\ t # Head(timers) => Sure(Tail(timers), t)
  BY <1>0, TailKeeps
<1> QED BY <1>0, <1>t, <1>1, <1>2, <1>3

\* What a closing dialog sets: the timers of its handler, then the end of the fade.
LEMMA ClosingFacts ==
  ASSUME NEW a \in Seq(Timers)
  PROVE  /\ a \o Fading \in Seq(Timers)
         /\ \A t : Has(a \o Fading, t) => Has(a, t) \/ t = Timer("fade")
         /\ \A i \in DOMAIN a : i \in DOMAIN (a \o Fading) /\ (a \o Fading)[i] = a[i]
         /\ dialog.open => /\ Len(a) + 1 \in DOMAIN (a \o Fading)
                           /\ (a \o Fading)[Len(a) + 1] = Timer("fade")
<1>1. /\ Fading \in Seq(Timers) /\ Len(Fading) \in {0, 1}
      /\ dialog.open => Len(Fading) = 1
      /\ Len(Fading) = 1 => Fading[1] = Timer("fade")
  BY FadeFacts DEF Fading
<1>2. /\ a \o Fading \in Seq(Timers) /\ Len(a \o Fading) = Len(a) + Len(Fading)
      /\ \A i \in 1..Len(a) + Len(Fading) :
            (a \o Fading)[i] = IF i <= Len(a) THEN a[i] ELSE Fading[i - Len(a)]
  <2>1. a \in Seq(Timers) /\ Fading \in Seq(Timers)
    BY <1>1
  <2> QED BY <2>1, ConcatProperties
<1>3. Len(a) \in Nat /\ DOMAIN a = 1..Len(a) /\ DOMAIN (a \o Fading) = 1..Len(a) + Len(Fading)
  BY <1>2, LenProperties
<1>4. ASSUME NEW i \in DOMAIN (a \o Fading)
      PROVE  \/ i \in DOMAIN a /\ (a \o Fading)[i] = a[i]
             \/ (a \o Fading)[i] = Timer("fade")
  <2>1. CASE i <= Len(a)
    BY <1>2, <1>3, <2>1
  <2>2. CASE ~(i <= Len(a))
    <3>1. Len(Fading) = 1 /\ i - Len(a) = 1
      <4>1. \A m, j \in Nat, n \in {0, 1} : j <= m + n /\ ~(j <= m) => n = 1 /\ j - m = 1
        OBVIOUS
      <4>2. i \in Nat /\ i <= Len(a) + Len(Fading) /\ Len(a) \in Nat
        BY <1>1, <1>3
      <4> QED BY <1>1, <2>2, <4>1, <4>2
    <3> QED BY <1>1, <1>2, <1>3, <2>2, <3>1
  <2> QED BY <2>1, <2>2
<1>5. \A t : Has(a \o Fading, t) => Has(a, t) \/ t = Timer("fade")
  BY <1>4 DEF Has
<1>6. \A i \in DOMAIN a : i \in DOMAIN (a \o Fading) /\ (a \o Fading)[i] = a[i]
  BY <1>1, <1>2, <1>3
<1>7. dialog.open => /\ Len(a) + 1 \in DOMAIN (a \o Fading)
                     /\ (a \o Fading)[Len(a) + 1] = Timer("fade")
  <2> SUFFICES ASSUME dialog.open
               PROVE  /\ Len(a) + 1 \in DOMAIN (a \o Fading)
                      /\ (a \o Fading)[Len(a) + 1] = Timer("fade")
    OBVIOUS
  <2> DEFINE i == Len(a) + 1
  <2>0. Len(Fading) = 1
    BY <1>1
  <2>1. i \in 1..Len(a) + Len(Fading) /\ ~(i <= Len(a)) /\ i - Len(a) = 1
    <3>1. \A n \in Nat : n + 1 \in 1..n + 1 /\ ~(n + 1 <= n) /\ (n + 1) - n = 1
      OBVIOUS
    <3> QED BY <1>3, <2>0, <3>1
  <2>2. (a \o Fading)[i] = Fading[i - Len(a)]
    BY <1>2, <2>1
  <2> QED BY <1>1, <1>3, <2>0, <2>1, <2>2
<1> QED BY <1>2, <1>5, <1>6, <1>7

\* A closing dialog may or may not save besides.
Closes(a) == \/ timers' \in SetTimers(timers, a \o Fading)
             \/ \E its : SaveAnd(its, a \o Fading, <<>>, {})

\* The queue behind a closing dialog, its save included.
LEMMA ClosingAdds ==
  ASSUME TypeInv, NEW a \in Seq(Timers), Closes(a)
  PROVE  \E ts \in Seq(Timers) :
           /\ Adds(timers, ts, timers')
           /\ \A i \in DOMAIN (a \o Fading) : i \in DOMAIN ts /\ ts[i] = (a \o Fading)[i]
           /\ \A i \in DOMAIN ts : i \in DOMAIN (a \o Fading) \/ ts[i] = Timer("save")
<1> DEFINE b == a \o Fading
<1>0. timers \in Seq(Timers) /\ <<>> \in Seq(Timers)
  BY DEF TypeInv
<1>b. b \in Seq(Timers)
  BY ClosingFacts
<1>2. CASE timers' \in SetTimers(timers, b)
  <2> HIDE DEF b
  <2>1. Adds(timers, b, timers')
    BY <1>0, <1>b, <1>2, SetTimersAdds
  <2>2. \A i \in DOMAIN b : i \in DOMAIN b /\ b[i] = b[i]
    OBVIOUS
  <2>3. \E ts \in Seq(Timers) :
          /\ Adds(timers, ts, timers')
          /\ \A i \in DOMAIN b : i \in DOMAIN ts /\ ts[i] = b[i]
          /\ \A i \in DOMAIN ts : i \in DOMAIN b \/ ts[i] = Timer("save")
    <3> WITNESS b \in Seq(Timers)
    <3> QED BY <2>1, <2>2
  <2> QED BY <2>3 DEF b
<1>3. CASE \E its : SaveAnd(its, b, <<>>, {})
  <2> HIDE DEF b
  <2>1. PICK its : SaveAnd(its, b, <<>>, {})
    BY <1>3
  <2>2. PICK ts : Queues(b, <<>>, ts)
    BY <1>0, <1>b, <2>1, SaveAdds
  <2>3. \A t : ~Has(<<>>, t)
    BY DEF Has
  <2> QED BY <2>2, <2>3 DEF b, Queues
<1> QED BY <1>2, <1>3 DEF Closes

\* What its handler has set will run, while the overlay still covers the page if the
\* dialog was open until now.
LEMMA ClosingQueue ==
  ASSUME TypeInv, NEW a \in Seq(Timers), \A i \in DOMAIN a : Due(a[i]) <= 316, Closes(a)
  PROVE  /\ \A t : Has(timers', t) => \/ Has(timers, t) \/ Has(a, t)
                                      \/ t \in {Timer("save"), Timer("fade")}
         /\ \A t : Has(timers, t) \/ Has(a, t) => Has(timers', t)
         /\ \A t : Sure(timers, t) => Sure(timers', t)
         /\ dialog.open => \A t : Has(a, t) => Sure(timers', t)
<1> DEFINE b == a \o Fading
<1>0. timers \in Seq(Timers)
  BY DEF TypeInv
<1>b. /\ b \in Seq(Timers)
      /\ \A t : Has(b, t) => Has(a, t) \/ t = Timer("fade")
      /\ \A i \in DOMAIN a : i \in DOMAIN b /\ b[i] = a[i]
      /\ dialog.open => Len(a) + 1 \in DOMAIN b /\ b[Len(a) + 1] = Timer("fade")
  BY ClosingFacts
<1>1. PICK ts \in Seq(Timers) :
        /\ Adds(timers, ts, timers')
        /\ \A i \in DOMAIN b : i \in DOMAIN ts /\ ts[i] = b[i]
        /\ \A i \in DOMAIN ts : i \in DOMAIN b \/ ts[i] = Timer("save")
  BY ClosingAdds
<1> HIDE DEF b
<1>2. /\ \A t : Has(timers', t) <=> Has(timers, t) \/ Has(ts, t)
      /\ \A t : Sure(timers, t) => Sure(timers', t)
      /\ \A i, j \in DOMAIN ts : i < j /\ Due(ts[i]) <= Due(ts[j]) /\ ts[j].job = "fade"
                                  => Sure(timers', ts[i])
  BY <1>0, <1>1, AddsFacts
<1>3. \A t : Has(a, t) => Has(ts, t)
  <2>1. \A i \in DOMAIN a : i \in DOMAIN ts /\ ts[i] = a[i]
    BY <1>b, <1>1
  <2> QED BY <2>1 DEF Has
<1>4. ASSUME dialog.open, NEW t, Has(a, t)
      PROVE  Sure(timers', t)
  <2>1. PICK i \in DOMAIN a : a[i] = t
    BY <1>4 DEF Has
  <2> DEFINE j == Len(a) + 1
  <2>2. i \in DOMAIN ts /\ ts[i] = t /\ j \in DOMAIN ts /\ ts[j] = Timer("fade")
    BY <1>b, <1>1, <1>4, <2>1
  <2>3. i < j
    BY <2>1, LenProperties
  <2>4. Due(ts[j]) = 316 /\ ts[j].job = "fade"
    BY <2>2 DEF Due, Timer, Delay
  <2>5. Due(ts[i]) <= Due(ts[j])
    BY <2>1, <2>2, <2>4
  <2> HIDE DEF j
  <2> QED BY <1>2, <2>2, <2>3, <2>4, <2>5
<1>5. \A t : Has(timers', t) => \/ Has(timers, t) \/ Has(a, t)
                                \/ t \in {Timer("save"), Timer("fade")}
  <2>1. \A t : Has(ts, t) => Has(b, t) \/ t = Timer("save")
    BY <1>1 DEF Has
  <2> QED BY <1>b, <1>2, <2>1
<1> QED BY <1>2, <1>3, <1>4, <1>5

\* The timers of a save button with valid fields.
Saving == <<Timer("reset"), Timer("convert")>>

\* The timers of deleteItem, all due before the fade has ended.
LEMMA ErasingFacts ==
  ASSUME TypeInv, NEW c \in Columns
  PROVE  /\ Erasing(c) \in Seq(Timers)
         /\ \A i \in DOMAIN Erasing(c) : Due(Erasing(c)[i]) <= 316
         /\ \A t : Has(Erasing(c), t) => t \in {Timer("reset"), Timer("convert"), TimerOf("up", c),
                                                TimerForItem("remove", c, dialog.id)}
         /\ \A t \in {Timer("reset"), Timer("convert"), TimerForItem("remove", c, dialog.id)} :
               Has(Erasing(c), t)
<1> DEFINE r == TimerForItem("remove", c, dialog.id)
           a == <<Timer("reset"), Timer("convert"), r>>
           b == IF NearHead(c) /\ Len(list[c]) > Frame THEN <<TimerOf("up", c)>> ELSE <<>>
<1>1. dialog.id \in Ids \cup {None}
  BY DEF TypeInv, Dialogs
<1>2. /\ Timer("reset") \in Timers /\ Timer("convert") \in Timers /\ r \in Timers
      /\ TimerOf("up", c) \in Timers
  BY <1>1, JobNames, TimerTypes
<1>3. /\ a \in Seq(Timers) /\ Len(a) = 3
      /\ a[1] = Timer("reset") /\ a[2] = Timer("convert") /\ a[3] = r
  <2> HIDE DEF r
  <2> QED BY <1>2
<1>4. b \in Seq(Timers) /\ Len(b) \in {0, 1} /\ (Len(b) = 1 => b[1] = TimerOf("up", c))
  BY <1>2
<1>5. Erasing(c) = a \o b
  BY DEF Erasing
<1>d. /\ Due(Timer("reset")) = 200 /\ Due(Timer("convert")) = 230
      /\ Due(r) = 300 /\ Due(TimerOf("up", c)) = 300
  BY DEF Due, Timer, TimerOf, TimerForItem, Delay, ConvertDelay
<1> HIDE DEF a, b, r
<1>6. /\ a \o b \in Seq(Timers) /\ Len(a \o b) = 3 + Len(b)
      /\ \A i \in 1..3 + Len(b) : (a \o b)[i] = IF i <= 3 THEN a[i] ELSE b[i - 3]
  <2>1. /\ a \o b \in Seq(Timers) /\ Len(a \o b) = Len(a) + Len(b)
        /\ \A i \in 1..Len(a) + Len(b) : (a \o b)[i] = IF i <= Len(a) THEN a[i] ELSE b[i - Len(a)]
    <3>1. a \in Seq(Timers) /\ b \in Seq(Timers)
      BY <1>3, <1>4
    <3> QED BY <3>1, ConcatProperties
  <2> QED BY <1>3, <2>1
<1>7. DOMAIN (a \o b) = 1..3 + Len(b)
  BY <1>6, LenProperties
<1>8. ASSUME NEW i \in 1..3 + Len(b)
      PROVE  i = 1 \/ i = 2 \/ i = 3 \/ (i = 4 /\ Len(b) = 1)
  <2>1. CASE Len(b) = 0
    BY <2>1
  <2>2. CASE Len(b) = 1
    BY <2>2
  <2> QED BY <1>4, <2>1, <2>2
<1>9. \A i \in DOMAIN (a \o b) : (a \o b)[i] \in {Timer("reset"), Timer("convert"), TimerOf("up", c), r}
  BY <1>3, <1>4, <1>6, <1>7, <1>8
<1>10. \A i \in 1..3 : i \in DOMAIN (a \o b) /\ (a \o b)[i] = a[i]
  BY <1>4, <1>6, <1>7
<1>11. \A i \in DOMAIN (a \o b) : Due((a \o b)[i]) <= 316
  BY <1>9, <1>d
<1>12. \A t \in {Timer("reset"), Timer("convert"), r} : Has(a \o b, t)
  BY <1>3, <1>10 DEF Has
<1>13. \A t : Has(a \o b, t) => t \in {Timer("reset"), Timer("convert"), TimerOf("up", c), r}
  BY <1>9 DEF Has
<1> QED BY <1>5, <1>6, <1>11, <1>12, <1>13 DEF r

\* The timers of a save button and of the cross, all due before the fade has ended.
LEMMA SavingFacts ==
  /\ Saving \in Seq(Timers) /\ <<Timer("reset")>> \in Seq(Timers)
  /\ \A i \in DOMAIN Saving : Due(Saving[i]) <= 316
  /\ \A i \in DOMAIN <<Timer("reset")>> : Due(<<Timer("reset")>>[i]) <= 316
  /\ \A t : Has(Saving, t) <=> t \in {Timer("reset"), Timer("convert")}
  /\ \A t : Has(<<Timer("reset")>>, t) <=> t = Timer("reset")
<1>1. Timer("reset") \in Timers /\ Timer("convert") \in Timers
  BY JobNames, TimerTypes
<1>2. Due(Timer("reset")) = 200 /\ Due(Timer("convert")) = 230
  BY DEF Due, Timer, Delay, ConvertDelay
<1>3. /\ DOMAIN Saving = {1, 2} /\ Saving[1] = Timer("reset") /\ Saving[2] = Timer("convert")
      /\ Saving \in Seq(Timers)
  BY <1>1 DEF Saving
<1>4. DOMAIN <<Timer("reset")>> = {1} /\ <<Timer("reset")>>[1] = Timer("reset")
  OBVIOUS
<1> QED BY <1>1, <1>2, <1>3, <1>4 DEF Has

\* The queue gets longer, and no list begins to slide.
Grows == \E ts \in Seq(Timers) : Adds(timers, ts, timers') /\ \A t : Has(ts, t) => t.job # "slide"

\* A queue that stays as it is.
LEMMA GrowsNot ==
  ASSUME TypeInv, UNCHANGED timers
  PROVE  Grows
<1>1. Adds(timers, <<>>, timers)
  BY AddsNothing DEF TypeInv
<1>2. <<>> \in Seq(Timers) /\ \A t : ~Has(<<>>, t)
  BY DEF Has
<1> QED BY <1>1, <1>2 DEF Grows

\* A closing dialog lets no list slide.
LEMMA ClosingGrows ==
  ASSUME TypeInv, NEW a \in Seq(Timers), \A t : Has(a, t) => t.job # "slide", Closes(a)
  PROVE  Grows
<1>1. PICK ts \in Seq(Timers) :
        /\ Adds(timers, ts, timers')
        /\ \A i \in DOMAIN (a \o Fading) : i \in DOMAIN ts /\ ts[i] = (a \o Fading)[i]
        /\ \A i \in DOMAIN ts : i \in DOMAIN (a \o Fading) \/ ts[i] = Timer("save")
  BY ClosingAdds
<1>2. \A t : Has(ts, t) => Has(a \o Fading, t) \/ t = Timer("save")
  BY <1>1 DEF Has
<1>3. \A t : Has(a \o Fading, t) => Has(a, t) \/ t = Timer("fade")
  BY ClosingFacts
<1>4. Timer("save").job # "slide" /\ Timer("fade").job # "slide"
  BY DEF Timer
<1>5. \A t : Has(ts, t) => t.job # "slide"
  BY <1>2, <1>3, <1>4
<1> QED BY <1>1, <1>5 DEF Grows

\* The two outcomes of the save button: the dialog closes, or it stays as it is
\* because its fields were refused or the write threw.
Refuses ==
  /\ UNCHANGED <<items, list, dialog>>
  /\ \A t : Has(timers', t) => Has(timers, t) \/ t \in {Timer("convert"), Timer("save")}
  /\ \A t : Has(timers, t) => Has(timers', t)
  /\ \A t : Sure(timers, t) => Sure(timers', t)
  /\ Grows

Accepts ==
  /\ dialog.val # Blank
  /\ dialog.mode = "edit" => dialog.id \in DOMAIN items[dialog.col]
  /\ dialog' = TurnOff
  /\ Closes(Saving)

\* The save button does one or the other.
LEMMA SaveCases ==
  ASSUME TypeInv, ClickSave
  PROVE  Refuses \/ Accepts
<1>0. dialog.mode \in {"add", "edit"} /\ timers \in Seq(Timers) /\ <<>> \in Seq(Timers)
  BY DEF TypeInv, Dialogs
<1>1. CASE UNCHANGED <<items, shown, dialog, timers>>
  BY <1>1, GrowsNot DEF Refuses, shown
<1>2. CASE /\ UNCHANGED <<items, list, dialog>>
           /\ SaveAnd(items', <<Timer("convert")>>, <<>>, {})
  <2>1. <<Timer("convert")>> \in Seq(Timers)
    BY JobNames, TimerTypes
  <2>q. PICK ts : Queues(<<Timer("convert")>>, <<>>, ts)
    BY <1>0, <1>2, <2>1, SaveAdds
  <2>2. ts \in Seq(Timers) /\ Adds(timers, ts, timers')
    BY <2>q DEF Queues
  <2>3. \A t : Has(ts, t) => t \in {Timer("convert"), Timer("save")}
    BY <2>q DEF Queues, Has
  <2>4. /\ \A t : Has(timers', t) <=> Has(timers, t) \/ Has(ts, t)
        /\ \A t : Sure(timers, t) => Sure(timers', t)
    BY <1>0, <2>2, AddsFacts
  <2>5. \A t : Has(ts, t) => t.job # "slide"
    BY <2>3 DEF Timer
  <2> QED BY <1>2, <2>2, <2>3, <2>4, <2>5 DEF Refuses, Grows
<1>3. CASE dialog.mode = "add" /\ AddNewItem
  <2>1. CASE dialog.val # Blank
    <3>1. dialog' = TurnOff /\ SaveAnd(items', Saving \o Fading, <<>>, {})
      BY <1>3, <2>1 DEF AddNewItem, Save, Saving
    <3> QED BY <1>3, <2>1, <3>1 DEF Accepts, Closes
  <2>2. CASE dialog.val = Blank
    <3>1. UNCHANGED <<items, list, dialog>> /\ SaveAnd(items', <<Timer("convert")>>, <<>>, {})
      BY <1>3, <2>2 DEF AddNewItem, Save
    <3> QED BY <1>2, <3>1
  <2> QED BY <2>1, <2>2
<1>4. CASE dialog.mode = "edit" /\ SaveOldItem
  <2>1. CASE dialog.val # Blank /\ dialog.id \notin DOMAIN items[dialog.col]
    BY <1>1, <1>4, <2>1 DEF SaveOldItem
  <2>2. CASE dialog.val # Blank /\ dialog.id \in DOMAIN items[dialog.col]
    <3>1. dialog' = TurnOff /\ SaveAnd(items', Saving \o Fading, <<>>, {})
      BY <1>4, <2>2 DEF SaveOldItem, Save, Saving
    <3> QED BY <1>4, <2>2, <3>1 DEF Accepts, Closes
  <2>3. CASE dialog.val = Blank
    <3>1. UNCHANGED <<items, list, dialog>> /\ SaveAnd(items', <<Timer("convert")>>, <<>>, {})
      BY <1>4, <2>3 DEF SaveOldItem, Save
    <3> QED BY <1>2, <3>1
  <2> QED BY <2>1, <2>2, <2>3
<1> QED BY <1>0, <1>3, <1>4 DEF ClickSave

\* A dialog that closes puts the end of its fade behind the reset of its fields.
LEMMA ClosingOrder ==
  ASSUME TypeInv, (ClickSave /\ Accepts) \/ ClickDelete \/ ClickAway
  PROVE  /\ dialog' = TurnOff /\ page' = page /\ Covered
         /\ \A t : Sure(timers, t) => Sure(timers', t)
         /\ dialog.open => Sure(timers', Timer("reset"))
         /\ ~ClickAway /\ dialog.open => Sure(timers', Timer("convert"))
         /\ \A t : Has(timers', t) /\ ~Has(timers, t) =>
               \/ t.job \in {"reset", "convert", "save", "fade"}
               \/ /\ ClickDelete
                  /\ t \in {TimerOf("up", dialog.col), TimerForItem("remove", dialog.col, dialog.id)}
         /\ \A t : Has(timers, t) => Has(timers', t)
         /\ Grows
<1> DEFINE c == dialog.col
<1>0. c \in Columns
  BY DEF TypeInv, Dialogs
<1>1. \A job \in {"reset", "convert", "save", "fade"} : Timer(job).job = job
  BY DEF Timer
<1>2. CASE ClickSave /\ Accepts
  <2>1. Closes(Saving) /\ dialog' = TurnOff /\ page' = page /\ Covered
    BY <1>2 DEF Accepts, ClickSave
  <2>2. Grows
    BY <2>1, SavingFacts, ClosingGrows DEF Timer
  <2> QED BY <1>1, <2>1, <2>2, SavingFacts, ClosingQueue
<1>3. CASE ClickDelete
  <2>1. Closes(Erasing(c)) /\ dialog' = TurnOff /\ page' = page /\ Covered
    BY <1>3 DEF ClickDelete, Save, Erasing, Closes
  <2> HIDE DEF c
  <2>2. /\ Erasing(c) \in Seq(Timers)
        /\ \A i \in DOMAIN Erasing(c) : Due(Erasing(c)[i]) <= 316
        /\ \A t : Has(Erasing(c), t) => t \in {Timer("reset"), Timer("convert"), TimerOf("up", c),
                                               TimerForItem("remove", c, dialog.id)}
        /\ Has(Erasing(c), Timer("reset")) /\ Has(Erasing(c), Timer("convert"))
    BY <1>0, ErasingFacts
  <2>3. /\ \A t : Has(timers', t) => \/ Has(timers, t) \/ Has(Erasing(c), t)
                                     \/ t \in {Timer("save"), Timer("fade")}
        /\ \A t : Has(timers, t) \/ Has(Erasing(c), t) => Has(timers', t)
        /\ \A t : Sure(timers, t) => Sure(timers', t)
        /\ dialog.open => \A t : Has(Erasing(c), t) => Sure(timers', t)
    BY <2>1, <2>2, ClosingQueue
  <2>4. Grows
    <3>1. \A t : Has(Erasing(c), t) => t.job # "slide"
      BY <2>2 DEF Timer, TimerOf, TimerForItem
    <3> QED BY <2>1, <2>2, <3>1, ClosingGrows
  <2> QED BY <1>1, <1>3, <2>1, <2>2, <2>3, <2>4 DEF c
<1>4. CASE ClickAway
  <2>1. Closes(<<Timer("reset")>>) /\ dialog' = TurnOff /\ page' = page /\ Covered
    BY <1>4 DEF ClickAway, Closes
  <2>2. Grows
    <3> DEFINE a == <<Timer("reset")>>
    <3>1. a \in Seq(Timers) /\ Closes(a) /\ \A t : Has(a, t) => t.job # "slide"
      BY <2>1, SavingFacts DEF Timer
    <3> HIDE DEF a
    <3> QED BY <3>1, ClosingGrows
  <2> QED BY <1>1, <1>4, <2>1, <2>2, SavingFacts, ClosingQueue
<1> QED BY <1>2, <1>3, <1>4

------------------------------------------------------------------------------
(* The dialog and the overlay. *)

\* While a dialog is open none is fading; fields that are still filled in after it
\* has closed are reset before the overlay lets clicks through; and there is no
\* dialog on page 4.
DialogInv ==
  /\ dialog.open => ~Pending("fade")
  /\ ~dialog.open /\ dialog.val # Blank => Sure(timers, Timer("reset"))
  /\ page = "statistic" => ~Covered

\* What is sure to run under the overlay is pending, and so is the end of the fade.
LEMMA SureIsFading ==
  ASSUME NEW t, Sure(timers, t)
  PROVE  Pending("fade") /\ Has(timers, t)
BY DEF Sure, Pending, Has

\* Clicks outside a closing dialog.
OtherClick == \/ \E c \in Columns : ScrollUp(c) \/ ScrollDown(c)
              \/ OpensDialog \/ \E v \in Values \cup {Blank} : TypeFields(v)
              \/ LaunchStatistic \/ FadeStatistic

\* The steps of the page, by what they do to the dialog and the queue.
LEMMA Steps ==
  ASSUME TypeInv, [Next]_vars
  PROVE  \/ OtherClick /\ UNCHANGED <<items, list, conv, first, second>> /\ late' = late
         \/ /\ ClickSave /\ Refuses /\ UNCHANGED <<conv, first, second, page>>
            /\ late' = late
         \/ /\ (ClickSave /\ Accepts) \/ ClickDelete \/ ClickAway
            /\ UNCHANGED <<conv, first, second, page>>
            /\ late' = (late \/ (~dialog.open /\ items' # items))
         \/ Callback /\ late' = late /\ UNCHANGED items
         \/ UNCHANGED <<items, list, shift, dialog, conv, first, second, page, timers, gates, late>>
<1>0. late \in BOOLEAN
  BY DEF TypeInv
<1>1. CASE UserActs
  <2>1. late' = (late \/ (~dialog.open /\ items' # items))
    BY <1>1 DEF UserActs
  <2>2. CASE OtherClick
    <3>1. UNCHANGED <<items, list, conv, first, second>>
      BY <2>2 DEF OtherClick, OpensDialog, ScrollUp, ScrollDown, OpenAdd, ItemClick, TypeFields,
                  LaunchStatistic, FadeStatistic, shown, sums
    <3> QED BY <1>0, <2>1, <2>2, <3>1
  <2>3. CASE ClickSave
    <3>1. UNCHANGED <<conv, first, second, page>>
      BY <2>3 DEF ClickSave, sums
    <3>2. CASE Refuses
      BY <1>0, <2>1, <2>3, <3>1, <3>2 DEF Refuses
    <3>3. CASE Accepts
      BY <2>1, <2>3, <3>1, <3>3
    <3> QED BY <2>3, <3>2, <3>3, SaveCases
  <2>4. CASE ClickDelete \/ ClickAway
    BY <2>1, <2>4 DEF ClickDelete, ClickAway, sums
  <2> QED BY <1>1, <2>2, <2>3, <2>4 DEF UserActs, OtherClick
<1>2. CASE Callback
  BY <1>2 DEF Callback, ResetFields, RunConvert, RemoveDiv, FollowRemoval, TimePasses
<1>3. CASE UNCHANGED vars
  BY <1>3 DEF vars, shown, sums
<1> QED BY <1>1, <1>2, <1>3 DEF Next

\* Every step keeps the order of dialog, overlay and reset.
LEMMA DialogStep ==
  ASSUME TypeInv, DialogInv, [Next]_vars
  PROVE  DialogInv'
<1>0. dialog \in Dialogs
  BY DEF TypeInv
<1>1. CASE OtherClick
  <2>1. /\ \A t : t.job \notin Aside => (Has(timers', t) <=> Has(timers, t))
        /\ \A t : Sure(timers, t) => Sure(timers', t)
    BY <1>1, OtherClickQueue DEF OtherClick
  <2>2. Pending("fade")' => Pending("fade")
    BY <2>1, PendingHas DEF Aside
  <2>3. CASE UNCHANGED dialog
    <3>1. page' = page \/ page' = "settings" \/ ~Covered
      BY <1>1 DEF OtherClick, OpensDialog, ScrollUp, ScrollDown, OpenAdd, ItemClick, TypeFields,
                  LaunchStatistic, FadeStatistic, OnSettings
    <3> QED BY <2>1, <2>2, <2>3, <3>1 DEF DialogInv, Covered
  <2>4. CASE OpensDialog
    <3>1. dialog'.open /\ page' = page /\ OnSettings
      <4>1. PICK c \in Columns : OpenAdd(c) \/ \E k \in DOMAIN list[c] : ItemClick(c, k)
        BY <2>4 DEF OpensDialog
      <4>2. CASE OpenAdd(c)
        BY <1>0, <4>2 DEF OpenAdd, Dialogs
      <4>3. CASE \E k \in DOMAIN list[c] : ItemClick(c, k)
        BY <4>3 DEF ItemClick
      <4> QED BY <4>1, <4>2, <4>3
    <3> QED BY <2>2, <3>1 DEF DialogInv, Covered, OnSettings
  <2>5. CASE \E v \in Values \cup {Blank} : TypeFields(v)
    <3>1. dialog'.open /\ dialog.open /\ page' = page
      BY <1>0, <2>5 DEF TypeFields, Dialogs
    <3> QED BY <2>2, <3>1 DEF DialogInv, Covered
  <2> QED BY <1>1, <2>3, <2>4, <2>5
          DEF OtherClick, ScrollUp, ScrollDown, LaunchStatistic, FadeStatistic
<1>2. CASE ClickSave /\ Refuses
  <2>1. page' = page /\ dialog' = dialog /\ Covered
    BY <1>2 DEF ClickSave, Refuses
  <2>2. Pending("fade")' => Pending("fade")
    <3>1. Timer("convert").job # "fade" /\ Timer("save").job # "fade"
      BY DEF Timer
    <3> QED BY <1>2, <3>1, PendingHas DEF Refuses
  <2> QED BY <1>2, <2>1, <2>2 DEF DialogInv, Covered, Refuses
<1>3. CASE (ClickSave /\ Accepts) \/ ClickDelete \/ ClickAway
  <2>1. /\ dialog' = TurnOff /\ page' = page /\ Covered
        /\ \A t : Sure(timers, t) => Sure(timers', t)
        /\ dialog.open => Sure(timers', Timer("reset"))
    BY <1>3, ClosingOrder
  <2>2. ~dialog'.open /\ dialog'.val = dialog.val
    BY <1>0, <2>1 DEF TurnOff, Dialogs
  <2> QED BY <2>1, <2>2 DEF DialogInv
<1>4. CASE Callback
  <2>1. /\ \A t : t.job \notin Aside /\ Has(timers', t) => Has(timers, t)
        /\ \A t : Sure(timers, t) /\ t # Head(timers) => Sure(timers', t)
    BY <1>4, CallbackQueue
  <2>2. Pending("fade")' => Pending("fade")
    BY <2>1, PendingHas DEF Aside
  <2>3. page' = page
    BY <1>4 DEF Callback, ResetFields, RunConvert, RemoveDiv, FollowRemoval, TimePasses
  <2>4. CASE ResetFields
    <3>1. dialog'.open = dialog.open /\ dialog'.val = Blank
      BY <1>0, <2>4 DEF ResetFields, Dialogs
    <3> QED BY <2>2, <2>3, <3>1 DEF DialogInv, Covered
  <2>5. CASE ~ResetFields
    <3>1. Head(timers) # Timer("reset") /\ dialog' = dialog
      BY <1>4, <2>5 DEF Callback, RunConvert, RemoveDiv, FollowRemoval, TimePasses, Fires, Timer,
                        Debounced
    <3> QED BY <2>1, <2>2, <2>3, <3>1 DEF DialogInv, Covered
  <2> QED BY <2>4, <2>5
<1>5. CASE UNCHANGED <<dialog, page, timers>>
  BY <1>5 DEF DialogInv, Covered, Pending
<1> QED BY <1>1, <1>2, <1>3, <1>4, <1>5, Steps

\* The order of dialog, overlay and reset is an invariant.
LEMMA DialogInvHolds == Spec => []DialogInv
<1>1. Init => DialogInv
  BY DEF Init, DialogInv, Covered, Pending
<1> QED BY <1>1, DialogStep, TypeInvHolds, PTL DEF Spec

------------------------------------------------------------------------------
(* Page 4. *)

\* The sums lag behind the items only while the overlay covers the page, and first
\* and second item are those of the last conversion.
ConvInv ==
  /\ ~late => conv = items \/ Sure(timers, Timer("convert"))
  /\ \A c \in Columns : DOMAIN conv[c] # {} => first[c] = SetMin(DOMAIN conv[c])
  /\ Cardinality(DOMAIN conv["expense"]) > 1 => second \in DOMAIN conv["expense"]

\* The ids of a column are finitely many numbers.
LEMMA ItemsFacts ==
  ASSUME TypeInv, NEW c \in Columns
  PROVE  /\ DOMAIN items[c] \in SUBSET Ids /\ DOMAIN items[c] \in SUBSET Nat
         /\ IsFiniteSet(DOMAIN items[c]) /\ Cardinality(DOMAIN items[c]) \in Nat
         /\ items[c] = <<>> <=> DOMAIN items[c] = {}
<1>1. DOMAIN items[c] \in SUBSET Ids /\ items[c] \in Objects
  BY DEF TypeInv, Columned, Objects
<1>2. \A o \in Objects : o = <<>> <=> DOMAIN o = {}
  BY DEF Objects
<1>3. IsFiniteSet(Ids)
  <2>1. \A a, b \in Int : IsFiniteSet(a..b)
    BY FS_Interval, Zenon
  <2>2. MaxId \in Int /\ 1 \in Int
    BY Bounds
  <2> QED BY <2>1, <2>2, Zenon DEF Ids
<1>4. IsFiniteSet(DOMAIN items[c])
  BY <1>1, <1>3, FS_Subset
<1> QED BY <1>1, <1>2, <1>4, FS_CardinalityType, Bounds

\* The page starts converted.
LEMMA ConvInit == Init => ConvInv
<1> SUFFICES ASSUME Init PROVE ConvInv
  OBVIOUS
<1>1. \A c \in Columns : /\ DOMAIN conv[c] = 1..Len(InitItems[c]) /\ Len(InitItems[c]) \in Nat
                         /\ InitItems[c] # <<>> <=> DOMAIN conv[c] # {}
  <2> SUFFICES ASSUME NEW c \in Columns
               PROVE  /\ DOMAIN InitItems[c] = 1..Len(InitItems[c]) /\ Len(InitItems[c]) \in Nat
                      /\ (InitItems[c] # <<>>) <=> (DOMAIN InitItems[c] # {})
    BY DEF Init
  <2>1. InitItems[c] \in Seq(Values)
    BY Bounds
  <2>2. DOMAIN InitItems[c] = 1..Len(InitItems[c]) /\ Len(InitItems[c]) \in Nat
    BY <2>1, LenProperties
  <2>3. (InitItems[c] # <<>>) <=> (Len(InitItems[c]) # 0)
    BY <2>1, EmptySeq
  <2>4. \A n \in Nat : (n # 0) <=> (1..n # {})
    <3>1. \A n \in Nat : n # 0 => 1 \in 1..n
      OBVIOUS
    <3>2. 1..0 = {}
      OBVIOUS
    <3> QED BY <3>1, <3>2
  <2> QED BY <2>2, <2>3, <2>4
<1>2. \A c \in Columns : DOMAIN conv[c] # {} => first[c] = SetMin(DOMAIN conv[c])
  <2> SUFFICES ASSUME NEW c \in Columns, DOMAIN conv[c] # {} PROVE first[c] = SetMin(DOMAIN conv[c])
    OBVIOUS
  <2>1. first[c] = 1
    BY <1>1 DEF Init
  <2> DEFINE T == DOMAIN conv[c]
  <2>2. T \in SUBSET Nat /\ T # {} /\ 1 \in T /\ \A m \in T : 1 <= m
    BY <1>1
  <2> HIDE DEF T
  <2>3. SetMin(T) \in T /\ SetMin(T) <= 1
    BY <2>2, SetMinFacts
  <2>4. SetMin(T) = 1
    <3>1. SetMin(T) \in Nat /\ 1 <= SetMin(T) /\ SetMin(T) <= 1
      BY <2>2, <2>3
    <3> QED BY <3>1
  <2> QED BY <2>1, <2>4 DEF T
<1>3. Cardinality(DOMAIN conv["expense"]) > 1 => second \in DOMAIN conv["expense"]
  <2> DEFINE n == Len(InitItems["expense"])
  <2>1. n \in Nat /\ DOMAIN conv["expense"] = 1..n /\ DOMAIN InitItems["expense"] = 1..n
    BY <1>1 DEF Columns, Init
  <2>2. second = IF Cardinality(1..n) > 1 THEN 2 ELSE None
    BY <2>1 DEF Init
  <2> HIDE DEF n
  <2>3. Cardinality(1..n) = n
    <3>1. \A a, b \in Int : Cardinality(a..b) = IF a > b THEN 0 ELSE b - a + 1
      BY FS_Interval, Zenon
    <3>2. 1 \in Int /\ n \in Int
      BY <2>1
    <3>3. Cardinality(1..n) = IF 1 > n THEN 0 ELSE n - 1 + 1
      BY <3>1, <3>2, Zenon
    <3> QED BY <2>1, <3>3
  <2> QED BY <2>1, <2>2, <2>3
<1> QED BY <1>2, <1>3 DEF Init, ConvInv

\* Every step keeps the sums no further behind than that.
LEMMA ConvStep ==
  ASSUME TypeInv, ConvInv, [Next]_vars
  PROVE  ConvInv'
<1>l. late \in BOOLEAN
  BY DEF TypeInv
<1>1. CASE OtherClick /\ UNCHANGED <<items, list, conv, first, second>> /\ late' = late
  <2>1. \A t : Sure(timers, t) => Sure(timers', t)
    BY <1>1, OtherClickQueue DEF OtherClick
  <2> QED BY <1>1, <2>1 DEF ConvInv
<1>2. CASE ClickSave /\ Refuses /\ UNCHANGED <<conv, first, second, page>> /\ late' = late
  BY <1>2 DEF Refuses, ConvInv
<1>3. CASE /\ (ClickSave /\ Accepts) \/ ClickDelete \/ ClickAway
           /\ UNCHANGED <<conv, first, second, page>>
           /\ late' = (late \/ (~dialog.open /\ items' # items))
  <2>1. /\ \A t : Sure(timers, t) => Sure(timers', t)
        /\ ~ClickAway /\ dialog.open => Sure(timers', Timer("convert"))
    BY <1>3, ClosingOrder
  <2>2. ClickAway => items' = items
    BY DEF ClickAway
  <2>3. ~late' => conv' = items' \/ Sure(timers', Timer("convert"))
    BY <1>3, <2>1, <2>2 DEF ConvInv
  <2> QED BY <1>3, <2>3 DEF ConvInv
<1>4. CASE Callback /\ late' = late /\ UNCHANGED items
  <2>1. \A t : Sure(timers, t) /\ t # Head(timers) => Sure(timers', t)
    BY <1>4, CallbackQueue
  <2>2. CASE RunConvert
    <3>1. /\ conv' = items /\ second' = SecondItem
          /\ \A c \in Columns : items[c] # <<>> => first'[c] = SetMin(DOMAIN items[c])
      BY <2>2 DEF RunConvert
    <3>2. \A c \in Columns : DOMAIN conv'[c] # {} => first'[c] = SetMin(DOMAIN conv'[c])
      BY <3>1, ItemsFacts
    <3>3. Cardinality(DOMAIN conv'["expense"]) > 1 => second' \in DOMAIN conv'["expense"]
      <4> DEFINE D == DOMAIN items["expense"]
                 E == D \ {SetMin(D)}
      <4>1. D \in SUBSET Nat
        BY ItemsFacts DEF Columns
      <4>2. Cardinality(D) > 1 => E # {}
        <5>1. SUFFICES ASSUME E = {} PROVE ~(Cardinality(D) > 1)
          OBVIOUS
        <5>2. D = {} \/ D = {SetMin(D)}
          BY <5>1
        <5> HIDE DEF D
        <5>3. Cardinality(D) = 0 \/ Cardinality(D) = 1
          BY <5>2, FS_EmptySet, FS_Singleton
        <5> QED BY <5>3
      <4>3. E # {} => SetMin(E) \in D
        <5>1. E \in SUBSET Nat /\ E \in SUBSET D
          BY <4>1
        <5> HIDE DEF E, D
        <5> QED BY <5>1, SetMinFacts
      <4>4. second' = IF Cardinality(D) > 1 THEN SetMin(E) ELSE second
        BY <3>1 DEF SecondItem
      <4>5. conv'["expense"] = items["expense"]
        BY <3>1
      <4> QED BY <4>2, <4>3, <4>4, <4>5
    <3>4. conv' = items'
      BY <1>4, <3>1
    <3> QED BY <3>2, <3>3, <3>4 DEF ConvInv
  <2>3. CASE ~RunConvert
    <3>1. Head(timers) # Timer("convert") /\ UNCHANGED <<conv, first, second>>
      BY <1>4, <2>3 DEF Callback, ResetFields, RemoveDiv, FollowRemoval, TimePasses, Fires, Timer,
                        Debounced, sums
    <3> QED BY <1>4, <2>1, <3>1 DEF ConvInv
  <2> QED BY <2>2, <2>3
<1>5. CASE UNCHANGED <<items, list, dialog, conv, first, second, page, timers, late>>
  BY <1>5 DEF ConvInv
<1> QED BY <1>1, <1>2, <1>3, <1>4, <1>5, Steps

\* The invariant of page 4.
LEMMA ConvInvHolds == Spec => []ConvInv
BY ConvInit, ConvStep, TypeInvHolds, PTL DEF Spec

\* Page 4 shows the sums of the items as they are, unless the last change came from a
\* dialog that was fading: the conversion is 230 ms late, and the overlay of deleteItem
\* and of the save button keeps the user from page 4 until it has run.
THEOREM PageFourIsUpToDate == Spec => []PageFourIsCurrent
<1>1. DialogInv /\ ConvInv => PageFourIsCurrent
  <2> SUFFICES ASSUME DialogInv, ConvInv, page = "statistic", ~late PROVE conv = items
    BY DEF PageFourIsCurrent
  <2>1. ~Pending("fade")
    BY DEF DialogInv, Covered
  <2> QED BY <2>1, SureIsFading DEF ConvInv
<1> QED BY <1>1, DialogInvHolds, ConvInvHolds, PTL

\* With an item in each column, page 4 opens with all its circles, but for one case:
\* a single expense is left, and data("seconditem") names one that is gone.
THEOREM LaunchesFail == Spec => []LaunchFailsOnlyAfterRemoval
<1>1. TypeInv /\ ConvInv => LaunchFailsOnlyAfterRemoval
  <2> SUFFICES ASSUME TypeInv, ConvInv, OnSettings, ~late, \A c \in Columns : items[c] # <<>>
               PROVE  /\ \A c \in Columns : first[c] \in DOMAIN items[c]
                      /\ InitThrows => Cardinality(DOMAIN items["expense"]) = 1
    BY DEF LaunchFailsOnlyAfterRemoval
  <2>1. conv = items
    BY SureIsFading DEF ConvInv, OnSettings, Covered
  <2>2. \A c \in Columns : DOMAIN items[c] # {} /\ DOMAIN items[c] \in SUBSET Nat
    BY ItemsFacts
  <2>3. \A c \in Columns : first[c] \in DOMAIN items[c]
    <3>1. \A c \in Columns : first[c] = SetMin(DOMAIN items[c])
      BY <2>1, <2>2 DEF ConvInv
    <3> QED BY <2>2, <3>1, SetMinFacts
  <2>4. InitThrows => Cardinality(DOMAIN items["expense"]) = 1
    <3> DEFINE D == DOMAIN items["expense"]
    <3>1. D # {} /\ IsFiniteSet(D) /\ Cardinality(D) \in Nat
      BY <2>2, ItemsFacts DEF Columns
    <3>2. InitThrows => ~(Cardinality(D) > 1)
      BY <2>1 DEF InitThrows, ConvInv
    <3> HIDE DEF D
    <3>3. Cardinality(D) # 0
      BY <3>1, FS_EmptySet
    <3>4. InitThrows => Cardinality(D) = 1
      BY <3>1, <3>2, <3>3
    <3> QED BY <3>4 DEF D
  <2> QED BY <2>3, <2>4
<1> QED BY <1>1, TypeInvHolds, ConvInvHolds, PTL

------------------------------------------------------------------------------
(* The divs and the data. *)

\* A column shows its items, and besides only divs that are about to go.
Shown(its, l, q, c) ==
  /\ \A j, k \in DOMAIN l[c] : l[c][j].id = l[c][k].id => j = k
  /\ \A i \in DOMAIN its[c] : \E k \in DOMAIN l[c] : l[c][k].id = i
  /\ \A k \in DOMAIN l[c] : \/ l[c][k].id \in DOMAIN its[c] /\ l[c][k].val = its[c][l[c][k].id]
                            \/ Has(q, TimerForItem("remove", c, l[c][k].id))

\* No item is added while a div shrinks, so that no id is given twice: by then the
\* dialog that was closed has no fields to add one from.
DomInv ==
  /\ \A c \in Columns : Shown(items, list, timers, c)
  /\ Pending("remove") => dialog.mode = "edit" \/ dialog.val = Blank
  /\ \A c \in Columns, i \in Ids \cup {None} :
        Has(timers, TimerForItem("remove", c, i)) => i \notin DOMAIN items[c]

\* For all columns this is the property DomIsData.
LEMMA ShownIsDomIsData ==
  (\A c \in Columns : Shown(items, list, timers, c)) => DomIsData
BY DEF Shown, DomIsData, Has

\* The children of a slider are a sequence of divs.
LEMMA ListFacts ==
  ASSUME TypeInv, NEW c \in Columns
  PROVE  /\ list[c] \in Seq(Div) /\ Len(list[c]) \in Nat /\ DOMAIN list[c] = 1..Len(list[c])
         /\ \A k \in DOMAIN list[c] : list[c][k] \in Div /\ list[c][k].id \in Ids
         /\ list' \in Columned(Seq(Div)) => /\ Len(list'[c]) \in Nat
                                            /\ DOMAIN list'[c] = 1..Len(list'[c])
<1>1. list[c] \in Seq(Div)
  BY DEF TypeInv, Columned
<1>2. Len(list[c]) \in Nat /\ DOMAIN list[c] = 1..Len(list[c])
      /\ \A k \in DOMAIN list[c] : list[c][k] \in Div
  BY <1>1, ElementOfSeq, LenProperties
<1>3. list' \in Columned(Seq(Div)) => /\ Len(list'[c]) \in Nat
                                      /\ DOMAIN list'[c] = 1..Len(list'[c])
  BY LenProperties DEF Columned
<1> QED BY <1>1, <1>2, <1>3 DEF Div

\* The save button of a dialog for a new item: the item and its div, at the end.
LEMMA AddEffect ==
  ASSUME TypeInv, ClickSave, Accepts, dialog.mode = "add"
  PROVE  LET c == dialog.col IN
           /\ NewId(c) \in Ids /\ \A i \in DOMAIN items[c] : i < NewId(c)
           /\ DOMAIN items'[c] = DOMAIN items[c] \cup {NewId(c)}
           /\ \A i \in DOMAIN items[c] : items'[c][i] = items[c][i]
           /\ items'[c][NewId(c)] = dialog.val
           /\ DOMAIN list'[c] = 1..Len(list[c]) + 1
           /\ \A k \in 1..Len(list[c]) : list'[c][k] = list[c][k]
           /\ list'[c][Len(list[c]) + 1] = [id |-> NewId(c), val |-> dialog.val]
           /\ \A e \in Columns \ {c} : items'[e] = items[e] /\ list'[e] = list[e]
<1> DEFINE c == dialog.col
           n == NewId(c)
           d == [id |-> n, val |-> dialog.val]
<1>1. c \in Columns /\ dialog.val \in Values
  BY DEF TypeInv, Dialogs, Accepts
<1>2. clicks + 1 \in 0..MaxClicks /\ n \in Nat \ {0} /\ n <= clicks + 1 + Before
      /\ \A i \in DOMAIN items[c] : i < n
  <2>1. clicks + 1 \in 0..MaxClicks
    BY Bounds DEF TypeInv, ClickSave, User
  <2> HIDE DEF c
  <2> QED BY <1>1, <2>1, NewIdIsNew
<1>3. n \in Ids
  BY <1>2, Bounds
<1>4. items' = Put(c, n, dialog.val) /\ list' = [list EXCEPT ![c] = Append(@, d)]
  BY DEF ClickSave, AddNewItem, Accepts
<1>5. items \in [Columns -> Objects] /\ list \in [Columns -> Seq(Div)]
  BY DEF TypeInv, Columned
<1>6. items'[c] = [j \in DOMAIN items[c] \cup {n} |-> IF j = n THEN dialog.val ELSE items[c][j]]
      /\ \A e \in Columns \ {c} : items'[e] = items[e]
  <2> HIDE DEF c, n
  <2> QED BY <1>1, <1>4, <1>5 DEF Put
<1>7. \A i \in DOMAIN items[c] : i # n
  BY <1>2, <1>1, ItemsFacts
<1>8. list'[c] = Append(list[c], d) /\ \A e \in Columns \ {c} : list'[e] = list[e]
  <2> HIDE DEF c, d
  <2> QED BY <1>1, <1>4, <1>5
<1>9. /\ DOMAIN Append(list[c], d) = 1..Len(list[c]) + 1
      /\ \A k \in 1..Len(list[c]) : Append(list[c], d)[k] = list[c][k]
      /\ Append(list[c], d)[Len(list[c]) + 1] = d
  <2>1. d \in Div
    BY <1>1, <1>3 DEF Div
  <2>2. list[c] \in Seq(Div)
    BY <1>1, <1>5
  <2> HIDE DEF c, d
  <2>3. Append(list[c], d) \in Seq(Div)
    BY <2>1, <2>2, AppendProperties
  <2> QED BY <2>1, <2>2, <2>3, AppendProperties, LenProperties
<1> QED BY <1>1, <1>2, <1>3, <1>6, <1>7, <1>8, <1>9

\* The save button of a dialog for an old item: its data and its div.
LEMMA EditEffect ==
  ASSUME TypeInv, ClickSave, Accepts, dialog.mode = "edit"
  PROVE  LET c == dialog.col IN
           /\ \A e \in Columns : DOMAIN items'[e] = DOMAIN items[e] /\ DOMAIN list'[e] = DOMAIN list[e]
           /\ \A i \in DOMAIN items[c] :
                 items'[c][i] = IF i = dialog.id THEN dialog.val ELSE items[c][i]
           /\ \A k \in DOMAIN list[c] :
                 /\ list'[c][k].id = list[c][k].id
                 /\ list'[c][k].val = IF list[c][k].id = dialog.id THEN dialog.val
                                                                   ELSE list[c][k].val
           /\ \A e \in Columns \ {c} : items'[e] = items[e] /\ list'[e] = list[e]
<1> DEFINE c == dialog.col
           renew(d) == IF d.id = dialog.id THEN [d EXCEPT !.val = dialog.val] ELSE d
           l == [k \in DOMAIN list[c] |-> renew(list[c][k])]
<1>1. c \in Columns /\ dialog.val # Blank /\ dialog.id \in DOMAIN items[c]
  BY DEF TypeInv, Dialogs, Accepts
<1>2. items \in [Columns -> Objects] /\ list \in [Columns -> Seq(Div)]
  BY DEF TypeInv, Columned
<1>3. items' = Put(c, dialog.id, dialog.val) /\ list' = [list EXCEPT ![c] = l]
  <2>1. SaveOldItem
    BY DEF ClickSave
  <2> QED BY <1>1, <2>1 DEF SaveOldItem
<1>4. items'[c] = [j \in DOMAIN items[c] \cup {dialog.id} |->
                      IF j = dialog.id THEN dialog.val ELSE items[c][j]]
      /\ \A e \in Columns \ {c} : items'[e] = items[e]
  <2> HIDE DEF c
  <2> QED BY <1>1, <1>2, <1>3 DEF Put
<1>5. list'[c] = l /\ \A e \in Columns \ {c} : list'[e] = list[e]
  <2> HIDE DEF c, l
  <2> QED BY <1>1, <1>2, <1>3
<1>6. \A d \in Div : /\ renew(d).id = d.id
                     /\ renew(d).val = IF d.id = dialog.id THEN dialog.val ELSE d.val
  BY DEF Div
<1>7. \A k \in DOMAIN list[c] : list[c][k] \in Div
  BY <1>1, ListFacts
<1>8. \A k \in DOMAIN list[c] : l[k] = renew(list[c][k])
  OBVIOUS
<1>9. DOMAIN l = DOMAIN list[c]
  OBVIOUS
<1>10. \A k \in DOMAIN list[c] :
          /\ list'[c][k].id = list[c][k].id
          /\ list'[c][k].val = IF list[c][k].id = dialog.id THEN dialog.val ELSE list[c][k].val
  <2> HIDE DEF l, renew
  <2> QED BY <1>5, <1>6, <1>7, <1>8
<1>11. \A e \in Columns : DOMAIN items'[e] = DOMAIN items[e] /\ DOMAIN list'[e] = DOMAIN list[e]
  <2> HIDE DEF l
  <2> QED BY <1>1, <1>4, <1>5, <1>9
<1>12. \A i \in DOMAIN items[c] : items'[c][i] = IF i = dialog.id THEN dialog.val ELSE items[c][i]
  BY <1>4
<1> QED BY <1>4, <1>5, <1>10, <1>11, <1>12

\* deleteItem: the data goes, its div stays for the time being.
LEMMA EraseEffect ==
  ASSUME TypeInv, ClickDelete
  PROVE  LET c == dialog.col IN
           /\ list' = list
           /\ DOMAIN items'[c] = DOMAIN items[c] \ {dialog.id}
           /\ \A i \in DOMAIN items[c] \ {dialog.id} : items'[c][i] = items[c][i]
           /\ \A e \in Columns \ {c} : items'[e] = items[e]
           /\ Has(timers', TimerForItem("remove", c, dialog.id))
           /\ dialog.open => Sure(timers', TimerForItem("remove", c, dialog.id))
<1> DEFINE c == dialog.col
           r == TimerForItem("remove", c, dialog.id)
<1>1. c \in Columns
  BY DEF TypeInv, Dialogs
<1>2. items' = Without(c, dialog.id) /\ list' = list /\ Closes(Erasing(c))
  BY DEF ClickDelete, Save, Erasing, Closes
<1>3. items \in [Columns -> Objects]
  BY DEF TypeInv, Columned
<1>4. items'[c] = [j \in DOMAIN items[c] \ {dialog.id} |-> items[c][j]]
      /\ \A e \in Columns \ {c} : items'[e] = items[e]
  <2> HIDE DEF c
  <2> QED BY <1>1, <1>2, <1>3 DEF Without
<1>5. Has(timers', r) /\ (dialog.open => Sure(timers', r))
  <2> HIDE DEF c
  <2>1. /\ Erasing(c) \in Seq(Timers)
        /\ \A i \in DOMAIN Erasing(c) : Due(Erasing(c)[i]) <= 316
        /\ Has(Erasing(c), r)
    BY <1>1, ErasingFacts
  <2> HIDE DEF r
  <2> QED BY <1>2, <2>1, ClosingQueue
<1> QED BY <1>2, <1>4, <1>5

\* A position is next to itself.
LEMMA NextTo == \A n \in Nat : \A k \in 1..n : k <= k /\ k <= k + 1
OBVIOUS

\* The first div with the id of the timer goes, and it is the only one.
LEMMA RemoveEffect ==
  ASSUME TypeInv, TypeInv', RemoveDiv, Shown(items, list, timers, Head(timers).col)
  PROVE  LET c == Head(timers).col
             i == Head(timers).id
         IN  /\ c \in Columns /\ i \in Ids \cup {None} /\ Head(timers) = TimerForItem("remove", c, i)
             /\ \A e \in Columns \ {c} : list'[e] = list[e]
             /\ \A k \in DOMAIN list'[c] : \E h \in DOMAIN list[c] :
                   /\ k <= h /\ h <= k + 1
                   /\ list'[c][k] = list[c][h] /\ list[c][h].id # i
             /\ \A h \in DOMAIN list[c] : list[c][h].id # i =>
                   \E k \in DOMAIN list'[c] : list'[c][k] = list[c][h]
             /\ \A j, k \in DOMAIN list'[c] : list'[c][j].id = list'[c][k].id => j = k
             /\ Len(list'[c]) = IF \E h \in DOMAIN list[c] : list[c][h].id = i
                                  THEN Len(list[c]) - 1 ELSE Len(list[c])
<1> DEFINE c == Head(timers).col
           i == Head(timers).id
           ks == {k \in DOMAIN list[c] : list[c][k].id = i}
           l == IF ks = {} THEN list[c] ELSE RemoveAt(list[c], SetMin(ks))
<1>1. c \in Columns /\ i \in Ids \cup {None} /\ Head(timers) = TimerForItem("remove", c, i)
  <2>1. Head(timers) \in Timers /\ Head(timers).job = "remove"
    BY TailFacts DEF RemoveDiv, Fires
  <2> QED BY <2>1 DEF Timers, TimerForItem
<1>2. /\ list[c] \in Seq(Div) /\ Len(list[c]) \in Nat /\ DOMAIN list[c] = 1..Len(list[c])
      /\ Len(list'[c]) \in Nat /\ DOMAIN list'[c] = 1..Len(list'[c])
  <2>1. list' \in Columned(Seq(Div))
    BY DEF TypeInv
  <2> HIDE DEF c
  <2> QED BY <1>1, <2>1, ListFacts
<1>3. \A j, k \in DOMAIN list[c] : list[c][j].id = list[c][k].id => j = k
  <2>1. Shown(items, list, timers, c)
    BY Zenon
  <2> HIDE DEF c
  <2> QED BY <2>1 DEF Shown
<1>4. list' = [list EXCEPT ![c] = l]
      /\ list \in [Columns -> Seq(Div)]
  BY Zenon DEF RemoveDiv, TypeInv, Columned
<1>5. list'[c] = l /\ \A e \in Columns \ {c} : list'[e] = list[e]
  <2> HIDE DEF c, l
  <2> QED BY <1>1, <1>4
<1> HIDE DEF c, i
<1>6. CASE ks = {}
  <2>1. list'[c] = list[c] /\ \A h \in DOMAIN list[c] : list[c][h].id # i
    BY <1>5, <1>6
  <2>2. \A k \in DOMAIN list[c] : k <= k /\ k <= k + 1
    BY <1>2, NextTo, Zenon
  <2> HIDE DEF ks, l
  <2> QED BY <1>1, <1>3, <1>5, <2>1, <2>2, Zenon DEF c, i
<1>7. CASE ks # {}
  <2> DEFINE m == SetMin(ks)
             n == Len(list[c])
             r == RemoveAt(list[c], m)
  <2>1. m \in ks /\ ks \in SUBSET (1..n)
    <3>1. ks \in SUBSET Nat /\ ks \in SUBSET (1..n)
      BY <1>2
    <3> HIDE DEF ks
    <3> QED BY <1>7, <3>1, SetMinFacts
  <2>2. m \in 1..n /\ list[c][m].id = i /\ \A h \in 1..n : list[c][h].id = i => h = m
    BY <1>2, <1>3, <2>1
  <2>3. list'[c] = r
    BY <1>5, <1>7
  <2> HIDE DEF m, ks
  <2>4. /\ Len(r) = n - 1
        /\ \A k \in 1..n - 1 : r[k] = list[c][IF k < m THEN k ELSE k + 1]
    BY <1>2, <2>2, RemoveAtFacts
  <2> HIDE DEF r
  <2>5. n \in Nat /\ DOMAIN list'[c] = 1..n - 1 /\ DOMAIN list[c] = 1..n /\ Len(list'[c]) = n - 1
    BY <1>2, <2>3, <2>4
  <2> DEFINE f(k) == IF k < m THEN k ELSE k + 1
  <2>6. \A k \in 1..n - 1 : f(k) \in 1..n /\ f(k) # m /\ k <= f(k) /\ f(k) <= k + 1
    BY <2>2, <2>5
  <2>7. \A j, k \in 1..n - 1 : f(j) = f(k) => j = k
    BY <2>2, <2>5
  <2>8. \A h \in 1..n : h # m => \E k \in 1..n - 1 : f(k) = h
    <3>1. \A h \in 1..n : h < m => h \in 1..n - 1 /\ f(h) = h
      BY <2>2, <2>5
    <3>2. \A h \in 1..n : h > m => h - 1 \in 1..n - 1 /\ f(h - 1) = h
      BY <2>2, <2>5
    <3>3. \A h \in 1..n : h # m => h < m \/ h > m
      BY <2>2, <2>5
    <3> HIDE DEF f
    <3> QED BY <3>1, <3>2, <3>3
  <2>9. \A k \in 1..n - 1 : list'[c][k] = list[c][f(k)]
    BY <2>3, <2>4
  <2> HIDE DEF f, n
  <2>10. \A k \in DOMAIN list'[c] : \E h \in DOMAIN list[c] :
            /\ k <= h /\ h <= k + 1
            /\ list'[c][k] = list[c][h] /\ list[c][h].id # i
    BY <2>2, <2>5, <2>6, <2>9
  <2>11. \A h \in DOMAIN list[c] : list[c][h].id # i =>
            \E k \in DOMAIN list'[c] : list'[c][k] = list[c][h]
    BY <2>2, <2>5, <2>8, <2>9
  <2>12. \A j, k \in DOMAIN list'[c] : list'[c][j].id = list'[c][k].id => j = k
    <3> SUFFICES ASSUME NEW j \in 1..n - 1, NEW k \in 1..n - 1, list'[c][j].id = list'[c][k].id
                 PROVE  j = k
      BY <2>5
    <3>1. list[c][f(j)].id = list[c][f(k)].id
      BY <2>9
    <3>2. f(j) \in DOMAIN list[c] /\ f(k) \in DOMAIN list[c]
      BY <2>5, <2>6
    <3>3. f(j) = f(k)
      BY <1>3, <3>1, <3>2
    <3> QED BY <2>7, <3>3
  <2>13. \E h \in DOMAIN list[c] : list[c][h].id = i
    BY <2>2, <2>5
  <2> QED BY <1>1, <1>5, <2>5, <2>10, <2>11, <2>12, <2>13, Zenon DEF c, i, n
<1> QED BY <1>6, <1>7

\* Timers that remove divs differ when their divs do.
LEMMA RemoveTimers ==
  /\ \A c, i : TimerForItem("remove", c, i).job = "remove"
  /\ \A c, d, i, j : TimerForItem("remove", c, i) = TimerForItem("remove", d, j) => c = d /\ i = j
BY DEF TimerForItem

\* Where items and list stay, every div may only wait longer for its removal.
LEMMA ShownStays ==
  ASSUME NEW c, Shown(items, list, timers, c), items'[c] = items[c], list'[c] = list[c],
         \A i : Has(timers, TimerForItem("remove", c, i)) => Has(timers', TimerForItem("remove", c, i))
  PROVE  Shown(items', list', timers', c)
BY DEF Shown

\* The save button changes the data and the div together.
LEMMA DomOfSave ==
  ASSUME TypeInv, DomInv, ClickSave, Accepts
  PROVE  DomInv'
<1> DEFINE c == dialog.col
<1>0. c \in Columns /\ dialog.mode \in {"add", "edit"} /\ dialog \in Dialogs
  BY DEF TypeInv, Dialogs
<1>1. /\ \A t : Has(timers', t) /\ ~Has(timers, t) => t.job # "remove"
      /\ \A t : Has(timers, t) => Has(timers', t)
      /\ dialog' = TurnOff
  <2>1. /\ dialog' = TurnOff
        /\ \A t : Has(timers', t) /\ ~Has(timers, t) =>
              \/ t.job \in {"reset", "convert", "save", "fade"} \/ ClickDelete
        /\ \A t : Has(timers, t) => Has(timers', t)
    BY ClosingOrder
  <2>2. \A t : Has(timers', t) => \/ Has(timers, t) \/ Has(Saving, t)
                                  \/ t \in {Timer("save"), Timer("fade")}
    BY ClosingQueue, SavingFacts DEF Accepts
  <2>3. \A t : Has(timers', t) /\ ~Has(timers, t) => t.job # "remove"
    BY <2>2, SavingFacts DEF Timer
  <2> QED BY <2>1, <2>3
<1>2. /\ \A i : Has(timers', TimerForItem("remove", c, i)) <=> Has(timers, TimerForItem("remove", c, i))
      /\ \A e, i : Has(timers', TimerForItem("remove", e, i)) <=> Has(timers, TimerForItem("remove", e, i))
      /\ Pending("remove")' <=> Pending("remove")
  BY <1>1, RemoveTimers, PendingHas
<1>3. dialog'.mode = dialog.mode /\ dialog'.val = dialog.val
  BY <1>0, <1>1 DEF TurnOff, Dialogs
<1>4. \A e \in Columns \ {c} : items'[e] = items[e] /\ list'[e] = list[e]
  BY <1>0, AddEffect, EditEffect
<1>5. \A e \in Columns \ {c} : Shown(items', list', timers', e)
  BY <1>2, <1>4, ShownStays DEF DomInv
<1>6. CASE dialog.mode = "add"
  <2>1. ~Pending("remove")
    BY <1>6 DEF DomInv, Accepts
  <2>2. \A e, i : ~Has(timers, TimerForItem("remove", e, i))
    BY <2>1, RemoveTimers, PendingHas
  <2> DEFINE id == NewId(c)
             n == Len(list[c])
  <2>3. /\ id \in Ids /\ id \notin DOMAIN items[c]
        /\ DOMAIN items'[c] = DOMAIN items[c] \cup {id}
        /\ \A i \in DOMAIN items[c] : items'[c][i] = items[c][i]
        /\ items'[c][id] = dialog.val
        /\ DOMAIN list'[c] = 1..n + 1
        /\ \A k \in 1..n : list'[c][k] = list[c][k]
        /\ list'[c][n + 1].id = id /\ list'[c][n + 1].val = dialog.val
    <3>1. \A i \in DOMAIN items[c] : i < NewId(c) /\ i \in Nat
      BY <1>0, <1>6, AddEffect, ItemsFacts
    <3>2. NewId(c) \notin DOMAIN items[c]
      BY <3>1
    <3> QED BY <1>6, <3>2, AddEffect
  <2>4. DOMAIN list[c] = 1..n /\ n \in Nat
    BY <1>0, ListFacts
  <2>5. Shown(items, list, timers, c)
    BY <1>0 DEF DomInv
  <2> HIDE DEF c, id, n
  <2>6. \A k \in 1..n : list[c][k].id \in DOMAIN items[c] /\ list[c][k].val = items[c][list[c][k].id]
    BY <2>2, <2>4, <2>5 DEF Shown
  <2>7. /\ \A k \in 1..n + 1 : k \in 1..n \/ k = n + 1
        /\ n + 1 \in 1..n + 1 /\ \A k \in 1..n : k \in 1..n + 1
    BY <2>4
  <2>8. \A j, k \in DOMAIN list'[c] : list'[c][j].id = list'[c][k].id => j = k
    <3>1. \A j, k \in 1..n : list[c][j].id = list[c][k].id => j = k
      BY <2>4, <2>5 DEF Shown
    <3> QED BY <2>3, <2>6, <2>7, <3>1
  <2>9. \A i \in DOMAIN items'[c] : \E k \in DOMAIN list'[c] : list'[c][k].id = i
    <3>1. \A i \in DOMAIN items[c] : \E k \in 1..n : list[c][k].id = i
      BY <2>4, <2>5 DEF Shown
    <3> QED BY <2>3, <2>7, <3>1
  <2>10. \A k \in DOMAIN list'[c] : /\ list'[c][k].id \in DOMAIN items'[c]
                                    /\ list'[c][k].val = items'[c][list'[c][k].id]
    BY <2>3, <2>6, <2>7
  <2>11. Shown(items', list', timers', c)
    BY <2>8, <2>9, <2>10 DEF Shown
  <2> QED BY <1>2, <1>5, <2>1, <2>2, <2>11 DEF DomInv
<1>7. CASE dialog.mode = "edit"
  <2> DEFINE id == dialog.id
  <2>1. /\ id \in DOMAIN items[c]
        /\ \A e \in Columns : DOMAIN items'[e] = DOMAIN items[e] /\ DOMAIN list'[e] = DOMAIN list[e]
        /\ \A i \in DOMAIN items[c] : items'[c][i] = IF i = id THEN dialog.val ELSE items[c][i]
        /\ \A k \in DOMAIN list[c] :
              /\ list'[c][k].id = list[c][k].id
              /\ list'[c][k].val = IF list[c][k].id = id THEN dialog.val ELSE list[c][k].val
    BY <1>7, EditEffect DEF Accepts
  <2>2. Shown(items, list, timers, c)
    BY <1>0 DEF DomInv
  <2> HIDE DEF c, id
  <2>3. DOMAIN items'[c] = DOMAIN items[c] /\ DOMAIN list'[c] = DOMAIN list[c]
    BY <1>0, <2>1
  <2>4. \A j, k \in DOMAIN list'[c] : list'[c][j].id = list'[c][k].id => j = k
    BY <2>1, <2>2, <2>3 DEF Shown
  <2>5. \A i \in DOMAIN items'[c] : \E k \in DOMAIN list'[c] : list'[c][k].id = i
    BY <2>1, <2>2, <2>3 DEF Shown
  <2>6. \A k \in DOMAIN list'[c] :
           \/ /\ list'[c][k].id \in DOMAIN items'[c]
              /\ list'[c][k].val = items'[c][list'[c][k].id]
           \/ Has(timers', TimerForItem("remove", c, list'[c][k].id))
    BY <1>2, <2>1, <2>2, <2>3 DEF Shown
  <2>7. Shown(items', list', timers', c)
    BY <2>4, <2>5, <2>6 DEF Shown
  <2>8. \A e \in Columns, i \in Ids \cup {None} :
           Has(timers', TimerForItem("remove", e, i)) => i \notin DOMAIN items'[e]
    BY <1>2, <2>1 DEF DomInv
  <2>9. dialog'.mode = "edit"
    BY <1>3, <1>7
  <2> QED BY <1>5, <2>7, <2>8, <2>9 DEF DomInv
<1> QED BY <1>0, <1>6, <1>7

\* deleteItem leaves a div that its timer takes away.
LEMMA DomOfDelete ==
  ASSUME TypeInv, DomInv, ClickDelete
  PROVE  DomInv'
<1> DEFINE c == dialog.col
           r == TimerForItem("remove", c, dialog.id)
<1>0. c \in Columns /\ dialog \in Dialogs /\ dialog.mode = "edit"
  BY DEF TypeInv, Dialogs, ClickDelete
<1>1. /\ \A t : Has(timers, t) => Has(timers', t)
      /\ \A t : Has(timers', t) /\ ~Has(timers, t) => t.job # "remove" \/ t = r
      /\ dialog' = TurnOff
  <2>1. /\ dialog' = TurnOff
        /\ \A t : Has(timers', t) /\ ~Has(timers, t) =>
               \/ t.job \in {"reset", "convert", "save", "fade"}
               \/ t \in {TimerOf("up", dialog.col), TimerForItem("remove", dialog.col, dialog.id)}
        /\ \A t : Has(timers, t) => Has(timers', t)
    BY ClosingOrder
  <2>2. TimerOf("up", c).job # "remove"
    BY DEF TimerOf
  <2> QED BY <2>1, <2>2
<1>2. dialog'.mode = "edit"
  BY <1>0, <1>1 DEF TurnOff, Dialogs
<1>3. /\ list' = list
      /\ DOMAIN items'[c] = DOMAIN items[c] \ {dialog.id}
      /\ \A i \in DOMAIN items[c] \ {dialog.id} : items'[c][i] = items[c][i]
      /\ \A e \in Columns \ {c} : items'[e] = items[e]
      /\ Has(timers', r)
  BY EraseEffect
<1>4. \A e \in Columns \ {c} : Shown(items', list', timers', e)
  BY <1>1, <1>3, ShownStays DEF DomInv
<1>5. Shown(items', list', timers', c)
  <2>1. Shown(items, list, timers, c)
    BY <1>0 DEF DomInv
  <2> HIDE DEF c
  <2>2. \A j, k \in DOMAIN list'[c] : list'[c][j].id = list'[c][k].id => j = k
    BY <1>3, <2>1 DEF Shown
  <2>3. \A i \in DOMAIN items'[c] : \E k \in DOMAIN list'[c] : list'[c][k].id = i
    BY <1>3, <2>1 DEF Shown
  <2>4. \A k \in DOMAIN list'[c] :
           \/ /\ list'[c][k].id \in DOMAIN items'[c]
              /\ list'[c][k].val = items'[c][list'[c][k].id]
           \/ Has(timers', TimerForItem("remove", c, list'[c][k].id))
    BY <1>1, <1>3, <2>1 DEF Shown
  <2> QED BY <2>2, <2>3, <2>4 DEF Shown
<1>6. \A e \in Columns, i \in Ids \cup {None} :
         Has(timers', TimerForItem("remove", e, i)) => i \notin DOMAIN items'[e]
  <2> SUFFICES ASSUME NEW e \in Columns, NEW i \in Ids \cup {None},
                      Has(timers', TimerForItem("remove", e, i))
               PROVE  i \notin DOMAIN items'[e]
    OBVIOUS
  <2>1. Has(timers, TimerForItem("remove", e, i)) \/ (e = c /\ i = dialog.id)
    BY <1>1, RemoveTimers
  <2> HIDE DEF c
  <2>2. DOMAIN items'[e] \subseteq DOMAIN items[e]
    BY <1>3
  <2> QED BY <1>3, <2>1, <2>2 DEF DomInv
<1> QED BY <1>2, <1>4, <1>5, <1>6 DEF DomInv

\* The end of a removal takes the div of that item and no other.
LEMMA DomOfRemove ==
  ASSUME TypeInv, TypeInv', DomInv, RemoveDiv
  PROVE  DomInv'
<1> DEFINE c == Head(timers).col
           i == Head(timers).id
<1>1. /\ timers # <<>> /\ timers' = Tail(timers) /\ items' = items /\ dialog' = dialog
  BY DEF RemoveDiv, Fires
<1>2. /\ \A t : Has(timers, t) <=> Has(timers', t) \/ t = Head(timers)
  BY <1>1, TailKeeps
<1>3. c \in Columns /\ Shown(items, list, timers, c)
  <2>1. Head(timers) \in Timers /\ Head(timers).job = "remove"
    BY TailFacts DEF RemoveDiv, Fires
  <2> QED BY <2>1 DEF Timers, DomInv
<1>4. /\ i \in Ids \cup {None} /\ Head(timers) = TimerForItem("remove", c, i)
      /\ \A e \in Columns \ {c} : list'[e] = list[e]
      /\ \A k \in DOMAIN list'[c] : \E h \in DOMAIN list[c] :
            list'[c][k] = list[c][h] /\ list[c][h].id # i
      /\ \A h \in DOMAIN list[c] : list[c][h].id # i =>
            \E k \in DOMAIN list'[c] : list'[c][k] = list[c][h]
      /\ \A j, k \in DOMAIN list'[c] : list'[c][j].id = list'[c][k].id => j = k
  BY <1>3, RemoveEffect
<1> HIDE DEF c, i
<1>5. i \notin DOMAIN items[c]
  <2>1. Has(timers, Head(timers))
    BY <1>2
  <2> QED BY <1>3, <1>4, <2>1 DEF DomInv
<1>6. \A e \in Columns \ {c} : Shown(items', list', timers', e)
  <2>1. \A e \in Columns \ {c} : \A j : Has(timers, TimerForItem("remove", e, j))
                                     => Has(timers', TimerForItem("remove", e, j))
    BY <1>2, <1>4, RemoveTimers
  <2> QED BY <1>1, <1>4, <2>1, ShownStays DEF DomInv
<1>7. Shown(items', list', timers', c)
  <2>1. \A j \in DOMAIN items'[c] : \E k \in DOMAIN list'[c] : list'[c][k].id = j
    BY <1>1, <1>3, <1>4, <1>5 DEF Shown
  <2>2. \A k \in DOMAIN list'[c] :
           \/ /\ list'[c][k].id \in DOMAIN items'[c]
              /\ list'[c][k].val = items'[c][list'[c][k].id]
           \/ Has(timers', TimerForItem("remove", c, list'[c][k].id))
    BY <1>1, <1>2, <1>3, <1>4, RemoveTimers DEF Shown
  <2> QED BY <1>4, <2>1, <2>2 DEF Shown
<1>8. Pending("remove")' => Pending("remove")
  BY <1>2, PendingHas
<1> QED BY <1>1, <1>2, <1>6, <1>7, <1>8 DEF DomInv

\* Every step keeps columns and data together.
LEMMA DomStep ==
  ASSUME TypeInv, TypeInv', DialogInv, DomInv, [Next]_vars
  PROVE  DomInv'
<1>0. dialog \in Dialogs
  BY DEF TypeInv
<1>r. "remove" \notin Aside
  BY DEF Aside
<1>1. CASE OtherClick /\ UNCHANGED <<items, list, conv, first, second>> /\ late' = late
  <2>1. \A t : t.job \notin Aside => (Has(timers', t) <=> Has(timers, t))
    BY <1>1, OtherClickQueue DEF OtherClick
  <2>2. /\ \A c, i : Has(timers', TimerForItem("remove", c, i)) <=> Has(timers, TimerForItem("remove", c, i))
        /\ Pending("remove")' <=> Pending("remove")
    BY <1>r, <2>1, RemoveTimers, PendingHas
  <2>3. \A c \in Columns : Shown(items', list', timers', c)
    BY <1>1, <2>2, ShownStays DEF DomInv
  <2>4. Pending("remove") => dialog'.mode = "edit" \/ dialog'.val = Blank
    <3>1. CASE UNCHANGED dialog
      BY <3>1 DEF DomInv
    <3>2. CASE OpensDialog
      <4>1. PICK c \in Columns : OpenAdd(c) \/ \E k \in DOMAIN list[c] : ItemClick(c, k)
        BY <3>2 DEF OpensDialog
      <4>2. CASE OpenAdd(c)
        <5>1. dialog'.val = dialog.val /\ ~Covered
          BY <1>0, <4>2 DEF OpenAdd, OnSettings, Dialogs
        <5>2. dialog.val = Blank
          BY <5>1, SureIsFading DEF DialogInv, Covered
        <5> QED BY <5>1, <5>2
      <4>3. CASE \E k \in DOMAIN list[c] : ItemClick(c, k)
        BY <4>3 DEF ItemClick
      <4> QED BY <4>1, <4>2, <4>3
    <3>3. CASE \E v \in Values \cup {Blank} : TypeFields(v)
      <4>1. ~Pending("remove")
        BY <3>3 DEF TypeFields, Settled, Pending
      <4> QED BY <4>1
    <3> QED BY <1>1, <3>1, <3>2, <3>3
            DEF OtherClick, ScrollUp, ScrollDown, LaunchStatistic, FadeStatistic
  <2> QED BY <1>1, <2>2, <2>3, <2>4 DEF DomInv
<1>2. CASE ClickSave /\ Refuses /\ UNCHANGED <<conv, first, second, page>> /\ late' = late
  <2>1. UNCHANGED <<items, list, dialog>>
    BY <1>2 DEF Refuses
  <2>2. \A t : t.job = "remove" => (Has(timers', t) <=> Has(timers, t))
    BY <1>2 DEF Refuses, Timer
  <2>3. /\ \A c, i : Has(timers', TimerForItem("remove", c, i)) <=> Has(timers, TimerForItem("remove", c, i))
        /\ Pending("remove")' <=> Pending("remove")
    BY <2>2, RemoveTimers, PendingHas
  <2>4. \A c \in Columns : Shown(items', list', timers', c)
    BY <2>1, <2>3, ShownStays DEF DomInv
  <2> QED BY <2>1, <2>3, <2>4 DEF DomInv
<1>3. CASE ClickSave /\ Accepts
  BY <1>3, DomOfSave
<1>4. CASE ClickDelete
  BY <1>4, DomOfDelete
<1>5. CASE ClickAway
  <2>1. /\ dialog' = TurnOff /\ items' = items /\ list' = list
        /\ \A t : Has(timers, t) => Has(timers', t)
        /\ \A t : Has(timers', t) /\ ~Has(timers, t) => t.job # "remove"
    <3>1. Closes(<<Timer("reset")>>) /\ dialog' = TurnOff /\ items' = items /\ list' = list
      BY <1>5 DEF ClickAway, Closes, shown
    <3>2. /\ \A t : Has(timers', t) => \/ Has(timers, t) \/ Has(<<Timer("reset")>>, t)
                                       \/ t \in {Timer("save"), Timer("fade")}
          /\ \A t : Has(timers, t) => Has(timers', t)
      BY <3>1, SavingFacts, ClosingQueue
    <3>3. \A t : Has(timers', t) /\ ~Has(timers, t) => t.job # "remove"
      BY <3>2, SavingFacts DEF Timer
    <3> QED BY <3>1, <3>2, <3>3
  <2>2. /\ \A c, i : Has(timers', TimerForItem("remove", c, i)) <=> Has(timers, TimerForItem("remove", c, i))
        /\ Pending("remove")' <=> Pending("remove")
    BY <2>1, RemoveTimers, PendingHas
  <2>3. dialog'.mode = dialog.mode /\ dialog'.val = dialog.val
    BY <1>0, <2>1 DEF TurnOff, Dialogs
  <2>4. \A c \in Columns : Shown(items', list', timers', c)
    BY <2>1, <2>2, ShownStays DEF DomInv
  <2> QED BY <2>1, <2>2, <2>3, <2>4 DEF DomInv
<1>6. CASE Callback /\ late' = late /\ UNCHANGED items
  <2>1. CASE RemoveDiv
    BY <2>1, DomOfRemove
  <2>2. CASE ~RemoveDiv
    <3>1. list' = list /\ Head(timers).job # "remove"
      BY <1>6, <2>2 DEF Callback, ResetFields, RunConvert, FollowRemoval, TimePasses, Fires,
                        Debounced, shown
    <3>2. /\ \A t : t.job \notin Aside /\ Has(timers', t) => Has(timers, t)
          /\ \A t : Has(timers, t) /\ t # Head(timers) => Has(timers', t)
      BY <1>6, CallbackQueue
    <3>3. /\ \A c, i : Has(timers', TimerForItem("remove", c, i)) <=> Has(timers, TimerForItem("remove", c, i))
          /\ Pending("remove")' <=> Pending("remove")
      BY <1>r, <3>1, <3>2, RemoveTimers, PendingHas
    <3>4. dialog'.mode = dialog.mode /\ (dialog'.val = dialog.val \/ dialog'.val = Blank)
      BY <1>0, <1>6, <2>2 DEF Callback, ResetFields, RunConvert, FollowRemoval, TimePasses, Dialogs
    <3>5. \A c \in Columns : Shown(items', list', timers', c)
      BY <1>6, <3>1, <3>3, ShownStays DEF DomInv
    <3> QED BY <1>6, <3>3, <3>4, <3>5 DEF DomInv
  <2> QED BY <2>1, <2>2
<1>7. CASE UNCHANGED <<items, list, dialog, conv, first, second, page, timers, late>>
  BY <1>7 DEF DomInv, Shown, Pending
<1> QED BY <1>1, <1>2, <1>3, <1>4, <1>5, <1>6, <1>7, Steps

\* The page starts with a div for each item.
LEMMA DomInit == Init => DomInv
<1> SUFFICES ASSUME Init PROVE DomInv
  OBVIOUS
<1>1. \A t : ~Has(timers, t)
  BY DEF Init, Has
<1>2. \A c \in Columns : Shown(items, list, timers, c)
  BY DEF Init, Shown
<1>3. ~Pending("remove")
  BY DEF Init, Pending
<1> QED BY <1>1, <1>2, <1>3 DEF DomInv

\* Columns and data stay together.
LEMMA DomInvHolds == Spec => []DomInv
BY DomInit, DomStep, TypeInvHolds, DialogInvHolds, PTL DEF Spec

\* A column shows every item of its object exactly once and with its present values,
\* and apart from these only divs that are about to go: addNewDiv, editOldDiv and
\* deleteItem keep the DOM and the data together, whatever fades or shrinks meanwhile.
THEOREM ColumnsShowTheItems == Spec => []DomIsData
<1>1. DomInv => DomIsData
  BY ShownIsDomIsData DEF DomInv
<1> QED BY <1>1, DomInvHolds, PTL

------------------------------------------------------------------------------
(* Shrinking divs. *)

\* Until a button of a fading dialog has changed an item, every div whose item is gone
\* leaves the list before the overlay leaves the page, and an open dialog has its item.
GhostInv ==
  ~late =>
    /\ \A c \in Columns : \A i \in Ghosts(c) : Sure(timers, TimerForItem("remove", c, i))
    /\ dialog.open /\ dialog.mode = "edit" => dialog.id \in DOMAIN items[dialog.col]

\* Where no div comes without its item, there are no more that shrink.
LEMMA GhostsStay ==
  ASSUME NEW c, DOMAIN items[c] \subseteq DOMAIN items'[c],
         \A k \in DOMAIN list'[c] : \/ list'[c][k].id \in DOMAIN items'[c]
                                    \/ \E h \in DOMAIN list[c] : list'[c][k].id = list[c][h].id
  PROVE  {list'[c][k].id : k \in DOMAIN list'[c]} \ DOMAIN items'[c] \subseteq Ghosts(c)
BY DEF Ghosts

\* The divs that shrink after a step, from the lists and the items after it.
LEMMA GhostsAre ==
  \A c \in Columns : Ghosts(c)' = {list'[c][k].id : k \in DOMAIN list'[c]} \ DOMAIN items'[c]
BY DEF Ghosts

\* A dialog that closes leaves no other div to shrink than the one it deletes.
LEMMA ClosingGhosts ==
  ASSUME TypeInv, (ClickSave /\ Accepts) \/ ClickDelete \/ ClickAway, NEW e \in Columns
  PROVE  Ghosts(e)' \subseteq Ghosts(e) \cup (IF ClickDelete /\ e = dialog.col THEN {dialog.id} ELSE {})
<1> DEFINE c == dialog.col
<1>0. c \in Columns /\ dialog.mode \in {"add", "edit"}
  BY DEF TypeInv, Dialogs
<1>1. CASE items'[e] = items[e] /\ list'[e] = list[e]
  BY <1>1, GhostsAre DEF Ghosts
<1>2. CASE ClickSave /\ Accepts
  <2>1. CASE e # c
    <3>1. items'[e] = items[e] /\ list'[e] = list[e]
      BY <1>0, <1>2, <2>1, AddEffect, EditEffect
    <3> QED BY <1>1, <3>1
  <2>2. CASE e = c
    <3>1. CASE dialog.mode = "add"
      <4> DEFINE n == Len(list[c])
                 id == NewId(c)
      <4>1. /\ DOMAIN items'[c] = DOMAIN items[c] \cup {id}
            /\ DOMAIN list'[c] = 1..n + 1
            /\ \A k \in 1..n : list'[c][k] = list[c][k]
            /\ list'[c][n + 1].id = id
        BY <1>2, <3>1, AddEffect
      <4>2. DOMAIN list[c] = 1..n /\ n \in Nat
        BY <1>0, ListFacts
      <4> HIDE DEF c, n, id
      <4>3. \A k \in DOMAIN list'[c] : k \in DOMAIN list[c] \/ k = n + 1
        BY <4>1, <4>2
      <4>4. \A k \in DOMAIN list'[c] : \/ list'[c][k].id \in DOMAIN items'[c]
                                       \/ \E h \in DOMAIN list[c] : list'[c][k].id = list[c][h].id
        BY <4>1, <4>2, <4>3
      <4> QED BY <2>2, <4>1, <4>4, GhostsStay, GhostsAre
    <3>2. CASE dialog.mode = "edit"
      <4>1. /\ \A d \in Columns : DOMAIN items'[d] = DOMAIN items[d] /\ DOMAIN list'[d] = DOMAIN list[d]
            /\ \A k \in DOMAIN list[c] : list'[c][k].id = list[c][k].id
        BY <1>2, <3>2, EditEffect
      <4> HIDE DEF c
      <4> QED BY <1>0, <2>2, <4>1, GhostsStay, GhostsAre
    <3> QED BY <1>0, <3>1, <3>2
  <2> QED BY <2>1, <2>2
<1>3. CASE ClickDelete
  <2>1. /\ list' = list /\ DOMAIN items'[c] = DOMAIN items[c] \ {dialog.id}
        /\ \A d \in Columns \ {c} : items'[d] = items[d]
    BY <1>3, EraseEffect
  <2>2. CASE e # c
    BY <1>1, <2>1, <2>2
  <2>3. CASE e = c
    BY <1>3, <2>1, <2>3, GhostsAre DEF Ghosts
  <2> QED BY <2>2, <2>3
<1>4. CASE ClickAway
  BY <1>1, <1>4 DEF ClickAway, shown
<1> QED BY <1>2, <1>3, <1>4

\* Every step keeps the removals under the overlay.
LEMMA GhostStep ==
  ASSUME TypeInv, TypeInv', DialogInv, DomInv, GhostInv, [Next]_vars
  PROVE  GhostInv'
<1>0. dialog \in Dialogs /\ late \in BOOLEAN
  BY DEF TypeInv
<1> SUFFICES ASSUME ~late'
             PROVE  /\ \A c \in Columns : \A i \in Ghosts(c)' : Sure(timers', TimerForItem("remove", c, i))
                    /\ dialog'.open /\ dialog'.mode = "edit" => dialog'.id \in DOMAIN items'[dialog'.col]
  BY DEF GhostInv
<1>s. UNCHANGED <<items, list>> => \A c \in Columns : Ghosts(c)' = Ghosts(c)
  BY DEF Ghosts
<1>1. CASE OtherClick /\ UNCHANGED <<items, list, conv, first, second>> /\ late' = late
  <2>1. \A t : Sure(timers, t) => Sure(timers', t)
    BY <1>1, OtherClickQueue DEF OtherClick
  <2>2. dialog'.open /\ dialog'.mode = "edit" => dialog'.id \in DOMAIN items[dialog'.col]
    <3>1. CASE UNCHANGED dialog
      BY <1>1, <3>1 DEF GhostInv
    <3>2. CASE OpensDialog
      <4>1. PICK c \in Columns : OpenAdd(c) \/ \E k \in DOMAIN list[c] : ItemClick(c, k)
        BY <3>2 DEF OpensDialog
      <4>2. CASE OpenAdd(c)
        BY <1>0, <4>2 DEF OpenAdd, Dialogs
      <4>3. CASE \E k \in DOMAIN list[c] : ItemClick(c, k)
        <5>1. PICK k \in DOMAIN list[c] : ItemClick(c, k)
          BY <4>3
        <5>2. dialog'.id = list[c][k].id /\ dialog'.col = c /\ ~Covered
          BY <5>1 DEF ItemClick, OnSettings
        <5>3. Ghosts(c) = {}
          BY <1>1, <5>2, SureIsFading DEF GhostInv, Covered
        <5> QED BY <5>2, <5>3 DEF Ghosts
      <4> QED BY <4>1, <4>2, <4>3
    <3>3. CASE \E v \in Values \cup {Blank} : TypeFields(v)
      <4>1. dialog'.open = dialog.open /\ dialog'.mode = dialog.mode /\ dialog'.id = dialog.id
            /\ dialog'.col = dialog.col
        BY <1>0, <3>3 DEF TypeFields, Dialogs
      <4> QED BY <1>1, <4>1 DEF GhostInv
    <3> QED BY <1>1, <3>1, <3>2, <3>3
            DEF OtherClick, ScrollUp, ScrollDown, LaunchStatistic, FadeStatistic
  <2> QED BY <1>1, <1>s, <2>1, <2>2 DEF GhostInv
<1>2. CASE ClickSave /\ Refuses /\ UNCHANGED <<conv, first, second, page>> /\ late' = late
  BY <1>2, <1>s DEF Refuses, GhostInv
<1>3. CASE /\ (ClickSave /\ Accepts) \/ ClickDelete \/ ClickAway
           /\ late' = (late \/ (~dialog.open /\ items' # items))
  <2>1. /\ ~dialog'.open
        /\ \A t : Sure(timers, t) => Sure(timers', t)
    <3>1. dialog' = TurnOff /\ \A t : Sure(timers, t) => Sure(timers', t)
      BY <1>3, ClosingOrder
    <3> QED BY <1>0, <3>1 DEF TurnOff, Dialogs
  <2>2. ~late /\ (dialog.open \/ items' = items)
    BY <1>3
  <2>3. ASSUME NEW c \in Columns, NEW i \in Ghosts(c)'
        PROVE  Sure(timers', TimerForItem("remove", c, i))
    <3>1. CASE i \in Ghosts(c)
      BY <2>1, <2>2, <3>1 DEF GhostInv
    <3>2. CASE i \notin Ghosts(c)
      <4>1. ClickDelete /\ c = dialog.col /\ i = dialog.id
        BY <1>3, <2>3, <3>2, ClosingGhosts
      <4>2. items' # items
        <5>1. UNCHANGED list
          BY <4>1 DEF ClickDelete
        <5> QED BY <1>s, <2>3, <3>2, <5>1
      <4> QED BY <2>2, <4>1, <4>2, EraseEffect
    <3> QED BY <3>1, <3>2
  <2> QED BY <2>1, <2>3
<1>4. CASE Callback /\ late' = late /\ UNCHANGED items
  <2>1. \A t : Sure(timers, t) /\ t # Head(timers) => Sure(timers', t)
    BY <1>4, CallbackQueue
  <2>2. dialog'.open = dialog.open /\ dialog'.mode = dialog.mode /\ dialog'.id = dialog.id
        /\ dialog'.col = dialog.col
    BY <1>0, <1>4 DEF Callback, ResetFields, RunConvert, RemoveDiv, FollowRemoval, TimePasses, Dialogs
  <2>3. CASE RemoveDiv
    <3> DEFINE c == Head(timers).col
               i == Head(timers).id
    <3>1. c \in Columns /\ Shown(items, list, timers, c)
      <4>1. Head(timers) \in Timers /\ Head(timers).job = "remove"
        BY <1>4, <2>3, CallbackQueue DEF RemoveDiv, Fires
      <4> QED BY <4>1 DEF Timers, DomInv
    <3>2. /\ Head(timers) = TimerForItem("remove", c, i)
          /\ \A e \in Columns \ {c} : list'[e] = list[e]
          /\ \A k \in DOMAIN list'[c] : \E h \in DOMAIN list[c] :
                list'[c][k] = list[c][h] /\ list[c][h].id # i
      BY <2>3, <3>1, RemoveEffect
    <3> HIDE DEF c, i
    <3>3. \A e \in Columns : \A j \in Ghosts(e)' : j \in Ghosts(e) /\ (e # c \/ j # i)
      <4>1. \A e \in Columns \ {c} : Ghosts(e)' = Ghosts(e)
        BY <1>4, <3>2 DEF Ghosts
      <4>2. {list'[c][k].id : k \in DOMAIN list'[c]} \ DOMAIN items'[c] \subseteq Ghosts(c) \ {i}
        BY <1>4, <3>2 DEF Ghosts
      <4> QED BY <3>1, <4>1, <4>2, GhostsAre
    <3> QED BY <1>4, <2>1, <2>2, <3>2, <3>3, RemoveTimers DEF GhostInv
  <2>4. CASE ~RemoveDiv
    <3>1. list' = list /\ Head(timers).job # "remove"
      BY <1>4, <2>4 DEF Callback, ResetFields, RunConvert, FollowRemoval, TimePasses, Fires,
                        Debounced, shown
    <3> QED BY <1>4, <1>s, <2>1, <2>2, <3>1, RemoveTimers DEF GhostInv
  <2> QED BY <2>3, <2>4
<1>5. CASE UNCHANGED <<items, list, dialog, conv, first, second, page, timers, late>>
  BY <1>5, <1>s DEF GhostInv
<1> QED BY <1>1, <1>2, <1>3, <1>4, <1>5, Steps

\* Removals stay under the overlay.
LEMMA GhostInvHolds == Spec => []GhostInv
<1>1. Init => GhostInv
  BY DEF Init, GhostInv, Ghosts
<1> QED BY <1>1, GhostStep, TypeInvHolds, DialogInvHolds, DomInvHolds, PTL DEF Spec

\* A dialog that is open for an item has one, unless a button of a dialog that was
\* fading has removed it: the overlay of deleteItem outlasts the div.
THEOREM OpenDialogsHaveItems == Spec => []OpenDialogHasItem
<1>1. GhostInv => OpenDialogHasItem
  BY DEF GhostInv, OpenDialogHasItem
<1> QED BY <1>1, GhostInvHolds, PTL

------------------------------------------------------------------------------
(* The frame of a column. *)

\* How far down a slider with n items may be, and how many divs a column keeps.
Most(n) == IF n > Frame THEN n - Frame ELSE 0
Live(c) == IF Ghosts(c) = {} THEN Len(list[c]) ELSE Len(list[c]) - 1

\* The Up that follows a removal in column c comes: behind the removal of the divs S
\* and behind the end of its debounce if that is closed, with no other before it,
\* nothing sliding, and under the overlay.
Queued(q, closed, S, c) ==
  \E u \in DOMAIN q :
    /\ q[u] = TimerOf("up", c)
    /\ \E k \in DOMAIN q : u < k /\ q[k].job = "fade"
    /\ \A i \in S : \E k \in DOMAIN q : k < u /\ q[k] = TimerForItem("remove", c, i)
    /\ closed => \E k \in DOMAIN q : k < u /\ q[k].job = "Up"
    /\ \A k \in DOMAIN q : k < u => q[k].job # "up"
    /\ \A k \in DOMAIN q : ~(q[k].job = "slide" /\ q[k].col = c)

InFrame(c) == shift[c] <= Most(Live(c))
Follows(c) == /\ shift[c] <= Most(Live(c)) + 1 /\ Live(c) >= Frame
              /\ Queued(timers, "Up" \in gates, Ghosts(c), c)

Framed(c)  == (\A i, j \in Ghosts(c) : i = j) /\ (InFrame(c) \/ Follows(c))

\* The debounce of Up opens again; and until a button of a fading dialog has changed
\* an item, at most one div of a column shrinks, and its list fills the frame or is
\* one row off with an Up on its way.
GateInv  == "Up" \in gates => Pending("Up")
FrameInv == ~late => \A c \in Columns : Framed(c)

\* Most is a number, and grows with the list.
LEMMA MostFacts ==
  /\ \A n \in Int : /\ Most(n) \in Nat
                    /\ n >= Frame => Most(n) = n - Frame
                    /\ n <= Frame => Most(n) = 0
  /\ \A m, n \in Int : m <= n => Most(m) <= Most(n)
<1>1. Frame \in Nat
  BY Bounds
<1> QED BY <1>1 DEF Most

\* The bound of the property, whose CHOOSE takes the greater of two numbers.
LEMMA MostOfList ==
  ASSUME NEW n \in Nat
  PROVE  SetMax({0, n - Frame}) = Most(n)
<1>1. Frame \in Nat
  BY Bounds
<1>2. PICK m \in {0, n - Frame} : \A k \in {0, n - Frame} : k <= m
  BY <1>1
<1>3. SetMax({0, n - Frame}) \in {0, n - Frame} /\ \A k \in {0, n - Frame} : k <= SetMax({0, n - Frame})
  BY <1>2 DEF SetMax
<1> QED BY <1>1, <1>3 DEF Most

\* The numbers that the proofs compare.
LEMMA LiveType ==
  ASSUME TypeInv, NEW c \in Columns
  PROVE  /\ Live(c) \in Int /\ shift[c] \in Nat /\ Len(list[c]) \in Nat
         /\ Most(Live(c)) \in Nat
<1>1. Live(c) \in Int /\ shift[c] \in Nat /\ Len(list[c]) \in Nat
  BY ListFacts DEF TypeInv, Columned, Live
<1> QED BY <1>1, MostFacts

\* While an Up of a removal is on its way, the overlay covers the page.
LEMMA QueuedIsCovered ==
  ASSUME NEW closed, NEW S, NEW c, Queued(timers, closed, S, c)
  PROVE  Pending("fade") /\ PendingFor("up", c)
BY DEF Queued, Pending, PendingFor, TimerOf

\* Longer queues keep the Up in its place: a second one comes later.
LEMMA QueuedAdds ==
  ASSUME NEW q \in Seq(Timers), NEW ts \in Seq(Timers), NEW p, Adds(q, ts, p),
         \A t : Has(ts, t) => t.job # "slide",
         NEW closed, NEW S, NEW c, Queued(q, closed, S, c)
  PROVE  Queued(p, closed, S, c)
<1>1. PICK f, g : Merges(q, ts, Len(ts), p, f, g)
  BY DEF Adds
<1>2. PICK u \in DOMAIN q :
         /\ q[u] = TimerOf("up", c)
         /\ \E k \in DOMAIN q : u < k /\ q[k].job = "fade"
         /\ \A i \in S : \E k \in DOMAIN q : k < u /\ q[k] = TimerForItem("remove", c, i)
         /\ closed => \E k \in DOMAIN q : k < u /\ q[k].job = "Up"
         /\ \A k \in DOMAIN q : k < u => q[k].job # "up"
         /\ \A k \in DOMAIN q : ~(q[k].job = "slide" /\ q[k].col = c)
  BY DEF Queued
<1>3. /\ DOMAIN q = 1..Len(q) /\ DOMAIN ts = 1..Len(ts) /\ DOMAIN p = 1..Len(p)
      /\ Len(q) \in Nat /\ Len(p) \in Nat
  <2>1. p \in Seq(Timers)
    BY <1>1 DEF Merges
  <2> QED BY <2>1, LenProperties
<1>4. /\ \A i \in DOMAIN q : f[i] \in DOMAIN p /\ p[f[i]] = q[i]
      /\ \A j \in DOMAIN ts : g[j] \in DOMAIN p /\ p[g[j]] = ts[j]
      /\ \A k \in DOMAIN p : (\E i \in DOMAIN q : f[i] = k) \/ (\E j \in DOMAIN ts : g[j] = k)
      /\ \A i, h \in DOMAIN q : i < h => f[i] < f[h]
      /\ \A i \in DOMAIN q, j \in DOMAIN ts : Due(q[i]) <= Due(ts[j]) => f[i] < g[j]
  BY <1>1, <1>3 DEF Merges
<1> DEFINE v == f[u]
<1>5. v \in DOMAIN p /\ p[v] = TimerOf("up", c)
  BY <1>2, <1>4
<1>6. \E k \in DOMAIN p : v < k /\ p[k].job = "fade"
  BY <1>2, <1>4
<1>7. \A i \in S : \E k \in DOMAIN p : k < v /\ p[k] = TimerForItem("remove", c, i)
  BY <1>2, <1>4
<1>8. closed => \E k \in DOMAIN p : k < v /\ p[k].job = "Up"
  BY <1>2, <1>4
<1>9. ASSUME NEW k \in DOMAIN p, k < v
      PROVE  p[k].job # "up"
  <2>1. CASE \E i \in DOMAIN q : f[i] = k
    <3>1. PICK i \in DOMAIN q : f[i] = k
      BY <2>1
    <3>2. ~(u < i) /\ i # u
      <4>1. k \in Nat /\ v \in Nat
        BY <1>3, <1>5
      <4>2. ~(v < k) /\ v # k
        BY <1>9, <4>1
      <4> QED BY <1>4, <3>1, <4>2
    <3>3. i < u
      BY <1>3, <3>2
    <3> QED BY <1>2, <1>4, <3>1, <3>3
  <2>2. CASE \E j \in DOMAIN ts : g[j] = k
    <3>1. PICK j \in DOMAIN ts : g[j] = k
      BY <2>2
    <3>2. ~(v < k)
      BY <1>3, <1>5, <1>9
    <3>3. ~(Due(q[u]) <= Due(ts[j]))
      BY <1>4, <3>1, <3>2
    <3>4. Due(q[u]) = 300
      BY <1>2 DEF Due, TimerOf, Delay
    <3>5. ts[j].job = "up" => Due(ts[j]) = 300
      BY DEF Due, Delay
    <3>6. ts[j].job # "up"
      BY <3>3, <3>4, <3>5
    <3> QED BY <1>4, <3>1, <3>6
  <2> QED BY <1>4, <2>1, <2>2
<1>10. ASSUME NEW k \in DOMAIN p
       PROVE  ~(p[k].job = "slide" /\ p[k].col = c)
  <2>1. CASE \E i \in DOMAIN q : f[i] = k
    BY <1>2, <1>4, <2>1
  <2>2. CASE \E j \in DOMAIN ts : g[j] = k
    BY <1>4, <2>2 DEF Has
  <2> QED BY <1>4, <2>1, <2>2
<1> HIDE DEF v
<1> QED BY <1>5, <1>6, <1>7, <1>8, <1>9, <1>10 DEF Queued

\* A timer that fires before the Up leaves it in its place.
LEMMA QueuedTail ==
  ASSUME TypeInv, timers # <<>>, NEW closed, NEW S, NEW c, Queued(timers, closed, S, c),
         Head(timers).job # "up",
         NEW closed2, closed2 => closed /\ Head(timers).job # "Up",
         NEW S2, S2 \subseteq S, \A i \in S2 : Head(timers) # TimerForItem("remove", c, i)
  PROVE  Queued(Tail(timers), closed2, S2, c)
<1>1. /\ Head(timers) = timers[1] /\ Len(timers) \in Nat \ {0} /\ DOMAIN timers = 1..Len(timers)
      /\ DOMAIN Tail(timers) = 1..Len(timers) - 1
      /\ \A k \in 1..Len(timers) - 1 : Tail(timers)[k] = timers[k + 1]
  BY TailFacts
<1>2. PICK u \in DOMAIN timers :
         /\ timers[u] = TimerOf("up", c)
         /\ \E k \in DOMAIN timers : u < k /\ timers[k].job = "fade"
         /\ \A i \in S : \E k \in DOMAIN timers : k < u /\ timers[k] = TimerForItem("remove", c, i)
         /\ closed => \E k \in DOMAIN timers : k < u /\ timers[k].job = "Up"
         /\ \A k \in DOMAIN timers : k < u => timers[k].job # "up"
         /\ \A k \in DOMAIN timers : ~(timers[k].job = "slide" /\ timers[k].col = c)
  BY DEF Queued
<1>3. \A k \in DOMAIN timers : k # 1 => /\ k - 1 \in DOMAIN Tail(timers)
                                        /\ Tail(timers)[k - 1] = timers[k]
  BY <1>1
<1>4. \A k \in DOMAIN Tail(timers) : k + 1 \in DOMAIN timers /\ Tail(timers)[k] = timers[k + 1]
  BY <1>1
<1>5. u # 1 /\ \A j, k \in DOMAIN timers : j < k => j - 1 < k - 1
  <2>1. timers[u].job = "up"
    BY <1>2 DEF TimerOf
  <2> QED BY <1>1, <2>1
<1> DEFINE v == u - 1
<1>6. v \in DOMAIN Tail(timers) /\ Tail(timers)[v] = TimerOf("up", c)
  BY <1>2, <1>3, <1>5
<1>7. \E k \in DOMAIN Tail(timers) : v < k /\ Tail(timers)[k].job = "fade"
  <2>1. PICK k \in DOMAIN timers : u < k /\ timers[k].job = "fade"
    BY <1>2
  <2>2. k # 1
    BY <1>1, <2>1
  <2> QED BY <1>3, <1>5, <2>1, <2>2
<1>8. ASSUME NEW i \in S2
      PROVE  \E k \in DOMAIN Tail(timers) : k < v /\ Tail(timers)[k] = TimerForItem("remove", c, i)
  <2>1. PICK k \in DOMAIN timers : k < u /\ timers[k] = TimerForItem("remove", c, i)
    BY <1>2
  <2>2. k # 1
    BY <1>1, <2>1
  <2> QED BY <1>3, <1>5, <2>1, <2>2
<1>9. closed2 => \E k \in DOMAIN Tail(timers) : k < v /\ Tail(timers)[k].job = "Up"
  <2> SUFFICES ASSUME closed2
               PROVE  \E k \in DOMAIN Tail(timers) : k < v /\ Tail(timers)[k].job = "Up"
    OBVIOUS
  <2>1. PICK k \in DOMAIN timers : k < u /\ timers[k].job = "Up"
    BY <1>2
  <2>2. k # 1
    BY <1>1, <2>1
  <2> QED BY <1>3, <1>5, <2>1, <2>2
<1>10. \A k \in DOMAIN Tail(timers) : k < v => Tail(timers)[k].job # "up"
  <2>1. \A k \in DOMAIN Tail(timers) : k < v => k + 1 < u
    BY <1>1
  <2> QED BY <1>2, <1>4, <2>1
<1>11. \A k \in DOMAIN Tail(timers) : ~(Tail(timers)[k].job = "slide" /\ Tail(timers)[k].col = c)
  BY <1>2, <1>4
<1> HIDE DEF v
<1> QED BY <1>6, <1>7, <1>8, <1>9, <1>10, <1>11 DEF Queued

\* When an Up fires, it is the one that is queued, and nothing keeps it from sliding.
LEMMA QueuedHead ==
  ASSUME TypeInv, timers # <<>>, NEW closed, NEW S, NEW c, Queued(timers, closed, S, c),
         Head(timers).job = "up"
  PROVE  /\ Head(timers).col = c /\ S = {} /\ ~closed
         /\ ~PendingFor("slide", c)
<1>1. /\ Head(timers) = timers[1] /\ Len(timers) \in Nat \ {0} /\ DOMAIN timers = 1..Len(timers)
  BY TailFacts
<1>2. PICK u \in DOMAIN timers :
         /\ timers[u] = TimerOf("up", c)
         /\ \A i \in S : \E k \in DOMAIN timers : k < u /\ timers[k] = TimerForItem("remove", c, i)
         /\ closed => \E k \in DOMAIN timers : k < u /\ timers[k].job = "Up"
         /\ \A k \in DOMAIN timers : k < u => timers[k].job # "up"
         /\ \A k \in DOMAIN timers : ~(timers[k].job = "slide" /\ timers[k].col = c)
  BY DEF Queued
<1>3. u = 1
  <2>1. 1 \in DOMAIN timers /\ (u # 1 => 1 < u)
    BY <1>1
  <2> QED BY <1>1, <1>2, <2>1
<1>4. \A k \in DOMAIN timers : ~(k < u)
  BY <1>1, <1>3
<1> QED BY <1>1, <1>2, <1>3, <1>4 DEF PendingFor, TimerOf

\* An Up that the debounce lets through opens it again later.
LEMMA UpIsQueued ==
  ASSUME TypeInv, NEW c \in Columns, NEW q \in Seq(Timers), CallUp(c, q), "Up" \notin gates
  PROVE  Has(timers', Timer("Up"))
<1> DEFINE m == ~Moving(c) /\ Top(c) > Frame - Len(list[c])
           a == IF m THEN <<TimerOf("slide", c)>> ELSE <<>>
           b == <<Timer("Up")>>
<1>1. timers' \in SetTimers(q, a \o b)
  BY DEF CallUp
<1>2. Timer("Up") \in Timers /\ TimerOf("slide", c) \in Timers
  BY TimerTypes, JobNames
<1>3. a \in Seq(Timers) /\ b \in Seq(Timers) /\ Len(b) = 1 /\ b[1] = Timer("Up")
  BY <1>2
<1> HIDE DEF m, a, b
<1>4. /\ a \o b \in Seq(Timers) /\ Len(a \o b) = Len(a) + 1
      /\ \A i \in 1..Len(a) + 1 : (a \o b)[i] = IF i <= Len(a) THEN a[i] ELSE b[i - Len(a)]
  <2>1. /\ a \o b \in Seq(Timers) /\ Len(a \o b) = Len(a) + Len(b)
        /\ \A i \in 1..Len(a) + Len(b) :
              (a \o b)[i] = IF i <= Len(a) THEN a[i] ELSE b[i - Len(a)]
    BY <1>3, ConcatProperties
  <2> QED BY <1>3, <2>1
<1>5. Len(a) \in Nat /\ DOMAIN (a \o b) = 1..Len(a) + 1
  BY <1>3, <1>4, LenProperties
<1>6. Len(a) + 1 \in DOMAIN (a \o b) /\ (a \o b)[Len(a) + 1] = Timer("Up")
  <2>1. \A n \in Nat : n + 1 \in 1..n + 1 /\ ~(n + 1 <= n) /\ (n + 1) - n = 1
    OBVIOUS
  <2> QED BY <1>3, <1>4, <1>5, <2>1
<1>7. Has(a \o b, Timer("Up"))
  BY <1>6 DEF Has
<1>8. Adds(q, a \o b, timers')
  BY <1>1, <1>4, SetTimersAdds
<1> QED BY <1>4, <1>7, <1>8, AddsFacts

\* Whether the debounce of Up is closed, where no Up is called.
LEMMA OtherGates ==
  ASSUME TypeInv
  PROVE  /\ ClickSave \/ ClickDelete \/ ClickAway => /\ ("Up" \in gates') <=> ("Up" \in gates)
                                                     /\ shift' = shift
         /\ LaunchStatistic \/ FadeStatistic \/ OpensDialog
              \/ (\E v \in Values \cup {Blank} : TypeFields(v))
              => (("Up" \in gates') <=> ("Up" \in gates)) /\ shift' = shift
         /\ \A c \in Columns : ScrollDown(c) => (("Up" \in gates') <=> ("Up" \in gates))
<1>1. \A its, before, after, closed :
         SaveAnd(its, before, after, closed) /\ "Up" \notin closed
           => (("Up" \in gates') <=> ("Up" \in gates))
  BY DEF SaveAnd
<1>2. ASSUME ClickSave
      PROVE  (("Up" \in gates') <=> ("Up" \in gates)) /\ shift' = shift
  <2>1. shift' = shift /\ (AddNewItem \/ SaveOldItem)
    BY <1>2 DEF ClickSave
  <2>2. (\E its, before : SaveAnd(its, before, <<>>, {})) \/ gates' = gates
    BY <2>1 DEF AddNewItem, SaveOldItem, Save
  <2> QED BY <1>1, <2>1, <2>2
<1>3. ASSUME ClickDelete
      PROVE  (("Up" \in gates') <=> ("Up" \in gates)) /\ shift' = shift
  <2>1. shift' = shift /\ \E its, before : SaveAnd(its, before, <<>>, {})
    BY <1>3 DEF ClickDelete, Save
  <2> QED BY <1>1, <2>1
<1>4. ASSUME LaunchStatistic
      PROVE  (("Up" \in gates') <=> ("Up" \in gates)) /\ shift' = shift
  <2>1. /\ shift' = shift
        /\ gates' = gates \/ SaveAnd(items, <<>>, <<Timer("launchStatistic")>>, {"launchStatistic"})
    BY <1>4 DEF LaunchStatistic
  <2> QED BY <1>1, <2>1
<1>5. ASSUME ClickAway \/ FadeStatistic \/ OpensDialog \/ \E v \in Values \cup {Blank} : TypeFields(v)
      PROVE  (("Up" \in gates') <=> ("Up" \in gates)) /\ shift' = shift
  <2>1. CASE ClickAway
    BY <2>1 DEF ClickAway
  <2>2. CASE FadeStatistic
    BY <2>2 DEF FadeStatistic
  <2>3. CASE OpensDialog
    BY <2>3 DEF OpensDialog, OpenAdd, ItemClick
  <2>4. CASE \E v \in Values \cup {Blank} : TypeFields(v)
    BY <2>4 DEF TypeFields
  <2> QED BY <1>5, <2>1, <2>2, <2>3, <2>4
<1>6. \A c \in Columns : ScrollDown(c) => (("Up" \in gates') <=> ("Up" \in gates))
  BY DEF ScrollDown, CallDown
<1> QED BY <1>2, <1>3, <1>4, <1>5, <1>6

\* Every step keeps a closed debounce of Up with its timer.
LEMMA GateStep ==
  ASSUME TypeInv, GateInv, [Next]_vars
  PROVE  GateInv'
<1>1. ASSUME ("Up" \in gates') <=> ("Up" \in gates),
             \A t : t.job = "Up" /\ Has(timers, t) => Has(timers', t)
      PROVE  GateInv'
  BY <1>1, PendingHas DEF GateInv
<1>2. CASE OtherClick
  <2>1. \A t : Has(timers, t) => Has(timers', t)
    BY <1>2, OtherClickQueue DEF OtherClick
  <2>2. CASE \E c \in Columns : ScrollUp(c)
    <3>1. PICK c \in Columns : CallUp(c, timers)
      BY <2>2 DEF ScrollUp
    <3>2. CASE "Up" \in gates
      <4>1. gates' = gates
        BY <3>1, <3>2 DEF CallUp
      <4> QED BY <1>1, <2>1, <4>1
    <3>3. CASE "Up" \notin gates
      <4>1. Has(timers', Timer("Up"))
        BY <3>1, <3>3, UpIsQueued DEF TypeInv
      <4> QED BY <4>1, PendingHas DEF GateInv, Timer
    <3> QED BY <3>2, <3>3
  <2>3. CASE ~\E c \in Columns : ScrollUp(c)
    <3>1. ("Up" \in gates') <=> ("Up" \in gates)
      BY <1>2, <2>3, OtherGates DEF OtherClick
    <3> QED BY <1>1, <2>1, <3>1
  <2> QED BY <2>2, <2>3
<1>3. CASE ClickSave /\ Refuses
  <2>1. ("Up" \in gates') <=> ("Up" \in gates)
    BY <1>3, OtherGates
  <2> QED BY <1>1, <1>3, <2>1 DEF Refuses
<1>4. CASE (ClickSave /\ Accepts) \/ ClickDelete \/ ClickAway
  <2>1. ("Up" \in gates') <=> ("Up" \in gates)
    BY <1>4, OtherGates
  <2>2. \A t : Has(timers, t) => Has(timers', t)
    BY <1>4, ClosingOrder
  <2> QED BY <1>1, <2>1, <2>2
<1>5. CASE Callback
  <2>1. timers # <<>> /\ \A t : Has(timers, t) /\ t # Head(timers) => Has(timers', t)
    BY <1>5, CallbackQueue
  <2>2. CASE TimePasses
    <3>1. CASE Head(timers).job = "Up"
      <4>1. "Up" \notin gates'
        BY <2>2, <3>1 DEF TimePasses, Fires
      <4> QED BY <4>1 DEF GateInv
    <3>2. CASE Head(timers).job # "Up"
      <4>1. ("Up" \in gates') <=> ("Up" \in gates)
        BY <2>2, <3>2 DEF TimePasses, Fires
      <4> QED BY <1>1, <2>1, <3>2, <4>1
    <3> QED BY <3>1, <3>2
  <2>3. CASE FollowRemoval
    <3>1. /\ Head(timers).col \in Columns /\ CallUp(Head(timers).col, Tail(timers))
          /\ Head(timers).job = "up" /\ Tail(timers) \in Seq(Timers)
      BY <2>1, <2>3, TailFacts DEF FollowRemoval, Fires, Timers
    <3>2. CASE "Up" \in gates
      <4>1. gates' = gates
        BY <3>1, <3>2 DEF CallUp
      <4> QED BY <1>1, <2>1, <3>1, <4>1
    <3>3. CASE "Up" \notin gates
      <4>1. \A c \in Columns, q \in Seq(Timers) : CallUp(c, q) => Has(timers', Timer("Up"))
        BY <3>3, UpIsQueued
      <4>2. Has(timers', Timer("Up"))
        BY <3>1, <4>1
      <4> QED BY <4>2, PendingHas DEF GateInv, Timer
    <3> QED BY <3>2, <3>3
  <2>4. CASE ResetFields \/ RunConvert \/ RemoveDiv
    <3>1. gates' = gates /\ Head(timers).job # "Up"
      BY <2>4 DEF ResetFields, RunConvert, RemoveDiv, Fires
    <3> QED BY <1>1, <2>1, <3>1
  <2> QED BY <1>5, <2>2, <2>3, <2>4 DEF Callback
<1>6. CASE UNCHANGED vars
  <2>1. UNCHANGED <<timers, gates>>
    BY <1>6 DEF vars
  <2> QED BY <1>1, <2>1
<1>7. CASE UserActs
  BY <1>2, <1>3, <1>4, <1>7, SaveCases DEF UserActs, OtherClick
<1> QED BY <1>5, <1>6, <1>7 DEF Next

\* Sliding never leaves the frame with a gap, if it had none.
LEMMA SlideInFrame ==
  ASSUME TypeInv, NEW c \in Columns, NEW q, CallUp(c, q) \/ CallDown(c, q)
  PROVE  /\ shift[c] <= Most(Len(list[c])) => shift'[c] <= Most(Len(list[c]))
         /\ CallUp(c, q) => shift'[c] = shift[c] \/ shift'[c] = shift[c] - 1
         /\ CallUp(c, q) /\ "Up" \notin gates /\ ~Moving(c) /\ Len(list[c]) >= Frame
              /\ shift[c] = Most(Len(list[c])) + 1 => shift'[c] = shift[c] - 1
         /\ \A e \in Columns \ {c} : shift'[e] = shift[e]
<1> DEFINE n == Len(list[c])
           s == shift[c]
<1>1. /\ n \in Nat /\ s \in Nat /\ Frame \in Nat /\ shift \in [Columns -> Nat]
      /\ arrows[c] \in BOOLEAN /\ (~arrows[c] => n <= Frame)
  BY ListFacts, Bounds DEF TypeInv, Columned, SignsMatchList
<1>2. Top(c) = s - (IF arrows[c] THEN n - Frame ELSE 0)
  BY DEF Top
<1>3. /\ Most(n) \in Nat /\ (n >= Frame => Most(n) = n - Frame) /\ (n <= Frame => Most(n) = 0)
  <2>1. n \in Int
    BY <1>1
  <2> HIDE DEF n
  <2> QED BY <2>1, MostFacts
<1>4. CASE CallUp(c, q)
  <2> DEFINE m == ~Moving(c) /\ Top(c) > Frame - Len(list[c])
  <2>1. \/ "Up" \in gates /\ shift' = shift
        \/ "Up" \notin gates /\ shift' = [shift EXCEPT ![c] = IF m THEN @ - 1 ELSE @]
    BY <1>4 DEF CallUp
  <2>2. /\ \A e \in Columns \ {c} : shift'[e] = shift[e]
        /\ shift'[c] = s \/ shift'[c] = s - 1
        /\ "Up" \notin gates /\ m => shift'[c] = s - 1
    <3> HIDE DEF m
    <3> QED BY <1>1, <2>1
  <2>3. s <= Most(n) => shift'[c] <= Most(n)
    <3> HIDE DEF n, s
    <3> QED BY <1>1, <1>3, <2>2
  <2>4. n >= Frame /\ s = Most(n) + 1 => Top(c) > Frame - n
    <3> HIDE DEF n, s
    <3> QED BY <1>1, <1>2, <1>3
  <2>5. CallUp(c, q) /\ "Up" \notin gates /\ ~Moving(c) /\ n >= Frame /\ s = Most(n) + 1
          => shift'[c] = s - 1
    BY <2>2, <2>4
  <2> QED BY <2>2, <2>3, <2>5
<1>5. CASE ~CallUp(c, q)
  <2> DEFINE m == ~Moving(c) /\ Top(c) < 0
  <2>1. \/ shift' = shift
        \/ shift' = [shift EXCEPT ![c] = IF m THEN @ + 1 ELSE @]
    BY <1>5 DEF CallDown
  <2>2. /\ \A e \in Columns \ {c} : shift'[e] = shift[e]
        /\ shift'[c] = s \/ (shift'[c] = s + 1 /\ Top(c) < 0)
    <3>1. m => Top(c) < 0
      OBVIOUS
    <3> HIDE DEF m
    <3> QED BY <1>1, <2>1, <3>1
  <2>3. s <= Most(n) => shift'[c] <= Most(n)
    <3> HIDE DEF n, s
    <3>1. Top(c) < 0 => s + 1 <= Most(n)
      BY <1>1, <1>2, <1>3
    <3> QED BY <2>2, <3>1
  <2> QED BY <1>5, <2>2, <2>3
<1> QED BY <1>4, <1>5

\* deleteItem with a slider that is one row too far down then: remove, Up and the end
\* of the fade fire in this order, and behind the Up of an earlier call.
LEMMA DeleteQueues ==
  ASSUME TypeInv, GateInv, ClickDelete, dialog.open,
         NearHead(dialog.col), Len(list[dialog.col]) > Frame
  PROVE  Queued(timers', "Up" \in gates', {dialog.id}, dialog.col)
<1> DEFINE c == dialog.col
           r == TimerForItem("remove", c, dialog.id)
           x == <<Timer("reset"), Timer("convert"), r>>
           y == <<TimerOf("up", c)>>
           a == x \o y
<1>0. c \in Columns /\ dialog.id \in Ids \cup {None} /\ timers \in Seq(Timers)
  BY DEF TypeInv, Dialogs
<1>1. Erasing(c) = a
  BY DEF Erasing
<1>2. /\ x \in Seq(Timers) /\ Len(x) = 3
      /\ x[1] = Timer("reset") /\ x[2] = Timer("convert") /\ x[3] = r
      /\ y \in Seq(Timers) /\ Len(y) = 1 /\ y[1] = TimerOf("up", c)
  <2>1. /\ Timer("reset") \in Timers /\ Timer("convert") \in Timers /\ r \in Timers
        /\ TimerOf("up", c) \in Timers
    BY <1>0, JobNames, TimerTypes
  <2> HIDE DEF r
  <2> QED BY <2>1
<1>3. /\ ~Pending("up") /\ ~PendingFor("slide", c) /\ Closes(Erasing(c))
  BY DEF ClickDelete, PointerArrived, Save, Erasing, Closes
<1> HIDE DEF x, y, c, r
<1>4. /\ a \in Seq(Timers) /\ Len(a) = 4
      /\ a[1] = Timer("reset") /\ a[2] = Timer("convert") /\ a[3] = r /\ a[4] = TimerOf("up", c)
  <2>1. /\ x \o y \in Seq(Timers) /\ Len(x \o y) = Len(x) + Len(y)
        /\ \A i \in 1..Len(x) + Len(y) : (x \o y)[i] = IF i <= Len(x) THEN x[i] ELSE y[i - Len(x)]
    <3>1. x \in Seq(Timers) /\ y \in Seq(Timers)
      BY <1>2
    <3> QED BY <3>1, ConcatProperties
  <2> QED BY <1>2, <2>1 DEF a
<1> HIDE DEF a
<1> DEFINE b == a \o Fading
<1>5. /\ b \in Seq(Timers) /\ DOMAIN b = 1..5
      /\ b[1] = Timer("reset") /\ b[2] = Timer("convert") /\ b[3] = r /\ b[4] = TimerOf("up", c)
      /\ b[5] = Timer("fade")
  <2>1. /\ Fading \in Seq(Timers) /\ Len(Fading) = 1 /\ Fading[1] = Timer("fade")
    BY FadeFacts
  <2>2. /\ a \o Fading \in Seq(Timers) /\ Len(a \o Fading) = Len(a) + Len(Fading)
        /\ \A i \in 1..Len(a) + Len(Fading) :
              (a \o Fading)[i] = IF i <= Len(a) THEN a[i] ELSE Fading[i - Len(a)]
    <3>1. a \in Seq(Timers) /\ Fading \in Seq(Timers)
      BY <1>4, <2>1
    <3> QED BY <3>1, ConcatProperties
  <2>3. DOMAIN b = 1..Len(b)
    BY <2>2, LenProperties
  <2> QED BY <1>4, <2>1, <2>2, <2>3
<1>6. PICK ts \in Seq(Timers) :
        /\ Adds(timers, ts, timers')
        /\ \A i \in DOMAIN b : i \in DOMAIN ts /\ ts[i] = b[i]
        /\ \A i \in DOMAIN ts : i \in DOMAIN b \/ ts[i] = Timer("save")
  BY <1>1, <1>3, <1>4, ClosingAdds
<1> HIDE DEF b
<1>7. PICK f, g : Merges(timers, ts, Len(ts), timers', f, g)
  BY <1>6 DEF Adds
<1>8. /\ DOMAIN timers = 1..Len(timers) /\ DOMAIN ts = 1..Len(ts) /\ DOMAIN timers' = 1..Len(timers')
  <2>1. timers' \in Seq(Timers)
    BY <1>7 DEF Merges
  <2> QED BY <1>0, <2>1, LenProperties
<1>9. /\ \A i \in DOMAIN timers : f[i] \in DOMAIN timers' /\ timers'[f[i]] = timers[i]
      /\ \A j \in DOMAIN ts : g[j] \in DOMAIN timers' /\ timers'[g[j]] = ts[j]
      /\ \A k \in DOMAIN timers' : \/ \E i \in DOMAIN timers : f[i] = k
                                   \/ \E j \in DOMAIN ts : g[j] = k
      /\ \A i \in DOMAIN timers, j \in DOMAIN ts : Due(timers[i]) <= Due(ts[j]) => f[i] < g[j]
      /\ \A j, h \in DOMAIN ts : j < h /\ Due(ts[j]) <= Due(ts[h]) => g[j] < g[h]
  BY <1>7, <1>8 DEF Merges
<1>10. /\ 3 \in DOMAIN ts /\ 4 \in DOMAIN ts /\ 5 \in DOMAIN ts
       /\ ts[3] = r /\ ts[4] = TimerOf("up", c) /\ ts[5] = Timer("fade")
       /\ \A j \in DOMAIN ts : /\ ts[j].job # "slide"
                               /\ ts[j].job = "up" => j = 4
  <2>1. \A j \in 1..5 : j = 1 \/ j = 2 \/ j = 3 \/ j = 4 \/ j = 5
    OBVIOUS
  <2>2. \A j \in DOMAIN ts : \/ j = 4 /\ ts[j] = TimerOf("up", c)
                             \/ ts[j] \in {Timer("reset"), Timer("convert"), r, Timer("fade"), Timer("save")}
    BY <1>5, <1>6, <2>1
  <2>3. \A t \in {Timer("reset"), Timer("convert"), r, Timer("fade"), Timer("save")} :
           t.job # "slide" /\ t.job # "up"
    BY DEF Timer, TimerForItem, r
  <2>4. TimerOf("up", c).job # "slide"
    BY DEF TimerOf
  <2> QED BY <1>5, <1>6, <2>2, <2>3, <2>4
<1>11. Due(ts[3]) = 300 /\ Due(ts[4]) = 300 /\ Due(ts[5]) = 316
  BY <1>10 DEF Due, Delay, Timer, TimerOf, TimerForItem, r
<1> DEFINE u == g[4]
<1>12. u \in DOMAIN timers' /\ timers'[u] = TimerOf("up", c)
  BY <1>9, <1>10
<1>13. \E k \in DOMAIN timers' : u < k /\ timers'[k].job = "fade"
  <2>1. g[4] < g[5] /\ timers'[g[5]] = Timer("fade")
    BY <1>9, <1>10, <1>11
  <2> QED BY <1>9, <1>10, <2>1 DEF Timer
<1>14. \A i \in {dialog.id} : \E k \in DOMAIN timers' : k < u /\ timers'[k] = TimerForItem("remove", c, i)
  <2>1. g[3] < g[4] /\ timers'[g[3]] = r
    BY <1>9, <1>10, <1>11
  <2> QED BY <1>9, <1>10, <2>1 DEF r
<1>15. ("Up" \in gates') => \E k \in DOMAIN timers' : k < u /\ timers'[k].job = "Up"
  <2> SUFFICES ASSUME "Up" \in gates'
               PROVE  \E k \in DOMAIN timers' : k < u /\ timers'[k].job = "Up"
    OBVIOUS
  <2>1. PICK i \in DOMAIN timers : timers[i].job = "Up"
    <3>1. "Up" \in gates
      BY OtherGates
    <3> QED BY <3>1 DEF GateInv, Pending
  <2>2. Due(timers[i]) = 300
    BY <2>1 DEF Due, Delay
  <2>3. f[i] < g[4]
    BY <1>9, <1>10, <1>11, <2>2
  <2> QED BY <1>9, <2>1, <2>3
<1>16. ASSUME NEW k \in DOMAIN timers', k < u
       PROVE  timers'[k].job # "up"
  <2>1. CASE \E i \in DOMAIN timers : f[i] = k
    BY <1>3, <1>9, <2>1 DEF Pending
  <2>2. CASE \E j \in DOMAIN ts : g[j] = k
    <3>1. PICK j \in DOMAIN ts : g[j] = k
      BY <2>2
    <3>2. j # 4
      BY <1>8, <1>12, <1>16, <3>1
    <3> QED BY <1>9, <1>10, <3>1, <3>2
  <2> QED BY <1>9, <2>1, <2>2
<1>17. ASSUME NEW k \in DOMAIN timers'
       PROVE  ~(timers'[k].job = "slide" /\ timers'[k].col = c)
  <2>1. CASE \E i \in DOMAIN timers : f[i] = k
    BY <1>3, <1>9, <2>1 DEF PendingFor
  <2>2. CASE \E j \in DOMAIN ts : g[j] = k
    BY <1>9, <1>10, <2>2
  <2> QED BY <1>9, <2>1, <2>2
<1> HIDE DEF u
<1>18. Queued(timers', "Up" \in gates', {dialog.id}, c)
  BY <1>12, <1>13, <1>14, <1>15, <1>16, <1>17 DEF Queued
<1> QED BY <1>18 DEF c

\* What leaves the lists as long as they are, and only sets timers, leaves the frames.
LEMMA FrameStays ==
  ASSUME TypeInv, FrameInv, ~late, Grows, shift' = shift, ("Up" \in gates') <=> ("Up" \in gates),
         NEW c \in Columns, Ghosts(c)' = Ghosts(c), Len(list'[c]) = Len(list[c])
  PROVE  Framed(c)'
<1>1. Live(c)' = Live(c) /\ ("Up" \in gates)' = ("Up" \in gates)
  BY DEF Live
<1>2. PICK ts \in Seq(Timers) : Adds(timers, ts, timers') /\ \A t : Has(ts, t) => t.job # "slide"
  BY DEF Grows
<1>3. Queued(timers, "Up" \in gates, Ghosts(c), c) => Queued(timers', "Up" \in gates, Ghosts(c), c)
  BY <1>2, QueuedAdds DEF TypeInv
<1>4. InFrame(c) => InFrame(c)'
  BY <1>1 DEF InFrame
<1>5. Follows(c) => Follows(c)'
  BY <1>1, <1>3 DEF Follows
<1> QED BY <1>4, <1>5 DEF FrameInv, Framed

\* Where nothing fades, every list fills its frame and none has a div that shrinks.
LEMMA UncoveredFrame ==
  ASSUME GhostInv, FrameInv, ~late, ~Pending("fade"), NEW c \in Columns
  PROVE  Ghosts(c) = {} /\ InFrame(c) /\ Live(c) = Len(list[c])
<1>1. Ghosts(c) = {}
  BY SureIsFading DEF GhostInv
<1>2. ~Follows(c)
  BY QueuedIsCovered DEF Follows
<1> QED BY <1>1, <1>2 DEF FrameInv, Framed, Live

\* Clicks outside the dialog find the lists in their frames, and leave them there.
LEMMA FrameOfOtherClick ==
  ASSUME TypeInv, DialogInv, GhostInv, FrameInv, ~late, OtherClick,
         UNCHANGED <<items, list>>, NEW c \in Columns
  PROVE  Framed(c)'
<1>1. ~Pending("fade")
  BY DEF OtherClick, ScrollUp, ScrollDown, OpensDialog, OpenAdd, ItemClick, LaunchStatistic,
         OnSettings, Covered, TypeFields, FadeStatistic, DialogInv
<1>2. Ghosts(c) = {} /\ InFrame(c) /\ Live(c) = Len(list[c])
  BY <1>1, UncoveredFrame
<1>3. Ghosts(c)' = {}
  BY <1>2 DEF Ghosts
<1>4. shift'[c] <= Most(Len(list[c]))
  <2>1. shift[c] <= Most(Len(list[c]))
    BY <1>2 DEF InFrame
  <2>2. CASE \E d \in Columns : ScrollUp(d) \/ ScrollDown(d)
    <3>1. PICK d \in Columns : CallUp(d, timers) \/ CallDown(d, timers)
      BY <2>2 DEF ScrollUp, ScrollDown
    <3>2. /\ shift[d] <= Most(Len(list[d])) => shift'[d] <= Most(Len(list[d]))
          /\ \A e \in Columns \ {d} : shift'[e] = shift[e]
      BY <3>1, SlideInFrame
    <3> QED BY <2>1, <3>2
  <2>3. CASE ~\E d \in Columns : ScrollUp(d) \/ ScrollDown(d)
    <3>1. shift' = shift
      BY <2>3, OtherGates DEF OtherClick
    <3> QED BY <2>1, <3>1
  <2> QED BY <2>2, <2>3
<1>5. InFrame(c)'
  BY <1>3, <1>4 DEF InFrame, Live
<1> QED BY <1>3, <1>5 DEF Framed

\* A dialog that closes without adding or removing an item.
LEMMA SameGhosts ==
  ASSUME TypeInv, TypeInv',
         \/ ClickSave /\ Accepts /\ dialog.mode = "edit"
         \/ ClickDelete /\ items' = items
         \/ ClickAway,
         NEW c \in Columns
  PROVE  Ghosts(c)' = Ghosts(c) /\ Len(list'[c]) = Len(list[c])
<1>1. /\ DOMAIN items'[c] = DOMAIN items[c] /\ DOMAIN list'[c] = DOMAIN list[c]
      /\ \A k \in DOMAIN list[c] : list'[c][k].id = list[c][k].id
  <2>1. CASE ClickSave /\ Accepts /\ dialog.mode = "edit"
    BY <2>1, EditEffect DEF TypeInv, Dialogs
  <2>2. CASE ClickDelete /\ items' = items
    BY <2>2 DEF ClickDelete
  <2>3. CASE ClickAway
    BY <2>3 DEF ClickAway, shown
  <2> QED BY <2>1, <2>2, <2>3
<1>2. Ghosts(c)' = Ghosts(c)
  BY <1>1, GhostsAre DEF Ghosts
<1>3. Len(list'[c]) = Len(list[c])
  <2>1. /\ Len(list[c]) \in Nat /\ DOMAIN list[c] = 1..Len(list[c])
        /\ Len(list'[c]) \in Nat /\ DOMAIN list'[c] = 1..Len(list'[c])
    BY ListFacts DEF TypeInv
  <2>2. \A m, n \in Nat : 1..m = 1..n => m = n
    OBVIOUS
  <2> QED BY <1>1, <2>1, <2>2
<1> QED BY <1>2, <1>3

\* A new item at the end of a list leaves it in its frame.
LEMMA FrameOfAdd ==
  ASSUME TypeInv, TypeInv', DialogInv, GhostInv, FrameInv, ~late, ~late',
         late' = (late \/ (~dialog.open /\ items' # items)),
         ClickSave, Accepts, dialog.mode = "add", NEW c \in Columns
  PROVE  Framed(c)'
<1>1. /\ NewId(dialog.col) \notin DOMAIN items[dialog.col]
      /\ NewId(dialog.col) \in DOMAIN items'[dialog.col]
  <2>1. /\ \A i \in DOMAIN items[dialog.col] : i < NewId(dialog.col)
        /\ DOMAIN items'[dialog.col] = DOMAIN items[dialog.col] \cup {NewId(dialog.col)}
        /\ NewId(dialog.col) \in Ids
    BY AddEffect
  <2>2. DOMAIN items[dialog.col] \in SUBSET Nat
    BY ItemsFacts DEF TypeInv, Dialogs
  <2>3. \A i \in Nat : ~(i < i)
    OBVIOUS
  <2> QED BY <2>1, <2>2, <2>3
<1>2. dialog.open
  BY <1>1
<1>3. Ghosts(c) = {} /\ InFrame(c) /\ Live(c) = Len(list[c])
  BY <1>2, UncoveredFrame DEF DialogInv
<1>4. Ghosts(c)' = {}
  <2>1. ~ClickDelete
    BY DEF ClickDelete
  <2> QED BY <1>3, <2>1, ClosingGhosts
<1>5. Len(list[c]) \in Nat /\ Len(list'[c]) \in Nat /\ Len(list[c]) <= Len(list'[c])
  <2>1. /\ Len(list[c]) \in Nat /\ Len(list'[c]) \in Nat
        /\ DOMAIN list'[c] = 1..Len(list'[c])
    BY ListFacts DEF TypeInv
  <2>2. \/ c # dialog.col /\ list'[c] = list[c]
        \/ c = dialog.col /\ DOMAIN list'[c] = 1..Len(list[c]) + 1
    BY AddEffect
  <2>3. \A m, n \in Nat : 1..m = 1..n + 1 => n <= m
    <3> SUFFICES ASSUME NEW m \in Nat, NEW n \in Nat, 1..m = 1..n + 1
                 PROVE  n <= m
      OBVIOUS
    <3>1. n + 1 \in 1..m
      OBVIOUS
    <3> QED BY <3>1
  <2> QED BY <2>1, <2>2, <2>3
<1>6. shift' = shift /\ shift[c] \in Nat
  BY OtherGates, LiveType
<1>7. InFrame(c)'
  <2>1. shift[c] <= Most(Len(list[c]))
    BY <1>3 DEF InFrame
  <2>2. /\ Most(Len(list[c])) <= Most(Len(list'[c]))
        /\ Most(Len(list[c])) \in Nat /\ Most(Len(list'[c])) \in Nat
    <3>1. Len(list[c]) \in Int /\ Len(list'[c]) \in Int
      BY <1>5
    <3> QED BY <1>5, <3>1, MostFacts
  <2>3. shift'[c] <= Most(Len(list'[c]))
    BY <1>6, <2>1, <2>2
  <2>4. Live(c)' = Len(list'[c])
    BY <1>4 DEF Live
  <2> QED BY <2>3, <2>4 DEF InFrame
<1> QED BY <1>4, <1>7 DEF Framed

\* deleteItem of an open dialog: the list stays in its frame, or gets an Up behind
\* the removal of the div.
LEMMA FrameOfDelete ==
  ASSUME TypeInv, TypeInv', DialogInv, GateInv, GhostInv, FrameInv, ~late,
         ClickDelete, dialog.open, NEW c \in Columns, c = dialog.col
  PROVE  Framed(c)'
<1> DEFINE n == Len(list[c])
           s == shift[c]
<1>1. /\ c \in Columns /\ Ghosts(c) = {} /\ InFrame(c) /\ Live(c) = n
  BY UncoveredFrame DEF DialogInv
<1>2. /\ shift' = shift /\ list' = list
      /\ Ghosts(c)' \subseteq {dialog.id}
  <2>1. Ghosts(c)' \subseteq {dialog.id}
    BY <1>1, ClosingGhosts
  <2>2. list' = list
    BY DEF ClickDelete
  <2> QED BY <2>1, <2>2, OtherGates
<1>3. /\ n \in Nat /\ s \in Nat /\ Frame \in Nat /\ s <= Most(n)
      /\ (n >= Frame => Most(n) = n - Frame) /\ (n <= Frame => Most(n) = 0)
      /\ (n - 1 >= Frame => Most(n - 1) = n - 1 - Frame)
      /\ Most(n - 1) \in Nat /\ Most(n) \in Nat
  <2>1. n \in Nat /\ s \in Nat /\ s <= Most(n) /\ Frame \in Nat
    BY <1>1, LiveType, Bounds DEF InFrame
  <2> HIDE DEF n, s
  <2>2. n \in Int /\ n - 1 \in Int
    BY <2>1
  <2> QED BY <2>1, <2>2, MostFacts
<1>4. CASE Ghosts(c)' = {}
  <2>1. shift'[c] <= Most(Len(list'[c]))
    BY <1>2, <1>3
  <2> QED BY <1>4, <2>1 DEF Framed, InFrame, Live
<1>5. CASE Ghosts(c)' # {}
  <2>1. Ghosts(c)' = {dialog.id}
    BY <1>2, <1>5
  <2>2. Live(c)' = n - 1
    BY <1>2, <1>5 DEF Live
  <2>3. CASE s <= Most(n - 1)
    <3>1. InFrame(c)'
      BY <1>2, <2>2, <2>3 DEF InFrame
    <3> QED BY <2>1, <3>1 DEF Framed
  <2>4. CASE ~(s <= Most(n - 1))
    <3>1. n > Frame /\ s = n - Frame
      <4> HIDE DEF n, s
      <4> QED BY <1>3, <2>4
    <3>2. arrows[c] /\ arrows[c] \in BOOLEAN
      <4>1. arrows \in [Columns -> BOOLEAN] /\ (~arrows[c] => n <= Frame)
        BY <1>1 DEF TypeInv, SignsMatchList, Columned
      <4>2. ~(n <= Frame)
        <5> HIDE DEF n
        <5> QED BY <1>3, <3>1
      <4> QED BY <1>1, <4>1, <4>2
    <3>3. Top(c) = 0
      <4>1. Top(c) = s - (n - Frame)
        BY <3>2 DEF Top
      <4> HIDE DEF n, s
      <4> QED BY <1>3, <3>1, <4>1
    <3>4. NearHead(c)
      BY <1>1, <3>3, FS_EmptySet DEF NearHead
    <3>5. Queued(timers', "Up" \in gates', {dialog.id}, c)
      BY <3>1, <3>4, DeleteQueues
    <3>6. shift'[c] <= Most(n - 1) + 1 /\ n - 1 >= Frame
      <4>1. s <= Most(n - 1) + 1 /\ n - 1 >= Frame
        <5> HIDE DEF n, s
        <5> QED BY <1>3, <3>1
      <4> QED BY <1>2, <4>1
    <3>7. Follows(c)'
      BY <2>1, <2>2, <3>5, <3>6 DEF Follows
    <3> QED BY <2>1, <3>7 DEF Framed
  <2> QED BY <2>3, <2>4
<1> QED BY <1>4, <1>5

\* The end of a removal takes the div that shrinks, the only one of its column.
LEMMA FrameOfRemove ==
  ASSUME TypeInv, TypeInv', DomInv, FrameInv, ~late, RemoveDiv, NEW c \in Columns
  PROVE  Framed(c)'
<1> DEFINE h == Head(timers)
<1>1. /\ timers # <<>> /\ h.job = "remove" /\ timers' = Tail(timers)
      /\ items' = items /\ shift' = shift /\ gates' = gates
  BY DEF RemoveDiv, Fires
<1>2. Framed(c)
  BY DEF FrameInv
<1>3. /\ h.col \in Columns /\ h = TimerForItem("remove", h.col, h.id)
      /\ \A e \in Columns \ {h.col} : list'[e] = list[e]
  <2>1. h.col \in Columns
    BY <1>1, TailFacts DEF Timers
  <2>2. Shown(items, list, timers, Head(timers).col)
    BY <2>1 DEF DomInv
  <2> QED BY <2>2, RemoveEffect
<1>4. ASSUME NEW S, S \subseteq Ghosts(c), \A i \in S : h # TimerForItem("remove", c, i),
             Ghosts(c)' = S, Live(c)' = Live(c)
      PROVE  Framed(c)'
  <2>1. \A i, j \in Ghosts(c)' : i = j
    BY <1>2, <1>4 DEF Framed
  <2>2. InFrame(c) => InFrame(c)'
    BY <1>1, <1>4 DEF InFrame
  <2>3. ASSUME Follows(c)
        PROVE  Follows(c)'
    <3>1. Queued(Tail(timers), "Up" \in gates, S, c)
      <4>1. Queued(timers, "Up" \in gates, Ghosts(c), c)
        BY <2>3 DEF Follows
      <4> QED BY <1>1, <1>4, <4>1, QueuedTail
    <3> QED BY <1>1, <1>4, <2>3, <3>1 DEF Follows
  <2> QED BY <1>2, <2>1, <2>2, <2>3 DEF Framed
<1>5. CASE c # h.col
  <2>1. Ghosts(c)' = Ghosts(c) /\ Live(c)' = Live(c)
    BY <1>1, <1>3, <1>5 DEF Ghosts, Live
  <2>2. \A i : h # TimerForItem("remove", c, i)
    BY <1>3, <1>5, RemoveTimers
  <2> HIDE DEF h
  <2> QED BY <1>4, <2>1, <2>2
<1>6. CASE c = h.col
  <2>1. /\ \A k \in DOMAIN list'[c] : \E m \in DOMAIN list[c] :
              list'[c][k] = list[c][m] /\ list[c][m].id # h.id
        /\ \A m \in DOMAIN list[c] : list[c][m].id # h.id =>
              \E k \in DOMAIN list'[c] : list'[c][k] = list[c][m]
        /\ Len(list'[c]) = IF \E m \in DOMAIN list[c] : list[c][m].id = h.id
                             THEN Len(list[c]) - 1 ELSE Len(list[c])
    <3>1. Shown(items, list, timers, Head(timers).col)
      BY <1>3 DEF DomInv
    <3> QED BY <1>6, <3>1, RemoveEffect
  <2>2. h.id \notin DOMAIN items[c]
    <3>1. 1 \in DOMAIN timers /\ timers[1] = h /\ h.id \in Ids \cup {None}
      BY <1>1, TailFacts DEF Timers
    <3>2. Has(timers, TimerForItem("remove", c, h.id))
      BY <1>3, <1>6, <3>1 DEF Has
    <3> QED BY <3>1, <3>2 DEF DomInv
  <2>3. Ghosts(c)' = Ghosts(c) \ {h.id}
    <3> DEFINE old == {list[c][k].id : k \in DOMAIN list[c]}
               new == {list'[c][k].id : k \in DOMAIN list'[c]}
    <3>1. Ghosts(c)' = new \ DOMAIN items[c] /\ Ghosts(c) = old \ DOMAIN items[c]
      BY <1>1, GhostsAre DEF Ghosts
    <3>2. ASSUME NEW x \in new
          PROVE  x \in old \ {h.id}
      <4>1. PICK k \in DOMAIN list'[c] : x = list'[c][k].id
        BY <3>2
      <4>2. PICK m \in DOMAIN list[c] : list'[c][k] = list[c][m] /\ list[c][m].id # h.id
        BY <2>1
      <4> QED BY <4>1, <4>2
    <3>3. ASSUME NEW x \in old \ {h.id}
          PROVE  x \in new
      <4>1. PICK m \in DOMAIN list[c] : x = list[c][m].id
        BY <3>3
      <4>2. PICK k \in DOMAIN list'[c] : list'[c][k] = list[c][m]
        BY <2>1, <3>3, <4>1
      <4> QED BY <4>1, <4>2
    <3> HIDE DEF old, new, h
    <3> QED BY <3>1, <3>2, <3>3
  <2>4. \A i \in Ghosts(c) \ {h.id} : h # TimerForItem("remove", c, i)
    BY <1>3, RemoveTimers
  <2>5. Live(c)' = Live(c)
    <3>1. Live(c)' = IF Ghosts(c) \ {h.id} = {} THEN Len(list'[c]) ELSE Len(list'[c]) - 1
      BY <2>3 DEF Live
    <3>2. CASE \E m \in DOMAIN list[c] : list[c][m].id = h.id
      <4>1. h.id \in Ghosts(c)
        BY <2>2, <3>2 DEF Ghosts
      <4>2. Ghosts(c) \ {h.id} = {} /\ Ghosts(c) # {}
        BY <1>2, <4>1 DEF Framed
      <4> QED BY <2>1, <3>1, <3>2, <4>2 DEF Live
    <3>3. CASE ~\E m \in DOMAIN list[c] : list[c][m].id = h.id
      <4>1. Ghosts(c) \ {h.id} = Ghosts(c)
        BY <3>3 DEF Ghosts
      <4> QED BY <2>1, <3>1, <3>3, <4>1 DEF Live
    <3> QED BY <3>2, <3>3
  <2> HIDE DEF h
  <2> QED BY <1>4, <2>3, <2>4, <2>5
<1> QED BY <1>5, <1>6

\* What fires before the Up and takes no div keeps it coming.
LEMMA FrameOfPassing ==
  ASSUME TypeInv, FrameInv, ~late, ResetFields \/ RunConvert \/ TimePasses,
         UNCHANGED items, NEW c \in Columns
  PROVE  Framed(c)'
<1> DEFINE h == Head(timers)
<1>1. /\ timers # <<>> /\ h.job \notin {"up", "remove"} /\ timers' = Tail(timers)
      /\ list' = list /\ shift' = shift
      /\ ("Up" \in gates') => ("Up" \in gates) /\ h.job # "Up"
  <2>1. CASE ResetFields \/ RunConvert
    BY <2>1 DEF ResetFields, RunConvert, Fires, shown
  <2>2. CASE TimePasses
    BY <2>2 DEF TimePasses, Fires, Debounced, shown
  <2> QED BY <2>1, <2>2
<1>2. Ghosts(c)' = Ghosts(c) /\ Live(c)' = Live(c)
  BY <1>1 DEF Ghosts, Live
<1>3. Framed(c)
  BY DEF FrameInv
<1>4. InFrame(c) => InFrame(c)'
  BY <1>1, <1>2 DEF InFrame
<1>5. ASSUME Follows(c)
      PROVE  Follows(c)'
  <2>1. Queued(timers, "Up" \in gates, Ghosts(c), c)
    BY <1>5 DEF Follows
  <2>2. \A i : h # TimerForItem("remove", c, i)
    BY <1>1, RemoveTimers
  <2>3. Queued(Tail(timers), "Up" \in gates', Ghosts(c), c)
    BY <1>1, <2>1, <2>2, QueuedTail
  <2> QED BY <1>1, <1>2, <1>5, <2>3 DEF Follows
<1> QED BY <1>2, <1>3, <1>4, <1>5 DEF Framed

\* The Up that follows a removal moves the list back into its frame.
LEMMA FrameOfFollow ==
  ASSUME TypeInv, FrameInv, ~late, FollowRemoval, NEW c \in Columns
  PROVE  Framed(c)'
<1> DEFINE d == Head(timers).col
<1>1. /\ timers # <<>> /\ Head(timers).job = "up" /\ d \in Columns
      /\ CallUp(d, Tail(timers)) /\ items' = items /\ list' = list
  <2>1. timers # <<>> /\ Head(timers).job = "up" /\ items' = items /\ list' = list
    BY DEF FollowRemoval, Fires, shown
  <2> QED BY <2>1, TailFacts DEF FollowRemoval, Timers
<1>2. Framed(c)
  BY DEF FrameInv
<1>3. Ghosts(c)' = Ghosts(c) /\ Live(c)' = Live(c)
  BY <1>1 DEF Ghosts, Live
<1>4. Live(c) \in Int /\ shift[c] \in Nat /\ Most(Live(c)) \in Nat
  BY LiveType
<1> HIDE DEF d
<1>5. /\ shift[d] <= Most(Len(list[d])) => shift'[d] <= Most(Len(list[d]))
      /\ shift'[d] = shift[d] \/ shift'[d] = shift[d] - 1
      /\ "Up" \notin gates /\ ~Moving(d) /\ Len(list[d]) >= Frame
              /\ shift[d] = Most(Len(list[d])) + 1 => shift'[d] = shift[d] - 1
      /\ \A e \in Columns \ {d} : shift'[e] = shift[e]
  BY <1>1, SlideInFrame
<1>6. InFrame(c) => InFrame(c)'
  <2>1. shift'[c] = shift[c] \/ shift'[c] = shift[c] - 1
    BY <1>5
  <2> QED BY <1>3, <1>4, <2>1 DEF InFrame
<1>7. ASSUME Follows(c)
      PROVE  InFrame(c)'
  <2>1. d = c /\ Ghosts(c) = {} /\ "Up" \notin gates /\ ~PendingFor("slide", c)
    <3>1. Queued(timers, "Up" \in gates, Ghosts(c), c)
      BY <1>7 DEF Follows
    <3> QED BY <1>1, <3>1, QueuedHead DEF d
  <2>2. ~Moving(c) /\ Live(c) = Len(list[c])
    BY <2>1 DEF Moving, Live
  <2>3. shift[c] <= Most(Len(list[c])) + 1 /\ Len(list[c]) >= Frame
    BY <1>7, <2>2 DEF Follows
  <2>4. shift'[c] <= Most(Len(list[c]))
    <3>1. CASE shift[c] <= Most(Len(list[c]))
      BY <1>5, <2>1, <3>1
    <3>2. CASE ~(shift[c] <= Most(Len(list[c])))
      <4>1. shift[c] = Most(Len(list[c])) + 1
        BY <1>4, <2>2, <2>3, <3>2
      <4>2. shift'[c] = shift[c] - 1
        BY <1>5, <2>1, <2>2, <2>3, <4>1
      <4> QED BY <1>4, <2>2, <4>1, <4>2
    <3> QED BY <3>1, <3>2
  <2> QED BY <1>3, <2>2, <2>4 DEF InFrame
<1> QED BY <1>2, <1>3, <1>6, <1>7 DEF Framed

\* Every step keeps the lists in their frames, or an Up on its way.
LEMMA FrameStep ==
  ASSUME TypeInv, TypeInv', DialogInv, DomInv, GateInv, GhostInv, FrameInv, [Next]_vars
  PROVE  FrameInv'
<1> SUFFICES ASSUME ~late', NEW c \in Columns
             PROVE  Framed(c)'
  BY DEF FrameInv
<1>1. CASE OtherClick /\ UNCHANGED <<items, list>> /\ late' = late
  BY <1>1, FrameOfOtherClick
<1>2. CASE ClickSave /\ Refuses /\ late' = late
  <2>1. /\ Grows /\ items' = items /\ list' = list
        /\ shift' = shift /\ (("Up" \in gates') <=> ("Up" \in gates))
    BY <1>2, OtherGates DEF Refuses
  <2>2. Ghosts(c)' = Ghosts(c) /\ Len(list'[c]) = Len(list[c])
    BY <2>1 DEF Ghosts
  <2> QED BY <1>2, <2>1, <2>2, FrameStays
<1>3. CASE /\ (ClickSave /\ Accepts) \/ ClickDelete \/ ClickAway
           /\ late' = (late \/ (~dialog.open /\ items' # items))
  <2>1. /\ ~late /\ Grows
        /\ shift' = shift /\ (("Up" \in gates') <=> ("Up" \in gates))
    BY <1>3, OtherGates, ClosingOrder
  <2>2. CASE Ghosts(c)' = Ghosts(c) /\ Len(list'[c]) = Len(list[c])
    BY <2>1, <2>2, FrameStays
  <2>3. CASE \/ ClickSave /\ Accepts /\ dialog.mode = "edit"
             \/ ClickDelete /\ items' = items
             \/ ClickAway
    BY <2>2, <2>3, SameGhosts
  <2>4. CASE ClickSave /\ Accepts /\ dialog.mode = "add"
    BY <1>3, <2>1, <2>4, FrameOfAdd
  <2>5. CASE ClickDelete /\ items' # items
    <3>1. dialog.open
      BY <1>3, <2>5
    <3>2. CASE c = dialog.col
      BY <2>1, <2>5, <3>1, <3>2, FrameOfDelete
    <3>3. CASE c # dialog.col
      <4>1. list' = list /\ items'[c] = items[c]
        BY <2>5, <3>3, EraseEffect
      <4> QED BY <2>2, <4>1 DEF Ghosts
    <3> QED BY <3>2, <3>3
  <2>6. dialog.mode \in {"add", "edit"}
    BY DEF TypeInv, Dialogs
  <2> QED BY <1>3, <2>3, <2>4, <2>5, <2>6
<1>4. CASE Callback /\ late' = late /\ UNCHANGED items
  BY <1>4, FrameOfRemove, FrameOfPassing, FrameOfFollow DEF Callback
<1>5. CASE UNCHANGED <<items, list, shift, timers, gates, late>>
  <2>1. Ghosts(c)' = Ghosts(c) /\ Live(c)' = Live(c)
    BY <1>5 DEF Ghosts, Live
  <2>2. Framed(c)
    BY <1>5 DEF FrameInv
  <2> QED BY <1>5, <2>1, <2>2 DEF Framed, InFrame, Follows
<1> QED BY <1>1, <1>2, <1>3, <1>4, <1>5, Steps

\* The page starts with every list in its frame.
LEMMA FrameInit == Init => GateInv /\ FrameInv
<1> SUFFICES ASSUME Init
             PROVE  GateInv /\ FrameInv
  OBVIOUS
<1>1. gates = {}
  BY DEF Init
<1>2. ASSUME NEW c \in Columns
      PROVE  Framed(c)
  <2>1. Ghosts(c) = {}
    BY DEF Init, Ghosts
  <2>2. shift[c] <= SetMax({0, Len(list[c]) - Frame}) /\ Len(list[c]) \in Nat
    BY InitTypes, ListFacts DEF Init
  <2>3. InFrame(c)
    BY <2>1, <2>2, MostOfList DEF InFrame, Live
  <2> QED BY <2>1, <2>3 DEF Framed
<1> QED BY <1>1, <1>2 DEF GateInv, FrameInv

\* The lists stay in their frames, or get an Up.
LEMMA FrameInvHolds == Spec => [](GateInv /\ FrameInv)
BY FrameInit, GateStep, FrameStep, TypeInvHolds, DialogInvHolds, DomInvHolds, GhostInvHolds,
   PTL DEF Spec

\* Once a removal is over, the list leaves no gap in its frame: whoever clicks and
\* scrolls while the div shrinks, the Up that deleteItem sets finds its debounce open
\* and the slider at rest, unless a fading dialog removed an item.
THEOREM ListsFillTheFrame == Spec => []ListFillsFrame
<1>1. TypeInv /\ GhostInv /\ FrameInv => ListFillsFrame
  <2> SUFFICES ASSUME TypeInv, GhostInv, FrameInv, ~late,
                      NEW c \in Columns, ~PendingFor("remove", c), ~PendingFor("up", c)
               PROVE  shift[c] <= SetMax({0, Len(list[c]) - Frame})
    BY DEF ListFillsFrame
  <2>1. Ghosts(c) = {}
    <3>1. \A i : ~Has(timers, TimerForItem("remove", c, i))
      BY DEF Has, PendingFor, TimerForItem
    <3>2. \A i \in Ghosts(c) : Has(timers, TimerForItem("remove", c, i))
      BY SureIsFading DEF GhostInv
    <3> QED BY <3>1, <3>2
  <2>2. ~Follows(c)
    BY QueuedIsCovered DEF Follows
  <2>3. InFrame(c)
    BY <2>2 DEF FrameInv, Framed
  <2>4. Len(list[c]) \in Nat
    BY ListFacts
  <2> QED BY <2>1, <2>3, <2>4, MostOfList DEF InFrame, Live
<1> QED BY <1>1, TypeInvHolds, GhostInvHolds, FrameInvHolds, PTL

=============================================================================
