------------------------- MODULE SequenceEngineProofs -------------------------
(***************************************************************************)
(* What the engine answers, for every sequence, every window and every     *)
(* limit: the theorems about the properties of MCSequenceEngine.           *)
(*                                                                         *)
(* A fold is unrolled by induction.  The library's induction theorems take *)
(* an operator; that every set of natural numbers has a least element does *)
(* not, and Induction follows from it, with a set for what is to hold.     *)
(***************************************************************************)
EXTENDS MCSequenceEngine, FiniteSetTheorems, WellFoundedInduction, TLAPS

-----------------------------------------------------------------------------
\* Induction, and division.

\* What holds of 0, and of n + 1 wherever it holds of n, holds of every number.
LEMMA Induction ==
  ASSUME NEW S, 0 \in S, \A n \in Nat : n \in S => n + 1 \in S
  PROVE  Nat \subseteq S
<1>1. SUFFICES ASSUME Nat \ S # {}
               PROVE  FALSE
  OBVIOUS
<1>2. PICK x \in Nat \ S : \A y \in Nat \ S : <<y, x>> \notin OpToRel(<, Nat)
  <2>1. Nat \ S \subseteq Nat
    OBVIOUS
  <2>2. QED
    BY <1>1, <2>1, WFMin, NatLessThanWellFounded
<1>3. \A y \in Nat \ S : ~(y < x)
  BY <1>2 DEF OpToRel
<1>4. x - 1 \in Nat /\ x - 1 < x
  OBVIOUS
<1>5. QED
  BY <1>3, <1>4

\* What is up to m + 1, and what is left without it.
LEMMA Upto ==
  ASSUME NEW m \in Nat
  PROVE  /\ m + 1 \in 1..(m + 1) /\ (1..(m + 1)) \ {m + 1} = 1..m
         /\ \A T \in SUBSET (1..(m + 1)) :
              T \ {m + 1} \in SUBSET (1..m) /\ (m + 1 \notin T => T \in SUBSET (1..m))
         /\ \A n \in Nat : m + 1 <= n => 1..(m + 1) \in SUBSET (1..n)
<1>1. \A x : x \in 1..(m + 1) <=> x \in 1..m \/ x = m + 1
  OBVIOUS
<1>2. m + 1 \notin 1..m
  OBVIOUS
<1>3. ASSUME NEW n \in Nat, m + 1 <= n
      PROVE  1..(m + 1) \in SUBSET (1..n)
  BY <1>3
<1>4. QED
  BY <1>1, <1>2, <1>3

\* The visit after one visit is the next step, or the first of the next cycle.
LEMMA NextVisit ==
  ASSUME NEW L \in Nat \ {0}, NEW k \in Nat
  PROVE  /\ k \div L \in Nat /\ k % L \in 0..(L - 1)
         /\ (k + 1) % L = (IF k % L = L - 1 THEN 0 ELSE (k % L) + 1)
         /\ (k + 1) \div L = (IF k % L = L - 1 THEN k \div L + 1 ELSE k \div L)
  OBVIOUS

\* The visit one cycle on is of the same step.
LEMMA SameStep ==
  ASSUME NEW L \in Nat \ {0}, NEW k \in Nat
  PROVE  (k + L) % L = k % L
<1> DEFINE q == k \div L   r == k % L   x == (k + L) \div L   y == (k + L) % L
<1>1. q \in Nat /\ x \in Nat /\ r \in 0..(L - 1) /\ y \in 0..(L - 1)
  OBVIOUS
<1>2. k = (L * q) + r /\ k + L = (L * x) + y
  OBVIOUS
<1> HIDE DEF q, r, x, y
<1>3. L * (q + 1) = L * q + L
  BY <1>1
<1>4. CASE x = q + 1
  BY <1>1, <1>2, <1>3, <1>4 DEF r, y
<1>5. CASE x > q + 1
  <2>1. PICK z \in Nat : x = q + 2 + z
    BY <1>1, <1>5
  <2>2. L * x = L * q + L + L + L * z /\ L * z >= 0
    BY <1>1, <2>1
  <2>3. QED
    BY <1>1, <1>2, <2>2
<1>6. CASE x < q + 1
  <2>1. PICK z \in Nat : q = x + z
    BY <1>1, <1>6
  <2>2. L * q = L * x + L * z /\ L * z >= 0
    BY <1>1, <2>1
  <2>3. QED
    BY <1>1, <1>2, <2>2
<1>7. QED
  BY <1>1, <1>4, <1>5, <1>6

\* As many whole cycles as it takes, and the number of the last of them.
LEMMA RoundUp ==
  ASSUME NEW L \in Nat \ {0}, NEW n \in Nat \ {0}
  PROVE  /\ (n - 1) \div L \in Nat /\ (n + L - 1) \div L = 1 + ((n - 1) \div L)
         /\ n <= ((n + L - 1) \div L) * L
  OBVIOUS

LEMMA Exactly ==
  ASSUME NEW L \in Nat \ {0}, NEW n \in Nat \ {0}
  PROVE  /\ L * n = n * L /\ L * n \in Nat \ {0}
         /\ 1 + (((L * n) - 1) \div L) = n
<1>1. PICK q \in Nat : n = q + 1
  <2>1. n - 1 \in Nat /\ n = (n - 1) + 1
    OBVIOUS
  <2>2. QED
    BY <2>1
<1>2. L * n = (L * q) + L /\ L * q \in Nat
  BY <1>1
<1>3. ((L * q) + (L - 1)) \div L = q
  OBVIOUS
<1>4. (L * n) - 1 = (L * q) + (L - 1)
  BY <1>2
<1>5. QED
  BY <1>1, <1>2, <1>3, <1>4

-----------------------------------------------------------------------------
\* The length of a chain does not depend on the order of its rows.

Step == [position : Nat \ {0}, duration : Nat \ {0}]
Steps(n) == [1..n -> Step]

\* sum is the sum over any set of the first n rows, as the fold takes it: the last first.
SumsTo(sum, rows, n) ==
  sum = [S \in SUBSET (1..n) |->
           IF S = {} THEN 0 ELSE sum[S \ {Max(S)}] + rows[Max(S)].duration]

\* Which of them was taken last makes no difference to a sum.
Additive(sum, rows, n) ==
  \A T \in SUBSET (1..n) :
    /\ sum[T] \in Nat
    /\ \A k \in T : sum[T] = sum[T \ {k}] + rows[k].duration

LEMMA LastOf ==
  ASSUME NEW n \in Nat, NEW S \in SUBSET (1..n), n \in S
  PROVE  Max(S) = n
<1>1. \A x \in S : (\A y \in S : x >= y) <=> x = n
  OBVIOUS
<1>2. QED
  BY <1>1 DEF Max

LEMMA SumExists ==
  ASSUME NEW rows, NEW n \in Nat
  PROVE  \E sum : SumsTo(sum, rows, n)
<1> DEFINE S == {m \in Nat : \E sum : SumsTo(sum, rows, m)}
<1>1. 0 \in S
  <2>1. SumsTo([T \in {{}} |-> 0], rows, 0)
    BY DEF SumsTo
  <2>2. QED
    BY <2>1
<1>2. ASSUME NEW m \in Nat, m \in S
      PROVE  m + 1 \in S
  <2>1. PICK sum : SumsTo(sum, rows, m)
    BY <1>2
  <2> DEFINE more == [T \in SUBSET (1..(m + 1)) |->
                        IF m + 1 \notin T THEN sum[T]
                        ELSE sum[T \ {m + 1}] + rows[m + 1].duration]
  <2>2. ASSUME NEW T \in SUBSET (1..(m + 1))
        PROVE  more[T] = IF T = {} THEN 0 ELSE more[T \ {Max(T)}] + rows[Max(T)].duration
    <3>1. CASE m + 1 \notin T
      <4> DEFINE U == T \ {Max(T)}
      <4>1. T \in SUBSET (1..m) /\ U \in SUBSET (1..(m + 1)) /\ m + 1 \notin U
        BY <3>1, Upto
      <4>2. more[T] = sum[T] /\ more[U] = sum[U]
        BY <4>1, <3>1
      <4>3. QED
        BY <2>1, <4>1, <4>2 DEF SumsTo
    <3>2. CASE m + 1 \in T
      <4>1. Max(T) = m + 1
        BY <3>2, LastOf
      <4>2. T \ {m + 1} \in SUBSET (1..(m + 1)) /\ m + 1 \notin T \ {m + 1}
        OBVIOUS
      <4>3. QED
        BY <3>2, <4>1, <4>2
    <3>3. QED
      BY <3>1, <3>2
  <2>3. SumsTo(more, rows, m + 1)
    BY <2>2 DEF SumsTo
  <2>4. QED
    BY <2>3
<1> HIDE DEF S
<1>3. n \in S
  BY <1>1, <1>2, Induction
<1>4. QED
  BY <1>3 DEF S

\* What CycleSeconds computes.
LEMMA CycleIsSum ==
  ASSUME NEW n \in Nat, NEW rows \in Steps(n)
  PROVE  \E sum : SumsTo(sum, rows, n) /\ CycleSeconds(rows) = sum[1..n]
<1> DEFINE sum == CHOOSE s : SumsTo(s, rows, n)
<1>1. SumsTo(sum, rows, n)
  BY SumExists
<1>2. DOMAIN rows = 1..n
  BY DEF Steps
<1>3. CycleSeconds(rows) = sum[1..n]
  BY <1>2 DEF CycleSeconds, FoldLeft, MapThenFoldSet, SumsTo
<1>4. QED
  BY <1>1, <1>3

\* Whichever row is taken out last, the sum is the same.
LEMMA AnyLast ==
  ASSUME NEW n \in Nat, NEW rows \in Steps(n), NEW sum, SumsTo(sum, rows, n)
  PROVE  Additive(sum, rows, n)
<1> DEFINE Good(T) == /\ sum[T] \in Nat
                      /\ \A k \in T : sum[T] = sum[T \ {k}] + rows[k].duration
           S == {m \in Nat : \A T \in (SUBSET (1..m)) \cap SUBSET (1..n) : Good(T)}
<1>0. \A T \in SUBSET (1..n) :
         sum[T] = IF T = {} THEN 0 ELSE sum[T \ {Max(T)}] + rows[Max(T)].duration
  BY DEF SumsTo
<1>a. \A k \in 1..n : rows[k].duration \in Nat
  BY DEF Steps, Step
<1>1. 0 \in S
  <2>1. sum[{}] = 0
    BY <1>0
  <2>2. Good({})
    BY <2>1
  <2>3. SUBSET (1..0) = {{}}
    OBVIOUS
  <2>4. QED
    BY <2>2, <2>3
<1>2. ASSUME NEW m \in Nat, m \in S
      PROVE  m + 1 \in S
  <2>1. SUFFICES ASSUME NEW T \in (SUBSET (1..(m + 1))) \cap SUBSET (1..n)
                 PROVE  Good(T)
    OBVIOUS
  <2>2. CASE m + 1 \notin T
    <3>1. T \in SUBSET (1..m)
      BY <2>2
    <3>2. QED
      BY <1>2, <2>1, <3>1
  <2>3. CASE m + 1 \in T
    <3> DEFINE U == T \ {m + 1}
    <3>1. Max(T) = m + 1
      BY <2>3, LastOf
    <3>2. sum[T] = sum[U] + rows[m + 1].duration
      BY <1>0, <2>1, <2>3, <3>1
    <3>3. U \in SUBSET (1..m) /\ U \in SUBSET (1..n) /\ m + 1 \in 1..n
      BY <2>1, <2>3
    <3>4. Good(U)
      BY <1>2, <3>3
    <3>5. ASSUME NEW k \in T, k # m + 1
          PROVE  sum[T] = sum[T \ {k}] + rows[k].duration
      <4>1. T \ {k} \in SUBSET (1..(m + 1)) /\ T \ {k} \in SUBSET (1..n) /\ m + 1 \in T \ {k}
        BY <2>1, <2>3, <3>5
      <4>2. Max(T \ {k}) = m + 1
        BY <4>1, LastOf
      <4>3. (T \ {k}) \ {m + 1} = U \ {k}
        OBVIOUS
      <4>4. sum[T \ {k}] = sum[U \ {k}] + rows[m + 1].duration
        BY <1>0, <4>1, <4>2, <4>3
      <4>5. k \in U /\ k \in 1..n /\ U \ {k} \in SUBSET (1..m) /\ U \ {k} \in SUBSET (1..n)
        BY <3>3, <3>5
      <4>6. sum[U] = sum[U \ {k}] + rows[k].duration /\ sum[U \ {k}] \in Nat
        BY <1>2, <3>4, <4>5
      <4>7. QED
        BY <1>a, <3>2, <3>3, <4>4, <4>5, <4>6
    <3>6. sum[T] \in Nat
      BY <1>a, <3>2, <3>3, <3>4
    <3>7. QED
      BY <3>2, <3>5, <3>6
  <2>4. QED
    BY <2>2, <2>3
<1> HIDE DEF S
<1>3. n \in S
  BY <1>1, <1>2, Induction
<1>4. QED
  BY <1>3 DEF S, Additive

Permutes(p, n) ==
  /\ p \in [1..n -> 1..n]
  /\ \A i, j \in 1..n : p[i] = p[j] => i = j
  /\ \A i \in 1..n : \E j \in 1..n : p[j] = i

\* The same rows in another order take as long.
LEMMA SumPermuted ==
  ASSUME NEW n \in Nat, NEW rows \in Steps(n), NEW p, Permutes(p, n)
  PROVE  CycleSeconds([i \in 1..n |-> rows[p[i]]]) = CycleSeconds(rows)
<1> DEFINE other == [i \in 1..n |-> rows[p[i]]]
           Image(m) == {p[i] : i \in 1..m}
<1>1. PICK sum : SumsTo(sum, rows, n) /\ CycleSeconds(rows) = sum[1..n]
  BY CycleIsSum
<1>2. other \in Steps(n)
  BY DEF Steps, Permutes
<1> HIDE DEF other
<1>3. PICK tot : SumsTo(tot, other, n) /\ CycleSeconds(other) = tot[1..n]
  BY <1>2, CycleIsSum
<1>a. Additive(sum, rows, n) /\ Additive(tot, other, n)
  BY <1>1, <1>2, <1>3, AnyLast
<1> DEFINE S == {m \in Nat : m <= n => tot[1..m] = sum[Image(m)]}
<1>4. 0 \in S
  <2>1. tot[{}] = 0 /\ sum[{}] = 0 /\ 1..0 = {} /\ Image(0) = {}
    BY <1>1, <1>3 DEF SumsTo
  <2>2. QED
    BY <2>1
<1>5. ASSUME NEW m \in Nat, m \in S
      PROVE  m + 1 \in S
  <2>1. SUFFICES ASSUME m + 1 <= n
                 PROVE  tot[1..(m + 1)] = sum[Image(m + 1)]
    OBVIOUS
  <2> PICK k : k = m + 1
    OBVIOUS
  <2>2. 1..k \in SUBSET (1..n) /\ k \in 1..k /\ (1..k) \ {k} = 1..m
    BY <2>1, Upto
  <2>3. tot[1..k] = tot[1..m] + other[k].duration
    <3>1. tot[1..k] = tot[(1..k) \ {k}] + other[k].duration
      BY <1>a, <2>2 DEF Additive
    <3>2. QED
      BY <2>2, <3>1
  <2>4. Image(k) = Image(m) \cup {p[k]}
    <3>1. 1..k = (1..m) \cup {k}
      BY <2>2
    <3>2. \A x : x \in Image(k) <=> \E i \in 1..m \cup {k} : x = p[i]
      BY ONLY <3>1
    <3>3. QED
      BY ONLY <3>2
  <2>5. p[k] \notin Image(m)
    <3>1. k \in 1..n /\ \A i \in 1..m : i \in 1..n /\ i # k
      BY <2>1
    <3>2. \A i \in 1..m : p[i] # p[k]
      BY <3>1 DEF Permutes
    <3>3. QED
      BY <3>2
  <2>6. Image(k) \in SUBSET (1..n)
    BY <2>2 DEF Permutes
  <2> HIDE DEF Image
  <2>7. sum[Image(k)] = sum[Image(m)] + rows[p[k]].duration
    <3>1. p[k] \in Image(k) /\ Image(m) = Image(k) \ {p[k]}
      BY ONLY <2>4, <2>5
    <3>2. PICK T, x : T = Image(k) /\ x = p[k]
      OBVIOUS
    <3>3. T \in SUBSET (1..n) /\ x \in T
      BY ONLY <2>6, <3>1, <3>2
    <3>4. sum[T] = sum[T \ {x}] + rows[x].duration
      BY ONLY <1>a, <3>3 DEF Additive
    <3>5. QED
      BY ONLY <3>1, <3>2, <3>4
  <2>8. other[k] = rows[p[k]]
    BY <2>2 DEF other
  <2>9. tot[1..m] = sum[Image(m)]
    BY <1>5, <2>1
  <2>10. QED
    BY <2>3, <2>7, <2>8, <2>9
<1> HIDE DEF S
<1>6. n \in S
  BY <1>4, <1>5, Induction
<1>7. Image(n) = 1..n
  BY DEF Permutes
<1>8. CycleSeconds(other) = CycleSeconds(rows)
  <2>1. tot[1..n] = sum[Image(n)]
    BY <1>6 DEF S
  <2>2. QED
    BY <1>1, <1>3, <1>7, <2>1
<1>9. QED
  BY <1>8 DEF other

-----------------------------------------------------------------------------
\* The rows in the order of their positions.

LEMMA ChainIs ==
  ASSUME NEW steps, IsChain(steps)
  PROVE  /\ Len(steps) \in Nat /\ steps \in Steps(Len(steps)) /\ DOMAIN steps = 1..Len(steps)
         /\ \A i \in 1..Len(steps) : steps[i].position \in 1..Len(steps)
         /\ \A i, j \in 1..Len(steps) : steps[i].position = steps[j].position => i = j
<1>1. steps \in Seq(Step)
  BY DEF IsChain, Step
<1>2. Len(steps) \in Nat /\ steps \in [1..Len(steps) -> Step] /\ DOMAIN steps = 1..Len(steps)
  BY <1>1
<1>3. QED
  BY <1>2 DEF IsChain, Steps

LEMMA EveryPosition ==
  ASSUME NEW steps, IsChain(steps), NEW n, n = Len(steps)
  PROVE  \A i \in 1..n : \E j \in 1..n : steps[j].position = i
<1> DEFINE f == [i \in 1..n |-> steps[i].position]
<1>1. f \in [1..n -> 1..n] /\ \A i, j \in 1..n : f[i] = f[j] => i = j
  BY ChainIs
<1>2. IsFiniteSet(1..n)
  BY ChainIs, FS_Interval
<1> HIDE DEF f
<1>3. f \in Injection(1..n, 1..n)
  BY <1>1 DEF Injection, IsInjective
<1>4. f \in Surjection(1..n, 1..n)
  BY <1>2, <1>3, FS_Injection
<1>5. \A i \in 1..n : \E j \in 1..n : f[j] = i
  BY <1>4 DEF Surjection
<1>6. QED
  BY <1>5 DEF f

LEMMA Placed ==
  ASSUME NEW n \in Nat, NEW f \in [1..n -> 1..n], \A i, j \in 1..n : i < j => f[i] < f[j]
  PROVE  \A i \in 1..n : f[i] = i
<1> DEFINE Up == {m \in Nat : m \in 1..n => f[m] >= m}
           Down == {m \in Nat : m < n => f[n - m] <= n - m}
<1>1. 0 \in Up /\ 0 \in Down
  OBVIOUS
<1>2. ASSUME NEW m \in Nat, m \in Up
      PROVE  m + 1 \in Up
  <2>1. SUFFICES ASSUME m + 1 \in 1..n
                 PROVE  f[m + 1] >= m + 1
    OBVIOUS
  <2>2. CASE m = 0
    BY <2>1, <2>2
  <2>3. CASE m # 0
    <3>1. m \in 1..n /\ m < m + 1
      BY <2>1, <2>3
    <3>2. f[m] >= m /\ f[m] < f[m + 1]
      BY <1>2, <2>1, <3>1
    <3>3. f[m] \in Int /\ f[m + 1] \in Int
      BY <2>1, <3>1
    <3>4. QED
      BY <3>2, <3>3
  <2>4. QED
    BY <2>2, <2>3
<1>3. ASSUME NEW m \in Nat, m \in Down
      PROVE  m + 1 \in Down
  <2>1. SUFFICES ASSUME m + 1 < n
                 PROVE  f[n - (m + 1)] <= n - (m + 1)
    OBVIOUS
  <2> PICK a, b : a = n - m /\ b = n - (m + 1)
    OBVIOUS
  <2>2. a \in 1..n /\ b \in 1..n /\ b < a /\ a = b + 1
    BY <2>1
  <2>3. f[a] <= a /\ f[b] < f[a]
    BY <1>3, <2>1, <2>2
  <2>4. f[a] \in Int /\ f[b] \in Int
    BY <2>2
  <2>5. QED
    BY <2>2, <2>3, <2>4
<1> HIDE DEF Up, Down
<1>4. Nat \subseteq Up /\ Nat \subseteq Down
  BY <1>1, <1>2, <1>3, Induction
<1>5. ASSUME NEW i \in 1..n
      PROVE  f[i] = i
  <2>1. i \in Up /\ n - i \in Down /\ n - i < n /\ n - (n - i) = i /\ n - i \in Nat
    BY <1>4
  <2>2. f[i] >= i /\ f[i] <= i /\ f[i] \in Int
    BY <2>1 DEF Up, Down
  <2>3. QED
    BY <2>2
<1>6. QED
  BY <1>5

LEMMA OrderedIs ==
  ASSUME NEW steps, IsChain(steps), NEW n, n = Len(steps)
  PROVE  /\ n \in Nat /\ Ordered(steps) \in Steps(n) /\ Len(Ordered(steps)) = n
         /\ \A i \in 1..n : Ordered(steps)[i] \in Range(steps) /\ Ordered(steps)[i].position = i
<1>1. /\ n \in Nat /\ steps \in Steps(n) /\ DOMAIN steps = 1..n
      /\ \A i \in 1..n : steps[i].position \in 1..n
  BY ChainIs
<1>a. IsChain(steps) /\ n = Len(steps)
  OBVIOUS
<1>2. \A row \in Range(steps) : row \in Step /\ row.position \in 1..n
  BY <1>1 DEF Range, Steps
<1> DEFINE Sorted(s) == \A i, j \in DOMAIN s : i < j => s[i].position < s[j].position
           line == [i \in 1..n |-> CHOOSE row \in Range(steps) : row.position = i]
<1>3. \A i \in 1..n : \E row \in Range(steps) : row.position = i
  <2>1. \A i \in 1..n : \E j \in 1..n : steps[j].position = i
    BY ONLY <1>a, EveryPosition
  <2>2. \A j \in 1..n : steps[j] \in Range(steps)
    BY <1>1 DEF Range
  <2>3. QED
    BY ONLY <2>1, <2>2
<1>4. line \in [1..n -> Range(steps)] /\ \A i \in 1..n : line[i].position = i
  BY <1>3
<1>5. Sorted(line)
  BY <1>4
<1>6. \E s \in [DOMAIN steps -> Range(steps)] : Sorted(s)
  BY <1>1, <1>4, <1>5
<1> PICK o : o = Ordered(steps)
  OBVIOUS
<1>7. o \in [1..n -> Range(steps)] /\ Sorted(o)
  BY <1>1, <1>6 DEF Ordered
<1> DEFINE f == [i \in 1..n |-> o[i].position]
<1>8. f \in [1..n -> 1..n] /\ \A i, j \in 1..n : i < j => f[i] < f[j]
  BY <1>2, <1>7
<1> HIDE DEF f, Sorted
<1>9. \A i \in 1..n : f[i] = i
  BY <1>1, <1>8, Placed
<1>10. \A i \in 1..n : o[i] \in Range(steps) /\ o[i].position = i
  BY <1>7, <1>9 DEF f
<1>11. o \in Steps(n) /\ Len(o) = n
  BY <1>1, <1>2, <1>7 DEF Steps
<1>12. QED
  BY <1>1, <1>10, <1>11

\* A row is where its position says.
LEMMA RowAt ==
  ASSUME NEW steps, IsChain(steps), NEW k \in DOMAIN steps
  PROVE  steps[k].position \in 1..Len(steps) /\ steps[k] = Ordered(steps)[steps[k].position]
<1>1. PICK i : i = steps[k].position
  OBVIOUS
<1>2. /\ i \in 1..Len(steps) /\ k \in 1..Len(steps)
      /\ DOMAIN steps = 1..Len(steps)
      /\ \A j, l \in 1..Len(steps) : steps[j].position = steps[l].position => j = l
  BY <1>1, ChainIs
<1>3. PICK j \in 1..Len(steps) : Ordered(steps)[i] = steps[j]
  BY <1>2, OrderedIs DEF Range
<1>4. steps[j].position = i
  BY <1>2, <1>3, OrderedIs
<1>5. j = k
  BY <1>1, <1>2, <1>4
<1>6. QED
  BY <1>1, <1>2, <1>3, <1>5

\* A cycle takes as long however the rows came back.
LEMMA SameCycle ==
  ASSUME NEW steps, IsChain(steps)
  PROVE  CycleSeconds(Ordered(steps)) = CycleSeconds(steps)
<1>1. PICK n : n = Len(steps)
  OBVIOUS
<1>2. /\ n \in Nat /\ steps \in Steps(n) /\ DOMAIN steps = 1..n
      /\ \A i, j \in 1..n : steps[i].position = steps[j].position => i = j
  BY <1>1, ChainIs
<1> DEFINE p == [i \in 1..n |-> CHOOSE j \in 1..n : steps[j].position = i]
<1>3. p \in [1..n -> 1..n] /\ \A i \in 1..n : steps[p[i]].position = i
  BY <1>1, EveryPosition
<1> HIDE DEF p
<1>4. \A i, j \in 1..n : p[i] = p[j] => i = j
  BY <1>3
<1>5. ASSUME NEW i \in 1..n
      PROVE  \E j \in 1..n : p[j] = i
  <2>1. steps[i].position \in 1..n
    BY <1>1, ChainIs
  <2>2. p[steps[i].position] = i
    BY <1>2, <1>3, <2>1
  <2>3. QED
    BY <2>1, <2>2
<1>6. \A i \in 1..n : steps[p[i]] = Ordered(steps)[i]
  BY <1>1, <1>2, <1>3, RowAt
<1>7. [i \in 1..n |-> steps[p[i]]] = Ordered(steps)
  <2>1. Ordered(steps) \in Steps(n)
    BY <1>1, OrderedIs
  <2>2. QED
    BY <1>6, <2>1 DEF Steps
<1>8. CycleSeconds([i \in 1..n |-> steps[p[i]]]) = CycleSeconds(steps)
  <2>1. Permutes(p, n)
    BY <1>3, <1>4, <1>5 DEF Permutes
  <2>2. QED
    BY ONLY <1>2, <2>1, SumPermuted
<1>9. QED
  BY <1>7, <1>8

-----------------------------------------------------------------------------
\* The visits of a run, counted from 0 over all its cycles, and when each begins.

StepOf(steps, k) == Ordered(steps)[(k % Len(steps)) + 1]

LEMMA StepOfIs ==
  ASSUME NEW steps, IsChain(steps), steps # <<>>, NEW k \in Nat
  PROVE  /\ Len(steps) \in Nat \ {0} /\ StepOf(steps, k) \in Step
         /\ StepOf(steps, k).position = (k % Len(steps)) + 1
         /\ StepOf(steps, k).duration \in Nat \ {0}
<1>1. PICK n : n = Len(steps)
  OBVIOUS
<1>2. n \in Nat \ {0}
  BY <1>1 DEF IsChain
<1>3. (k % n) + 1 \in 1..n
  BY <1>2, NextVisit
<1>4. Ordered(steps) \in Steps(n) /\ \A i \in 1..n : Ordered(steps)[i].position = i
  BY <1>1, OrderedIs
<1>5. QED
  BY <1>1, <1>2, <1>3, <1>4 DEF StepOf, Steps, Step

\* The beginnings of the first n visits.
Until(at, steps, n) ==
  at = [k \in 0..n |-> IF k = 0 THEN 0 ELSE at[k - 1] + StepOf(steps, k - 1).duration]

LEMMA UntilExists ==
  ASSUME NEW steps, NEW n \in Nat
  PROVE  \E at : Until(at, steps, n)
<1> DEFINE S == {m \in Nat : \E at : Until(at, steps, m)}
<1>1. 0 \in S
  <2>1. Until([k \in {0} |-> 0], steps, 0)
    BY DEF Until
  <2>2. QED
    BY <2>1
<1>2. ASSUME NEW m \in Nat, m \in S
      PROVE  m + 1 \in S
  <2>1. PICK at : Until(at, steps, m)
    BY <1>2
  <2> DEFINE more == [k \in 0..(m + 1) |-> IF k = m + 1 THEN at[m] + StepOf(steps, m).duration ELSE at[k]]
  <2>2. ASSUME NEW k \in 0..(m + 1)
        PROVE  more[k] = IF k = 0 THEN 0 ELSE more[k - 1] + StepOf(steps, k - 1).duration
    <3>1. CASE k = m + 1
      BY <3>1
    <3>2. CASE k # m + 1
      <4>1. k \in 0..m /\ (k # 0 => k - 1 \in 0..m)
        BY <3>2
      <4>2. at[k] = IF k = 0 THEN 0 ELSE at[k - 1] + StepOf(steps, k - 1).duration
        BY <2>1, <4>1 DEF Until
      <4>3. QED
        BY <3>2, <4>1, <4>2
    <3>3. QED
      BY <3>1, <3>2
  <2>3. Until(more, steps, m + 1)
    BY <2>2 DEF Until
  <2>4. QED
    BY <2>3
<1> HIDE DEF S
<1>3. n \in S
  BY <1>1, <1>2, Induction
<1>4. QED
  BY <1>3 DEF S

LEMMA UntilAgrees ==
  ASSUME NEW steps, NEW n \in Nat, NEW at, Until(at, steps, n),
         NEW m \in Nat, NEW to, Until(to, steps, m)
  PROVE  \A k \in Nat : k <= n /\ k <= m => at[k] = to[k]
<1> DEFINE S == {k \in Nat : k <= n /\ k <= m => at[k] = to[k]}
<1>1. 0 \in S
  BY DEF Until
<1>2. ASSUME NEW k \in Nat, k \in S
      PROVE  k + 1 \in S
  <2>1. SUFFICES ASSUME k + 1 <= n, k + 1 <= m
                 PROVE  at[k + 1] = to[k + 1]
    OBVIOUS
  <2>2. k + 1 \in 0..n /\ k + 1 \in 0..m /\ k + 1 # 0 /\ (k + 1) - 1 = k
    BY <2>1
  <2>3. at[k + 1] = at[k] + StepOf(steps, k).duration
    BY <2>2 DEF Until
  <2>4. to[k + 1] = to[k] + StepOf(steps, k).duration
    BY <2>2 DEF Until
  <2>5. QED
    BY <1>2, <2>1, <2>3, <2>4
<1> HIDE DEF S
<1>3. Nat \subseteq S
  BY <1>1, <1>2, Induction
<1>4. QED
  BY <1>3 DEF S

\* When visit k begins.
Begins(steps) == [k \in Nat |-> (CHOOSE at : Until(at, steps, k))[k]]

LEMMA BeginsIs ==
  ASSUME NEW steps, IsChain(steps), steps # <<>>
  PROVE  /\ Begins(steps) \in [Nat -> Nat] /\ Begins(steps)[0] = 0
         /\ \A k \in Nat : Begins(steps)[k + 1] = Begins(steps)[k] + StepOf(steps, k).duration
<1> DEFINE To(k) == CHOOSE at : Until(at, steps, k)
<1>1. \A k \in Nat : Until(To(k), steps, k)
  BY UntilExists
<1> HIDE DEF To
<1>2. \A k \in Nat : Begins(steps)[k] = To(k)[k]
  BY DEF Begins, To
<1>3. Begins(steps)[0] = 0
  BY <1>1, <1>2 DEF Until
<1>4. ASSUME NEW k \in Nat
      PROVE  Begins(steps)[k + 1] = Begins(steps)[k] + StepOf(steps, k).duration
  <2> PICK g, h : g = To(k + 1) /\ h = To(k)
    OBVIOUS
  <2>1. Until(g, steps, k + 1) /\ Until(h, steps, k)
    BY <1>1
  <2>2. g[k] = h[k]
    BY <2>1, UntilAgrees
  <2>3. g[k + 1] = g[k] + StepOf(steps, k).duration
    <3>1. k + 1 \in 0..(k + 1) /\ k + 1 # 0 /\ (k + 1) - 1 = k
      OBVIOUS
    <3>2. QED
      BY <2>1, <3>1 DEF Until
  <2>4. QED
    BY <1>2, <2>2, <2>3
<1> DEFINE S == {k \in Nat : Begins(steps)[k] \in Nat}
<1>5. 0 \in S
  BY <1>3
<1>6. ASSUME NEW k \in Nat, k \in S
      PROVE  k + 1 \in S
  <2>1. Begins(steps)[k] \in Nat /\ StepOf(steps, k).duration \in Nat
    BY <1>6, StepOfIs
  <2>2. Begins(steps)[k + 1] = Begins(steps)[k] + StepOf(steps, k).duration
    BY <1>4
  <2>3. Begins(steps)[k + 1] \in Nat
    BY ONLY <2>1, <2>2
  <2>4. QED
    BY <2>3
<1> HIDE DEF S
<1>7. Nat \subseteq S
  BY <1>5, <1>6, Induction
<1>8. Begins(steps) \in [Nat -> Nat]
  BY <1>7 DEF S, Begins
<1>9. QED
  BY <1>3, <1>4, <1>8

LEMMA BeginsRises ==
  ASSUME NEW steps, IsChain(steps), steps # <<>>, NEW i \in Nat, NEW j \in Nat, i < j
  PROVE  Begins(steps)[i] < Begins(steps)[j]
<1> PICK at : at = Begins(steps)
  OBVIOUS
<1> DEFINE S == {d \in Nat : at[i] < at[i + 1 + d]}
<1>a. \A k \in Nat : at[k] \in Nat
  BY BeginsIs
<1>1. \A k \in Nat : at[k] < at[k + 1]
  <2>1. ASSUME NEW k \in Nat
        PROVE  at[k] < at[k + 1]
    <3>1. at[k] \in Nat /\ StepOf(steps, k).duration \in Nat \ {0}
      BY BeginsIs, StepOfIs
    <3>2. at[k + 1] = at[k] + StepOf(steps, k).duration
      BY BeginsIs
    <3>3. QED
      BY <3>1, <3>2
  <2>2. QED
    BY <2>1
<1>2. 0 \in S
  BY <1>1
<1>3. ASSUME NEW d \in Nat, d \in S
      PROVE  d + 1 \in S
  <2> PICK k \in Nat : k = i + 1 + d
    OBVIOUS
  <2>1. at[i] < at[k] /\ i + 1 + (d + 1) = k + 1
    BY <1>3
  <2>a. at[k] < at[k + 1]
    BY <1>1
  <2>2. at[i] \in Nat /\ at[k] \in Nat /\ at[k + 1] \in Nat
    <3>1. k + 1 \in Nat
      OBVIOUS
    <3>2. QED
      BY ONLY <1>a, <3>1, i \in Nat, k \in Nat
  <2>3. at[i] < at[k + 1]
    BY ONLY <2>1, <2>a, <2>2
  <2>4. QED
    BY <2>1, <2>3
<1> HIDE DEF S
<1>4. j - i - 1 \in S
  <2>1. Nat \subseteq S
    BY <1>2, <1>3, Induction
  <2>2. j - i - 1 \in Nat
    OBVIOUS
  <2>3. QED
    BY <2>1, <2>2
<1>5. i + 1 + (j - i - 1) = j
  OBVIOUS
<1>6. QED
  BY <1>4, <1>5 DEF S

LEMMA BeginsNext ==
  ASSUME NEW steps, IsChain(steps), steps # <<>>
  PROVE  \A k \in Nat : k + 1 \in Nat /\ Begins(steps)[k] \in Nat /\ Begins(steps)[k] < Begins(steps)[k + 1]
<1>1. ASSUME NEW k \in Nat
      PROVE  k + 1 \in Nat /\ Begins(steps)[k] \in Nat /\ Begins(steps)[k] < Begins(steps)[k + 1]
  <2>1. k + 1 \in Nat /\ k < k + 1
    OBVIOUS
  <2>2. QED
    BY <2>1, BeginsIs, BeginsRises
<1>2. QED
  BY <1>1

\* The first cycle takes as long as the chain.
LEMMA CycleIs ==
  ASSUME NEW steps, IsChain(steps), steps # <<>>
  PROVE  CycleSeconds(steps) = Begins(steps)[Len(steps)] /\ CycleSeconds(steps) \in Nat \ {0}
<1>1. PICK n, rows, at : n = Len(steps) /\ rows = Ordered(steps) /\ at = Begins(steps)
  OBVIOUS
<1>2. n \in Nat \ {0} /\ rows \in Steps(n)
  BY <1>1, OrderedIs, StepOfIs
<1>3. PICK sum : SumsTo(sum, rows, n) /\ CycleSeconds(rows) = sum[1..n]
  BY <1>2, CycleIsSum
<1>4. Additive(sum, rows, n)
  BY <1>2, <1>3, AnyLast
<1> DEFINE S == {m \in Nat : m <= n => sum[1..m] = at[m]}
<1>5. 0 \in S
  <2>1. sum[{}] = 0 /\ 1..0 = {}
    BY <1>3 DEF SumsTo
  <2>2. at[0] = 0
    BY <1>1, BeginsIs
  <2>3. QED
    BY <2>1, <2>2
<1>6. ASSUME NEW m \in Nat, m \in S
      PROVE  m + 1 \in S
  <2>1. SUFFICES ASSUME m + 1 <= n
                 PROVE  sum[1..(m + 1)] = at[m + 1]
    OBVIOUS
  <2> PICK T, k : T = 1..(m + 1) /\ k = m + 1
    OBVIOUS
  <2>2. T \in SUBSET (1..n) /\ k \in T /\ T \ {k} = 1..m
    BY <1>2, <2>1, Upto
  <2>3. sum[T] = sum[T \ {k}] + rows[k].duration
    BY ONLY <1>4, <2>2 DEF Additive
  <2>4. StepOf(steps, m) = rows[k]
    <3>1. m % n = m
      BY <1>2, <2>1
    <3>2. QED
      BY <1>1, <3>1 DEF StepOf
  <2>5. at[m + 1] = at[m] + StepOf(steps, m).duration
    BY <1>1, BeginsIs
  <2>6. sum[1..m] = at[m]
    BY <1>2, <1>6, <2>1
  <2>7. QED
    BY <2>2, <2>3, <2>4, <2>5, <2>6
<1> HIDE DEF S
<1>7. n \in S
  BY <1>2, <1>5, <1>6, Induction
<1>8. CycleSeconds(steps) = at[n]
  BY <1>1, <1>2, <1>3, <1>7, SameCycle DEF S
<1>9. at[0] = 0 /\ at[0] < at[n] /\ at[n] \in Nat
  <2>1. 0 \in Nat /\ n \in Nat /\ 0 < n
    BY <1>2
  <2>2. QED
    BY <1>1, <2>1, BeginsIs, BeginsRises
<1>10. QED
  BY <1>1, <1>8, <1>9

\* What happens in one cycle happens a cycle later in the next.
LEMMA CycleOn ==
  ASSUME NEW steps, IsChain(steps), steps # <<>>, NEW k \in Nat
  PROVE  Begins(steps)[k + Len(steps)] = Begins(steps)[k] + CycleSeconds(steps)
<1>1. PICK n, c, at : n = Len(steps) /\ c = CycleSeconds(steps) /\ at = Begins(steps)
  OBVIOUS
<1>2. n \in Nat \ {0} /\ c \in Nat /\ at[0] = 0 /\ at[n] = c
  BY <1>1, BeginsIs, StepOfIs, CycleIs
<1>3. \A i \in Nat : at[i] \in Nat /\ at[i + 1] = at[i] + StepOf(steps, i).duration
  BY <1>1, BeginsIs
<1> DEFINE S == {i \in Nat : at[i + n] = at[i] + c}
<1>4. 0 \in S
  BY <1>2
<1>5. ASSUME NEW i \in Nat, i \in S
      PROVE  i + 1 \in S
  <2>1. StepOf(steps, i + n) = StepOf(steps, i)
    BY <1>1, <1>2, SameStep DEF StepOf
  <2>2. PICK m \in Nat : m = i + n
    BY <1>2
  <2>3. at[m + 1] = at[m] + StepOf(steps, i).duration /\ at[i + 1] = at[i] + StepOf(steps, i).duration
    BY <1>3, <2>1, <2>2
  <2>4. at[m] = at[i] + c /\ at[i] \in Nat /\ StepOf(steps, i).duration \in Nat
    BY <1>3, <1>5, <2>2, StepOfIs
  <2>5. at[m + 1] = at[i + 1] + c
    BY ONLY <1>2, <2>3, <2>4
  <2>6. m + 1 = (i + 1) + n
    BY <1>2, <2>2
  <2>7. QED
    BY <2>5, <2>6
<1> HIDE DEF S
<1>6. k \in S
  BY <1>4, <1>5, Induction
<1>7. QED
  BY <1>1, <1>6 DEF S

LEMMA WholeCycles ==
  ASSUME NEW steps, IsChain(steps), steps # <<>>, NEW cycles \in Nat
  PROVE  /\ cycles * Len(steps) \in Nat
         /\ Begins(steps)[cycles * Len(steps)] = cycles * CycleSeconds(steps)
<1>1. PICK n, c, at : n = Len(steps) /\ c = CycleSeconds(steps) /\ at = Begins(steps)
  OBVIOUS
<1>2. n \in Nat \ {0} /\ c \in Nat /\ at[0] = 0
  BY <1>1, BeginsIs, StepOfIs, CycleIs
<1> DEFINE S == {i \in Nat : at[i * n] = i * c}
<1>3. 0 \in S
  BY <1>2
<1>4. ASSUME NEW i \in Nat, i \in S
      PROVE  i + 1 \in S
  <2>1. PICK m : m = i * n
    OBVIOUS
  <2>2. m \in Nat /\ (i + 1) * n = m + n /\ (i + 1) * c = (i * c) + c
    BY <1>2, <2>1
  <2>3. at[m + n] = at[m] + c
    BY <1>1, <2>2, CycleOn
  <2>4. at[m] = i * c
    BY <1>4, <2>1
  <2>5. QED
    BY <2>2, <2>3, <2>4
<1> HIDE DEF S
<1>5. cycles \in S
  BY <1>3, <1>4, Induction
<1>6. cycles * n \in Nat
  BY <1>2
<1>7. QED
  BY <1>1, <1>5, <1>6 DEF S

\* At every second some visit is in progress.
LEMMA InProgress ==
  ASSUME NEW steps, IsChain(steps), steps # <<>>, NEW t \in Nat
  PROVE  \E k \in Nat : Begins(steps)[k] <= t /\ t < Begins(steps)[k + 1]
<1>1. PICK at : at = Begins(steps)
  OBVIOUS
<1>2. /\ at[0] = 0 /\ \A k \in Nat : at[k] \in Nat
      /\ \A k \in Nat : k + 1 \in Nat /\ at[k] < at[k + 1]
  BY <1>1, BeginsIs, BeginsNext
<1> DEFINE S == {u \in Nat : \E k \in Nat : at[k] <= u /\ u < at[k + 1]}
<1>3. 0 \in S
  <2>1. at[0] <= 0 /\ 0 < at[0 + 1]
    BY <1>2
  <2>2. QED
    BY <2>1
<1>4. ASSUME NEW u \in Nat, u \in S
      PROVE  u + 1 \in S
  <2>1. PICK k \in Nat : at[k] <= u /\ u < at[k + 1]
    BY <1>4
  <2>2. PICK m \in Nat : m = k + 1
    OBVIOUS
  <2>3. at[k] \in Nat /\ at[m] \in Nat /\ at[m] < at[m + 1] /\ at[m + 1] \in Nat
    BY <1>2
  <2>4. CASE u + 1 < at[m]
    BY <2>1, <2>2, <2>3, <2>4
  <2>5. CASE ~(u + 1 < at[m])
    <3>1. at[m] <= u + 1 /\ u + 1 < at[m + 1]
      BY <2>1, <2>2, <2>3, <2>5
    <3>2. QED
      BY <3>1
  <2>6. QED
    BY <2>4, <2>5
<1> HIDE DEF S
<1>5. t \in S
  BY <1>3, <1>4, Induction
<1>6. QED
  BY <1>1, <1>5 DEF S

-----------------------------------------------------------------------------
\* How long a run is.

Rounds(s) == MaxCycles(s.rule, CycleSeconds(s.steps))

LEMMA CyclesAreEnough ==
  ASSUME NEW s, IsSequence(s), s.steps # <<>>, NEW c, c = CycleSeconds(s.steps)
  PROVE  /\ c \in Nat \ {0} /\ LengthOf(s) \in Nat \ {0} /\ Rounds(s) \in Nat \ {0}
         /\ LengthOf(s) <= Rounds(s) * c
         /\ s.rule.mode # "duration" => LengthOf(s) = Rounds(s) * c
         /\ Rounds(s) = 1 + ((LengthOf(s) - 1) \div c)
<1>1. c \in Nat \ {0}
  BY CycleIs DEF IsSequence
<1>2. s.rule \in Rule
  BY DEF IsSequence
<1>3. LengthOf(s) = RunLength(s.rule, c) /\ Rounds(s) = MaxCycles(s.rule, c)
  BY DEF LengthOf, Rounds
<1>4. CASE s.rule.mode = "once"
  <2>1. LengthOf(s) = c /\ Rounds(s) = 1
    BY <1>1, <1>3, <1>4 DEF RunLength, MaxCycles
  <2>2. (c - 1) \div c = 0
    BY <1>1
  <2>3. QED
    BY <1>1, <1>4, <2>1, <2>2
<1>5. CASE s.rule.mode = "count"
  <2>1. PICK n \in Nat \ {0} : n = s.rule.n
    BY <1>2, <1>5 DEF Rule
  <2>2. LengthOf(s) = c * n /\ Rounds(s) = n
    BY <1>1, <1>3, <1>5, <2>1 DEF RunLength, MaxCycles, AtLeast
  <2>3. c * n = n * c /\ c * n \in Nat \ {0} /\ 1 + (((c * n) - 1) \div c) = n
    BY <1>1, Exactly
  <2>4. QED
    BY <1>1, <1>5, <2>2, <2>3
<1>6. CASE s.rule.mode = "duration"
  <2>1. PICK n \in Nat \ {0} : n = s.rule.n
    BY <1>2, <1>6 DEF Rule
  <2>2. LengthOf(s) = n /\ Rounds(s) = (n + c - 1) \div c
    BY <1>1, <1>3, <1>6, <2>1 DEF RunLength, MaxCycles, AtLeast
  <2>3. (n + c - 1) \div c = 1 + ((n - 1) \div c) /\ n <= ((n + c - 1) \div c) * c
    BY <1>1, RoundUp
  <2>4. (n - 1) \div c \in Nat
    BY <1>1, RoundUp
  <2>5. QED
    BY <1>1, <1>2, <1>6, <2>1, <2>2, <2>3, <2>4
<1>7. QED
  BY <1>2, <1>4, <1>5, <1>6 DEF Rule

-----------------------------------------------------------------------------
\* What the loops have gone through after k visits.

Occurrence == [cycle : Nat, position : Nat, at : Int]

\* What visit k announces, if it does.
Mark(s, k) == [cycle |-> k \div Len(s.steps) + 1, position |-> StepOf(s.steps, k).position,
               at |-> Begins(s.steps)[k]]

Shown(s, win, k) ==
  Begins(s.steps)[k] < LengthOf(s) /\ InWindow(Begins(s.steps)[k], win)

\* it is the state after any set of the visits, as the fold takes them.
Loops(it, s, win, lim, visits, n) ==
  it = [S \in SUBSET (1..n) |->
          IF S = {} THEN [offset |-> 0, found |-> <<>>]
          ELSE Visit(s, win, lim, it[S \ {Max(S)}], visits[Max(S)])]

LEMMA LoopsExist ==
  ASSUME NEW s, NEW win, NEW lim, NEW visits, NEW n \in Nat
  PROVE  \E it : Loops(it, s, win, lim, visits, n)
<1> DEFINE S == {m \in Nat : \E it : Loops(it, s, win, lim, visits, m)}
<1>1. 0 \in S
  <2>1. Loops([T \in {{}} |-> [offset |-> 0, found |-> <<>>]], s, win, lim, visits, 0)
    BY DEF Loops
  <2>2. QED
    BY <2>1
<1>2. ASSUME NEW m \in Nat, m \in S
      PROVE  m + 1 \in S
  <2>1. PICK it : Loops(it, s, win, lim, visits, m)
    BY <1>2
  <2> DEFINE more == [T \in SUBSET (1..(m + 1)) |->
                        IF m + 1 \notin T THEN it[T]
                        ELSE Visit(s, win, lim, it[T \ {m + 1}], visits[m + 1])]
  <2>2. ASSUME NEW T \in SUBSET (1..(m + 1))
        PROVE  more[T] = IF T = {} THEN [offset |-> 0, found |-> <<>>]
                         ELSE Visit(s, win, lim, more[T \ {Max(T)}], visits[Max(T)])
    <3>1. CASE m + 1 \notin T
      <4> DEFINE U == T \ {Max(T)}
      <4>1. T \in SUBSET (1..m) /\ U \in SUBSET (1..(m + 1)) /\ m + 1 \notin U
        BY <3>1, Upto
      <4>2. more[T] = it[T] /\ more[U] = it[U]
        BY <4>1, <3>1
      <4>3. QED
        BY <2>1, <4>1, <4>2 DEF Loops
    <3>2. CASE m + 1 \in T
      <4>1. Max(T) = m + 1
        BY <3>2, LastOf
      <4>2. T \ {m + 1} \in SUBSET (1..(m + 1)) /\ m + 1 \notin T \ {m + 1}
        OBVIOUS
      <4>3. QED
        BY <3>2, <4>1, <4>2
    <3>3. QED
      BY <3>1, <3>2
  <2>3. Loops(more, s, win, lim, visits, m + 1)
    <3>1. more = [T \in SUBSET (1..(m + 1)) |-> more[T]]
      OBVIOUS
    <3> HIDE DEF more
    <3>2. [T \in SUBSET (1..(m + 1)) |-> more[T]]
            = [T \in SUBSET (1..(m + 1)) |->
                 IF T = {} THEN [offset |-> 0, found |-> <<>>]
                 ELSE Visit(s, win, lim, more[T \ {Max(T)}], visits[Max(T)])]
      BY ONLY <2>2
    <3>3. QED
      BY ONLY <3>1, <3>2 DEF Loops
  <2>4. QED
    BY <2>3
<1> HIDE DEF S
<1>3. n \in S
  BY <1>1, <1>2, Induction
<1>4. QED
  BY <1>3 DEF S

LEMMA VisitsAre ==
  ASSUME NEW s, IsSequence(s), s.steps # <<>>, NEW n, n = Rounds(s) * Len(s.steps)
  PROVE  /\ n \in Nat /\ DOMAIN Visits(s) = 1..n
         /\ \A k \in Nat : k < n =>
              Visits(s)[k + 1] = [cycle |-> k \div Len(s.steps), step |-> StepOf(s.steps, k)]
<1>1. IsChain(s.steps) /\ Rounds(s) \in Nat \ {0} /\ Len(s.steps) \in Nat \ {0}
  BY CyclesAreEnough, StepOfIs DEF IsSequence
<1>2. Len(Ordered(s.steps)) = Len(s.steps) /\ CycleSeconds(Ordered(s.steps)) = CycleSeconds(s.steps)
  BY <1>1, OrderedIs, SameCycle
<1>3. Visits(s) = [v \in 1..n |-> [cycle |-> (v - 1) \div Len(s.steps),
                                   step |-> StepOf(s.steps, v - 1)]]
  BY <1>2 DEF Visits, Rounds, StepOf
<1>4. n \in Nat
  BY <1>1
<1>5. \A k \in Nat : k < n => k + 1 \in 1..n /\ (k + 1) - 1 = k
  BY <1>4
<1>6. QED
  BY <1>3, <1>4, <1>5

\* The states the loops go through, one per visit, and the answer they end with.
Through(st, s, win, lim) ==
  LET n == Rounds(s) * Len(s.steps) IN
  /\ st[0] = [offset |-> 0, found |-> <<>>]
  /\ \A k \in Nat : k < n =>
       st[k + 1] = Visit(s, win, lim, st[k],
                         [cycle |-> k \div Len(s.steps), step |-> StepOf(s.steps, k)])
  /\ StepsFound(s, win, lim) = st[n].found

LEMMA Unrolled ==
  ASSUME NEW s, IsSequence(s), s.steps # <<>>, NEW win, NEW lim
  PROVE  \E st : Through(st, s, win, lim)
<1>1. PICK n, visits : n = Rounds(s) * Len(s.steps) /\ visits = Visits(s)
  OBVIOUS
<1>2. /\ n \in Nat /\ DOMAIN visits = 1..n
      /\ \A k \in Nat : k < n =>
           visits[k + 1] = [cycle |-> k \div Len(s.steps), step |-> StepOf(s.steps, k)]
  BY <1>1, VisitsAre
<1> DEFINE it == CHOOSE i : Loops(i, s, win, lim, visits, n)
<1>3. Loops(it, s, win, lim, visits, n)
  BY <1>2, LoopsExist
<1>4. StepsFound(s, win, lim) = it[1..n].found
  BY <1>1, <1>2 DEF StepsFound, FoldLeft, MapThenFoldSet, Loops
<1> HIDE DEF it
<1> DEFINE st == [k \in Nat |-> it[1..k]]
<1>5. st[0] = [offset |-> 0, found |-> <<>>]
  <2>1. 1..0 = {} /\ {} \in SUBSET (1..n)
    OBVIOUS
  <2>2. it[{}] = [offset |-> 0, found |-> <<>>]
    BY <1>3, <2>1 DEF Loops
  <2>3. QED
    BY <2>1, <2>2
<1>6. ASSUME NEW k \in Nat, k < n
      PROVE  st[k + 1] = Visit(s, win, lim, st[k],
                               [cycle |-> k \div Len(s.steps), step |-> StepOf(s.steps, k)])
  <2>1. PICK T : T = 1..(k + 1)
    OBVIOUS
  <2>2. T \in SUBSET (1..n) /\ k + 1 \in T /\ T \ {k + 1} = 1..k
    <3>1. k + 1 <= n
      BY <1>2, <1>6
    <3>2. QED
      BY <1>2, <2>1, <3>1, Upto
  <2>3. T # {} /\ Max(T) = k + 1
    <3>1. k + 1 \in Nat /\ T \in SUBSET (1..(k + 1)) /\ k + 1 \in T
      BY <2>1, <2>2
    <3>2. QED
      BY <3>1, LastOf
  <2>4. it[T] = Visit(s, win, lim, it[T \ {Max(T)}], visits[Max(T)])
    BY <1>2, <1>3, <2>2, <2>3 DEF Loops
  <2>5. it[T] = Visit(s, win, lim, it[1..k], visits[k + 1])
    BY ONLY <2>2, <2>3, <2>4
  <2>6. st[k] = it[1..k] /\ st[k + 1] = it[T]
    <3>1. k + 1 \in Nat
      OBVIOUS
    <3>2. QED
      BY <2>1, <3>1
  <2>7. visits[k + 1] = [cycle |-> k \div Len(s.steps), step |-> StepOf(s.steps, k)]
    BY <1>2, <1>6
  <2>8. QED
    BY ONLY <2>5, <2>6, <2>7
<1>7. st[n] = it[1..n]
  BY <1>2
<1> HIDE DEF st
<1>8. Through(st, s, win, lim)
  BY <1>1, <1>4, <1>5, <1>6, <1>7 DEF Through
<1>9. QED
  BY <1>8

\* found names the first of what the first k visits announce, in order.
Names(found, s, win, lim, k) ==
  /\ found \in Seq(Occurrence) /\ Len(found) <= lim
  /\ \A i \in 1..Len(found) : \E j \in Nat : j < k /\ Shown(s, win, j) /\ found[i] = Mark(s, j)
  /\ \A i, j \in 1..Len(found) : i < j => found[i].at < found[j].at
  /\ \A j \in Nat : j < k /\ Shown(s, win, j) =>
       \/ \E i \in 1..Len(found) : found[i] = Mark(s, j)
       \/ Len(found) = lim /\ \A i \in 1..Len(found) : found[i].at < Begins(s.steps)[j]

LEMMA MarkIs ==
  ASSUME NEW s, IsSequence(s), s.steps # <<>>, NEW k \in Nat
  PROVE  /\ Mark(s, k) \in Occurrence /\ Mark(s, k).at = Begins(s.steps)[k]
         /\ Mark(s, k).position \in Nat \ {0} /\ Begins(s.steps)[k] \in Nat
<1>1. IsChain(s.steps)
  BY DEF IsSequence
<1>2. PICK n : n = Len(s.steps)
  OBVIOUS
<1>3. n \in Nat \ {0} /\ StepOf(s.steps, k).position \in Nat \ {0} /\ Begins(s.steps)[k] \in Nat
  BY <1>1, <1>2, StepOfIs, BeginsIs DEF Step
<1>4. k \div n \in Nat
  BY <1>3, NextVisit
<1>5. PICK cycle \in Nat : cycle = k \div n
  BY <1>4
<1>6. PICK position, at : position = StepOf(s.steps, k).position /\ at = Begins(s.steps)[k]
  OBVIOUS
<1>7. Mark(s, k) = [cycle |-> cycle + 1, position |-> position, at |-> at]
  BY <1>2, <1>5, <1>6 DEF Mark
<1>8. QED
  BY <1>3, <1>5, <1>6, <1>7 DEF Occurrence

\* An entry more at the end of a sequence.
LEMMA OneMore ==
  ASSUME NEW T, NEW f \in Seq(T), NEW x \in T
  PROVE  /\ Append(f, x) \in Seq(T) /\ Len(Append(f, x)) = Len(f) + 1 /\ Len(f) \in Nat
         /\ Append(f, x)[Len(f) + 1] = x
         /\ \A i \in 1..Len(f) : Append(f, x)[i] = f[i]
         /\ \A i : i \in 1..(Len(f) + 1) <=> i \in 1..Len(f) \/ i = Len(f) + 1
  OBVIOUS

LEMMA NamesOn ==
  ASSUME NEW s, IsSequence(s), s.steps # <<>>, NEW win, NEW lim \in Nat, NEW k \in Nat,
         NEW f, Names(f, s, win, lim, k), NEW g,
         g = IF Len(f) >= lim \/ ~Shown(s, win, k) THEN f ELSE Append(f, Mark(s, k))
  PROVE  Names(g, s, win, lim, k + 1)
<1>1. PICK at : at = Begins(s.steps)
  OBVIOUS
<1>2. IsChain(s.steps)
  BY DEF IsSequence
<1>3. \A j \in Nat : at[j] \in Nat /\ Mark(s, j) \in Occurrence /\ Mark(s, j).at = at[j]
  BY <1>1, MarkIs
<1>4. \A j \in Nat : j < k => at[j] < at[k]
  BY <1>1, <1>2, BeginsRises
<1>5. /\ f \in Seq(Occurrence) /\ Len(f) \in Nat /\ Len(f) <= lim
      /\ \A i \in 1..Len(f) : \E j \in Nat : j < k /\ Shown(s, win, j) /\ f[i] = Mark(s, j)
      /\ \A i, j \in 1..Len(f) : i < j => f[i].at < f[j].at
      /\ \A j \in Nat : j < k /\ Shown(s, win, j) =>
           \/ \E i \in 1..Len(f) : f[i] = Mark(s, j)
           \/ Len(f) = lim /\ \A i \in 1..Len(f) : f[i].at < at[j]
  BY <1>1 DEF Names
<1>6. \A i \in 1..Len(f) : f[i].at < at[k]
  BY <1>3, <1>4, <1>5
<1>7. \A j \in Nat : j < k + 1 <=> j < k \/ j = k
  OBVIOUS
<1>8. CASE Len(f) >= lim \/ ~Shown(s, win, k)
  <2>1. g = f
    BY <1>8
  <2>2. \A i \in 1..Len(f) : \E j \in Nat : j < k + 1 /\ Shown(s, win, j) /\ f[i] = Mark(s, j)
    BY <1>5, <1>7
  <2>3. ASSUME NEW j \in Nat, j < k + 1, Shown(s, win, j)
        PROVE  \/ \E i \in 1..Len(f) : f[i] = Mark(s, j)
               \/ Len(f) = lim /\ \A i \in 1..Len(f) : f[i].at < at[j]
    <3>1. CASE j < k
      BY <1>5, <2>3, <3>1
    <3>2. CASE j = k
      BY <1>5, <1>6, <1>8, <2>3, <3>2
    <3>3. QED
      BY <1>7, <2>3, <3>1, <3>2
  <2>4. QED
    BY <1>1, <1>5, <2>1, <2>2, <2>3 DEF Names
<1>9. CASE ~(Len(f) >= lim \/ ~Shown(s, win, k))
  <2>1. PICK x, n : x = Mark(s, k) /\ n = Len(f)
    OBVIOUS
  <2>2. g = Append(f, x) /\ x \in Occurrence /\ n < lim /\ Shown(s, win, k) /\ x.at = at[k]
    BY <1>3, <1>5, <1>9, <2>1
  <2>3. /\ g \in Seq(Occurrence) /\ Len(g) = n + 1 /\ n \in Nat /\ g[n + 1] = x
        /\ \A i \in 1..n : g[i] = f[i]
        /\ \A i : i \in 1..(n + 1) <=> i \in 1..n \/ i = n + 1
    BY <1>5, <2>1, <2>2, OneMore
  <2>4. Len(g) <= lim
    BY <2>2, <2>3
  <2>5. ASSUME NEW i \in 1..Len(g)
        PROVE  \E j \in Nat : j < k + 1 /\ Shown(s, win, j) /\ g[i] = Mark(s, j)
    <3>1. CASE i \in 1..n
      BY <1>5, <1>7, <2>1, <2>3, <3>1
    <3>2. CASE i = n + 1
      BY <1>7, <2>1, <2>2, <2>3, <3>2
    <3>3. QED
      BY <2>3, <3>1, <3>2
  <2>6. ASSUME NEW i \in 1..Len(g), NEW j \in 1..Len(g), i < j
        PROVE  g[i].at < g[j].at
    <3>1. i \in 1..n
      BY <2>3, <2>6
    <3>2. CASE j \in 1..n
      BY <1>5, <2>1, <2>3, <2>6, <3>1, <3>2
    <3>3. CASE j = n + 1
      BY <1>6, <2>1, <2>2, <2>3, <3>1, <3>3
    <3>4. QED
      BY <2>3, <3>2, <3>3
  <2>7. ASSUME NEW j \in Nat, j < k + 1, Shown(s, win, j)
        PROVE  \E i \in 1..Len(g) : g[i] = Mark(s, j)
    <3>1. CASE j < k
      <4>1. PICK i \in 1..n : f[i] = Mark(s, j)
        BY <1>5, <2>1, <2>2, <2>3, <2>7, <3>1
      <4>2. QED
        BY <2>3, <4>1
    <3>2. CASE j = k
      BY <2>1, <2>3, <3>2
    <3>3. QED
      BY <1>7, <2>7, <3>1, <3>2
  <2>8. QED
    BY <1>1, <2>3, <2>4, <2>5, <2>6, <2>7 DEF Names
<1>10. QED
  BY <1>8, <1>9

\* What overruns is what begins when the run is over, up to the last cycle begun.
LEMMA OverrunsIs ==
  ASSUME NEW s, IsSequence(s), s.steps # <<>>, NEW k \in Nat, k < Rounds(s) * Len(s.steps)
  PROVE  Overruns(s.rule, Begins(s.steps)[k], LengthOf(s)) <=> ~(Begins(s.steps)[k] < LengthOf(s))
<1>1. PICK n, c, at : n = Rounds(s) * Len(s.steps) /\ c = CycleSeconds(s.steps) /\ at = Begins(s.steps)
  OBVIOUS
<1>2. IsChain(s.steps)
  BY DEF IsSequence
<1>3. LengthOf(s) \in Nat /\ Rounds(s) \in Nat /\ (s.rule.mode # "duration" => LengthOf(s) = Rounds(s) * c)
  BY <1>1, CyclesAreEnough
<1>4. at[k] \in Nat
  BY <1>1, MarkIs
<1>5. CASE s.rule.mode = "duration"
  BY <1>1, <1>3, <1>4, <1>5 DEF Overruns
<1>6. CASE s.rule.mode # "duration"
  <2>1. n \in Nat /\ at[n] = Rounds(s) * c
    BY <1>1, <1>2, <1>3, WholeCycles
  <2>2. at[k] < at[n]
    BY <1>1, <1>2, <2>1, BeginsRises
  <2>3. QED
    BY <1>1, <1>3, <1>6, <2>1, <2>2 DEF Overruns
<1>7. QED
  BY <1>5, <1>6

LEMMA StepsFoundIs ==
  ASSUME NEW s, IsSequence(s), s.steps # <<>>, NEW win, NEW lim \in Nat
  PROVE  Names(StepsFound(s, win, lim), s, win, lim, Rounds(s) * Len(s.steps))
<1>1. PICK n, at : n = Rounds(s) * Len(s.steps) /\ at = Begins(s.steps)
  OBVIOUS
<1>2. IsChain(s.steps) /\ n \in Nat
  BY <1>1, VisitsAre DEF IsSequence
<1>3. PICK st : Through(st, s, win, lim)
  BY Unrolled
<1> DEFINE Good(k) == st[k].offset = at[k] /\ Names(st[k].found, s, win, lim, k)
           S == {k \in Nat : k <= n => Good(k)}
<1>4. 0 \in S
  <2>1. st[0] = [offset |-> 0, found |-> <<>>] /\ at[0] = 0
    BY <1>1, <1>2, <1>3, BeginsIs DEF Through
  <2>2. Names(<<>>, s, win, lim, 0)
    <3>1. <<>> \in Seq(Occurrence) /\ Len(<<>>) = 0 /\ 1..0 = {}
      OBVIOUS
    <3>2. \A j \in Nat : ~(j < 0)
      OBVIOUS
    <3>3. QED
      BY <3>1, <3>2 DEF Names
  <2>3. QED
    BY <2>1, <2>2
<1>5. ASSUME NEW k \in Nat, k \in S
      PROVE  k + 1 \in S
  <2>1. SUFFICES ASSUME k + 1 <= n
                 PROVE  Good(k + 1)
    OBVIOUS
  <2>2. k < n /\ Good(k)
    BY <1>2, <1>5, <2>1
  <2> DEFINE visit == [cycle |-> k \div Len(s.steps), step |-> StepOf(s.steps, k)]
  <2>3. st[k + 1] = Visit(s, win, lim, st[k], visit)
    BY <1>1, <1>3, <2>2 DEF Through
  <2>4. st[k].offset = at[k]
    BY <2>2
  <2>5. st[k + 1].offset = at[k] + StepOf(s.steps, k).duration
    BY <2>3, <2>4 DEF Visit
  <2>6. at[k + 1] = at[k] + StepOf(s.steps, k).duration
    BY <1>1, <1>2, BeginsIs
  <2>7. Mark(s, k) = [cycle |-> visit.cycle + 1, position |-> visit.step.position, at |-> at[k]]
    BY <1>1 DEF Mark
  <2>8. Overruns(s.rule, at[k], LengthOf(s)) <=> ~(at[k] < LengthOf(s))
    BY <1>1, <2>2, OverrunsIs
  <2>9. PICK f : f = st[k].found
    OBVIOUS
  <2>10. st[k + 1].found = IF Len(f) >= lim \/ ~Shown(s, win, k) THEN f ELSE Append(f, Mark(s, k))
    <3>1. st[k + 1].found = IF \/ Len(f) >= lim
                               \/ Overruns(s.rule, at[k], LengthOf(s))
                               \/ ~InWindow(at[k], win)
                              THEN f
                              ELSE Append(f, Mark(s, k))
      BY <2>3, <2>4, <2>7, <2>9 DEF Visit
    <3>2. Shown(s, win, k) <=> ~Overruns(s.rule, at[k], LengthOf(s)) /\ InWindow(at[k], win)
      BY <1>1, <2>8 DEF Shown
    <3>3. QED
      BY <3>1, <3>2
  <2>11. Names(f, s, win, lim, k)
    BY <2>2, <2>9
  <2>12. Names(st[k + 1].found, s, win, lim, k + 1)
    BY <2>10, <2>11, NamesOn
  <2>13. QED
    BY <2>5, <2>6, <2>12
<1> HIDE DEF S
<1>6. n \in S
  BY <1>2, <1>4, <1>5, Induction
<1>7. Names(st[n].found, s, win, lim, n)
  BY <1>2, <1>6 DEF S
<1>8. QED
  BY <1>1, <1>3, <1>7 DEF Through

-----------------------------------------------------------------------------
\* What a run announces, and what of it an answer names.

ClosingMark(s) == [cycle |-> Rounds(s), position |-> 0, at |-> LengthOf(s)]

\* Every visit that begins before the run is over, and the closing line of its end.
Announced(s) ==
  {o \in {ClosingMark(s)} : s.steps # <<>> /\ s.closing}
    \cup {Mark(s, k) : k \in {j \in Nat : s.steps # <<>> /\ Begins(s.steps)[j] < LengthOf(s)}}

Within(s, win) == {o \in Announced(s) : InWindow(o.at, win)}

\* ans is the first of due, in order, as many as cap allows.
FirstOf(ans, due, cap) ==
  /\ ans \in Seq(Occurrence) /\ Len(ans) <= cap
  /\ \A i \in 1..Len(ans) : ans[i] \in due
  /\ \A i, j \in 1..Len(ans) : i < j => ans[i].at < ans[j].at
  /\ \A o \in due : \/ \E i \in 1..Len(ans) : ans[i] = o
                    \/ Len(ans) = cap /\ \A i \in 1..Len(ans) : ans[i].at < o.at

LEMMA ClosingIs ==
  ASSUME NEW s, IsSequence(s), s.steps # <<>>
  PROVE  ClosingMark(s) \in Occurrence /\ ClosingMark(s).at = LengthOf(s) /\ ClosingMark(s).position = 0
<1>1. Rounds(s) \in Nat /\ LengthOf(s) \in Nat
  BY CyclesAreEnough
<1>2. QED
  BY <1>1 DEF ClosingMark, Occurrence

LEMMA WithinIs ==
  ASSUME NEW s, IsSequence(s), NEW win
  PROVE  /\ s.steps = <<>> => Within(s, win) = {}
         /\ s.steps # <<>> =>
              \A o : o \in Within(s, win) <=>
                \/ s.closing /\ InWindow(LengthOf(s), win) /\ o = ClosingMark(s)
                \/ \E k \in Nat : Shown(s, win, k) /\ o = Mark(s, k)
<1>1. CASE s.steps = <<>>
  BY <1>1 DEF Within, Announced
<1>2. CASE s.steps # <<>>
  <2>1. ClosingMark(s).at = LengthOf(s)
    BY <1>2, ClosingIs
  <2>2. \A k \in Nat : Mark(s, k).at = Begins(s.steps)[k]
    BY <1>2, MarkIs
  <2>3. \A o : o \in Announced(s) <=>
          \/ s.closing /\ o = ClosingMark(s)
          \/ \E k \in Nat : Begins(s.steps)[k] < LengthOf(s) /\ o = Mark(s, k)
    BY <1>2 DEF Announced
  <2>4. \A o : o \in Within(s, win) <=> o \in Announced(s) /\ InWindow(o.at, win)
    BY DEF Within
  <2>5. QED
    BY <1>2, <2>1, <2>2, <2>3, <2>4 DEF Shown
<1>3. QED
  BY <1>1, <1>2

LEMMA AtmostIs ==
  ASSUME NEW high \in Nat, NEW n \in Nat
  PROVE  Atmost(high, n) \in Nat /\ Atmost(high, n) <= high /\ Atmost(high, n) <= n
BY DEF Atmost

LEMMA LengthIsNat ==
  ASSUME NEW s, IsSequence(s)
  PROVE  LengthOf(s) \in Nat
<1>1. CASE s.steps = <<>>
  <2>1. s.steps \in Steps(0) /\ 1..0 = {}
    BY <1>1 DEF Steps
  <2>2. PICK sum : SumsTo(sum, s.steps, 0) /\ CycleSeconds(s.steps) = sum[1..0]
    BY <2>1, CycleIsSum
  <2>3. sum[{}] = 0
    BY <2>2 DEF SumsTo
  <2>4. CycleSeconds(s.steps) = 0
    BY <2>1, <2>2, <2>3
  <2>5. QED
    BY <2>4 DEF LengthOf, RunLength
<1>2. CASE s.steps # <<>>
  BY <1>2, CyclesAreEnough
<1>3. QED
  BY <1>1, <1>2

\* No visit that begins before the end is beyond the cycles gone through.
LEMMA BegunInTime ==
  ASSUME NEW s, IsSequence(s), s.steps # <<>>, NEW k \in Nat, Begins(s.steps)[k] < LengthOf(s)
  PROVE  k < Rounds(s) * Len(s.steps)
<1>1. PICK n, c, at : n = Rounds(s) * Len(s.steps) /\ c = CycleSeconds(s.steps) /\ at = Begins(s.steps)
  OBVIOUS
<1>2. IsChain(s.steps)
  BY DEF IsSequence
<1>3. LengthOf(s) \in Nat /\ Rounds(s) \in Nat /\ LengthOf(s) <= Rounds(s) * c
  BY <1>1, CyclesAreEnough
<1>4. n \in Nat /\ at[n] = Rounds(s) * c /\ at[n] \in Nat /\ at[k] \in Nat
  BY <1>1, <1>2, <1>3, WholeCycles, MarkIs
<1>5. at[k] < at[n]
  BY <1>1, <1>3, <1>4
<1>6. ~(n < k) /\ n # k
  BY <1>1, <1>2, <1>4, <1>5, BeginsRises
<1>7. QED
  BY <1>1, <1>4, <1>6

\* The engine's answer about any sequence, any window and any limit is the first of what the
\* run announces in that window, in order and as many as the limit and the cap allow: what
\* stepOccurrencesFor computes by carrying an offset through two loops, for rows in any order.
\* (No caller asks for none: the code would still name one.)
THEOREM AnswerIsFirst ==
  ASSUME NEW s, IsSequence(s), NEW w, NEW l \in Nat \ {0}
  PROVE  FirstOf(StepOccurrences(s, w, l), Within(s, w), Atmost(MaxStepOccurrences, l))
<1>1. PICK cap : cap = Atmost(MaxStepOccurrences, l)
  OBVIOUS
<1>2. cap \in Nat
  BY <1>1, AtmostIs, SequenceEngineAssumption
<1>3. CASE s.steps = <<>>
  <2>1. StepOccurrences(s, w, l) = <<>> /\ Within(s, w) = {}
    BY <1>3, WithinIs DEF StepOccurrences
  <2>2. <<>> \in Seq(Occurrence) /\ Len(<<>>) = 0 /\ 1..0 = {}
    OBVIOUS
  <2>3. QED
    BY <1>1, <1>2, <2>1, <2>2 DEF FirstOf
<1>4. CASE s.steps # <<>>
  <2>1. PICK due, f, x : due = Within(s, w) /\ f = StepsFound(s, w, cap) /\ x = ClosingMark(s)
    OBVIOUS
  <2>2. \A o : o \in due <=> \/ s.closing /\ InWindow(LengthOf(s), w) /\ o = x
                             \/ \E k \in Nat : Shown(s, w, k) /\ o = Mark(s, k)
    BY <1>4, <2>1, WithinIs
  <2>3. Names(f, s, w, cap, Rounds(s) * Len(s.steps))
    BY <1>2, <1>4, <2>1, StepsFoundIs
  <2>4. /\ f \in Seq(Occurrence) /\ Len(f) \in Nat /\ Len(f) <= cap
        /\ \A i \in 1..Len(f) : \E k \in Nat : Shown(s, w, k) /\ f[i] = Mark(s, k)
        /\ \A i, j \in 1..Len(f) : i < j => f[i].at < f[j].at
    BY <2>3 DEF Names
  <2>5. \A k \in Nat : Shown(s, w, k) =>
          \/ \E i \in 1..Len(f) : f[i] = Mark(s, k)
          \/ Len(f) = cap /\ \A i \in 1..Len(f) : f[i].at < Mark(s, k).at
    <3>1. \A k \in Nat : Shown(s, w, k) => k < Rounds(s) * Len(s.steps)
      BY <1>4, BegunInTime DEF Shown
    <3>2. \A k \in Nat : Mark(s, k).at = Begins(s.steps)[k]
      BY <1>4, MarkIs
    <3>3. QED
      BY <2>3, <3>1, <3>2 DEF Names
  <2>6. x \in Occurrence /\ x.at = LengthOf(s)
    BY <1>4, <2>1, ClosingIs
  <2>7. \A i \in 1..Len(f) : f[i] \in due /\ f[i].at < x.at
    <3>1. \A k \in Nat : Shown(s, w, k) => Mark(s, k).at < LengthOf(s)
      BY <1>4, MarkIs DEF Shown
    <3>2. QED
      BY <2>2, <2>4, <2>6, <3>1
  <2>8. StepOccurrences(s, w, l) =
          IF s.closing /\ InWindow(LengthOf(s), w) /\ Len(f) < cap THEN Append(f, x) ELSE f
    <3>1. CycleSeconds(s.steps) # 0
      BY <1>4, CyclesAreEnough
    <3>2. x = [cycle |-> MaxCycles(s.rule, CycleSeconds(s.steps)), position |-> 0, at |-> ClosingAt(s)]
      BY <2>1 DEF ClosingMark, Rounds, ClosingAt
    <3>3. ClosingAt(s) = LengthOf(s)
      BY DEF ClosingAt
    <3>4. QED
      BY <1>1, <1>4, <2>1, <3>1, <3>2, <3>3 DEF StepOccurrences
  <2>9. CASE s.closing /\ InWindow(LengthOf(s), w) /\ Len(f) < cap
    <3>1. PICK g, n : g = Append(f, x) /\ n = Len(f)
      OBVIOUS
    <3>2. /\ g \in Seq(Occurrence) /\ Len(g) = n + 1 /\ n \in Nat /\ g[n + 1] = x
          /\ \A i \in 1..n : g[i] = f[i]
          /\ \A i : i \in 1..(n + 1) <=> i \in 1..n \/ i = n + 1
      BY <2>4, <2>6, <3>1, OneMore
    <3>3. Len(g) <= cap
      BY <1>2, <2>9, <3>1, <3>2
    <3>4. \A i \in 1..Len(g) : g[i] \in due
      BY <2>2, <2>7, <2>9, <3>1, <3>2
    <3>5. ASSUME NEW i \in 1..Len(g), NEW j \in 1..Len(g), i < j
          PROVE  g[i].at < g[j].at
      <4>1. i \in 1..n
        BY <3>2, <3>5
      <4>2. CASE j \in 1..n
        BY <2>4, <3>1, <3>2, <3>5, <4>1, <4>2
      <4>3. CASE j = n + 1
        BY <2>7, <3>1, <3>2, <4>1, <4>3
      <4>4. QED
        BY <3>2, <4>2, <4>3
    <3>6. ASSUME NEW o \in due
          PROVE  \E i \in 1..Len(g) : g[i] = o
      <4>1. CASE o = x
        BY <3>2, <4>1
      <4>2. CASE o # x
        <5>1. PICK k \in Nat : Shown(s, w, k) /\ o = Mark(s, k)
          BY <2>2, <3>6, <4>2
        <5>2. PICK i \in 1..n : f[i] = o
          BY <2>4, <2>5, <2>9, <3>1, <5>1
        <5>3. QED
          BY <3>2, <5>2
      <4>3. QED
        BY <4>1, <4>2
    <3>7. FirstOf(g, due, cap)
      BY <3>2, <3>3, <3>4, <3>5, <3>6 DEF FirstOf
    <3>8. QED
      BY <1>1, <2>1, <2>8, <2>9, <3>1, <3>7
  <2>10. CASE ~(s.closing /\ InWindow(LengthOf(s), w) /\ Len(f) < cap)
    <3>1. ASSUME NEW o \in due
          PROVE  \/ \E i \in 1..Len(f) : f[i] = o
                 \/ Len(f) = cap /\ \A i \in 1..Len(f) : f[i].at < o.at
      <4>1. CASE \E k \in Nat : Shown(s, w, k) /\ o = Mark(s, k)
        BY <2>5, <4>1
      <4>2. CASE s.closing /\ InWindow(LengthOf(s), w) /\ o = x
        <5>1. Len(f) = cap
          BY <1>2, <2>4, <2>10, <4>2
        <5>2. QED
          BY <2>7, <4>2, <5>1
      <4>3. QED
        BY <2>2, <3>1, <4>1, <4>2
    <3>2. FirstOf(f, due, cap)
      BY <2>4, <2>7, <3>1 DEF FirstOf
    <3>3. QED
      BY <1>1, <2>1, <2>8, <2>10, <3>2
  <2>11. QED
    BY <2>9, <2>10
<1>5. QED
  BY <1>3, <1>4

-----------------------------------------------------------------------------
\* The clock of MCSequenceEngine, which goes second by second, against the visits.

\* The visit in progress at t.
At(steps, t) == CHOOSE k \in Nat : Begins(steps)[k] <= t /\ t < Begins(steps)[k + 1]

LEMMA AtIs ==
  ASSUME NEW steps, IsChain(steps), steps # <<>>, NEW t \in Nat
  PROVE  /\ At(steps, t) \in Nat
         /\ Begins(steps)[At(steps, t)] <= t /\ t < Begins(steps)[At(steps, t) + 1]
         /\ \A k \in Nat : Begins(steps)[k] <= t /\ t < Begins(steps)[k + 1] => At(steps, t) = k
<1>1. PICK at : at = Begins(steps)
  OBVIOUS
<1>2. \E k \in Nat : at[k] <= t /\ t < at[k + 1]
  BY <1>1, InProgress
<1>3. PICK n : n = At(steps, t)
  OBVIOUS
<1>4. n \in Nat /\ at[n] <= t /\ t < at[n + 1]
  BY <1>1, <1>2, <1>3 DEF At
<1>5. \A k \in Nat : k + 1 \in Nat /\ at[k] \in Nat
  BY <1>1, BeginsNext
<1>6. ASSUME NEW k \in Nat, at[k] <= t, t < at[k + 1]
      PROVE  n = k
  <2>1. at[k] < at[n + 1] /\ at[n] < at[k + 1]
    BY <1>4, <1>5, <1>6
  <2>2. n + 1 \in Nat /\ k + 1 \in Nat /\ at[k] \in Nat /\ at[n + 1] \in Nat
           /\ at[n] \in Nat /\ at[k + 1] \in Nat
    BY <1>4, <1>5
  <2>3. \A i, j \in Nat : i < j => at[i] < at[j]
    BY <1>1, BeginsRises
  <2>4. ~(n + 1 < k) /\ n + 1 # k /\ ~(k + 1 < n) /\ k + 1 # n
    BY <2>1, <2>2, <2>3, <1>4
  <2>5. QED
    BY <1>4, <2>4
<1>7. QED
  BY <1>1, <1>3, <1>4, <1>6

LEMMA AtUnique ==
  ASSUME NEW steps, IsChain(steps), steps # <<>>, NEW t \in Nat, NEW k \in Nat,
         Begins(steps)[k] <= t, t < Begins(steps)[k + 1]
  PROVE  At(steps, t) = k
BY AtIs

\* The truth values, by names that the provers take for any other value.
No == FALSE
Yes == TRUE

\* What the clock reads.
Reading(cycle, position, begins, left) ==
  [cycle |-> cycle, position |-> position, begins |-> begins, left |-> left]

\* And that told from the visit in progress: k, of L in a cycle, from b up to e.
ToldBy(k, L, b, e, t) == Reading(k \div L + 1, (k % L) + 1, b = t, e - t)

Tells(steps, t) ==
  LET k == At(steps, t) IN ToldBy(k, Len(steps), Begins(steps)[k], Begins(steps)[k + 1], t)

LEMMA TellsAt ==
  ASSUME NEW steps, IsChain(steps), steps # <<>>, NEW t \in Nat, NEW k \in Nat,
         Begins(steps)[k] <= t, t < Begins(steps)[k + 1]
  PROVE  Tells(steps, t) = ToldBy(k, Len(steps), Begins(steps)[k], Begins(steps)[k + 1], t)
<1>1. At(steps, t) = k
  BY AtUnique
<1>2. QED
  BY <1>1 DEF Tells

\* The row that the clock looks up by its position is that of the visit.
LEMMA PositionIs ==
  ASSUME IsChain(spec.steps), spec.steps # <<>>, NEW k \in Nat
  PROVE  spec.steps[Position((k % Len(spec.steps)) + 1)] = StepOf(spec.steps, k)
<1>1. PICK steps : steps = spec.steps
  OBVIOUS
<1>2. IsChain(steps) /\ steps # <<>>
  BY <1>1
<1>3. PICK n : n = Len(steps)
  OBVIOUS
<1>4. n \in Nat \ {0} /\ DOMAIN steps = 1..n
  BY <1>2, <1>3, StepOfIs, ChainIs
<1>5. (k % n) + 1 \in 1..n
  <2>1. n \in Nat \ {0}
    BY <1>4
  <2>2. k % n \in 0..(n - 1)
    BY <2>1, NextVisit
  <2>3. QED
    BY ONLY <2>1, <2>2
<1>6. PICK i \in 1..n : i = (k % n) + 1
  BY <1>5
<1>7. \E j \in 1..n : steps[j].position = i
  <2>1. \A x \in 1..n : \E j \in 1..n : steps[j].position = x
    BY ONLY <1>2, <1>3, EveryPosition
  <2>2. QED
    BY <2>1
<1>8. PICK j : j = Position(i)
  OBVIOUS
<1>9. j \in DOMAIN steps /\ steps[j].position = i
  BY <1>1, <1>4, <1>7, <1>8 DEF Position
<1>10. steps[j] = Ordered(steps)[i]
  BY <1>2, <1>9, RowAt
<1>11. QED
  BY <1>1, <1>3, <1>6, <1>8, <1>10 DEF StepOf

ClockStart == [cycle |-> 1, position |-> 1, begins |-> TRUE, left |-> spec.steps[Position(1)].duration]

\* The recursion of Clock.
Goes(reading) == Following([reading EXCEPT !.begins = No])

Ticks(at) == at = [t \in 0..MaxOffset |-> IF t = 0 THEN ClockStart ELSE Goes(at[t - 1])]

LEMMA TellsStart ==
  ASSUME IsChain(spec.steps), spec.steps # <<>>
  PROVE  Tells(spec.steps, 0) = ClockStart
<1>1. PICK steps : steps = spec.steps
  OBVIOUS
<1>2. IsChain(steps) /\ steps # <<>>
  BY <1>1
<1>3. PICK n, at, d : n = Len(steps) /\ at = Begins(steps) /\ d = StepOf(steps, 0).duration
  OBVIOUS
<1>4. n \in Nat \ {0} /\ d \in Nat \ {0}
  BY <1>2, <1>3, StepOfIs
<1>5. at[0] = 0 /\ at[0 + 1] = d
  <2>1. at[0] = 0 /\ at[0 + 1] = at[0] + d
    BY <1>2, <1>3, BeginsIs
  <2>2. QED
    BY <1>4, <2>1
<1>6. 0 \div n = 0 /\ 0 % n = 0
  BY <1>4
<1>7. spec.steps[Position(1)] = StepOf(steps, 0)
  <2>1. spec.steps[Position((0 % n) + 1)] = StepOf(steps, 0)
    BY <1>1, <1>2, <1>3, PositionIs
  <2>2. (0 % n) + 1 = 1
    BY <1>6
  <2>3. QED
    BY <2>1, <2>2
<1>8. Tells(steps, 0) = ToldBy(0, n, at[0], at[0 + 1], 0)
  <2>1. at[0] <= 0 /\ 0 < at[0 + 1]
    BY <1>4, <1>5
  <2>2. QED
    BY <1>2, <1>3, <2>1, TellsAt
<1>9. ToldBy(0, n, 0, d, 0) = Reading(1, 1, TRUE, d)
  <2>1. d - 0 = d /\ 0 \div n + 1 = 1 /\ (0 % n) + 1 = 1
    BY <1>4, <1>6
  <2>2. QED
    BY <2>1 DEF ToldBy
<1>10. ClockStart = Reading(1, 1, TRUE, d)
  BY <1>3, <1>7 DEF ClockStart, Reading
<1>11. QED
  BY <1>1, <1>5, <1>8, <1>9, <1>10

\* What follows a reading: the step goes on, or the next one begins, or the next cycle.
LEMMA GoesOver ==
  ASSUME NEW c, NEW p, NEW b, NEW l, NEW e, e = Reading(c, p, No, l)
  PROVE  /\ Goes(Reading(c, p, b, l)) = Following(e)
         /\ e.cycle = c /\ e.position = p /\ e.left = l
<1>1. [Reading(c, p, b, l) EXCEPT !.begins = No] = e
  BY DEF Reading
<1>2. Goes(Reading(c, p, b, l)) = Following(e)
  BY <1>1 DEF Goes
<1>3. QED
  BY <1>2 DEF Reading

LEMMA GoesOn ==
  ASSUME NEW c, NEW p, NEW b, NEW l, l > 1
  PROVE  Goes(Reading(c, p, b, l)) = Reading(c, p, No, l - 1)
<1>1. PICK e : e = Reading(c, p, No, l)
  OBVIOUS
<1>2. Goes(Reading(c, p, b, l)) = Following(e) /\ e.left = l
  BY <1>1, GoesOver
<1>3. Following(e) = [e EXCEPT !.left = @ - 1]
  BY <1>2 DEF Following
<1>4. [e EXCEPT !.left = @ - 1] = Reading(c, p, No, l - 1)
  BY <1>1 DEF Reading
<1>5. QED
  BY <1>2, <1>3, <1>4

LEMMA GoesToNext ==
  ASSUME NEW c, NEW p, NEW b, NEW l, ~(l > 1), p # Len(spec.steps)
  PROVE  Goes(Reading(c, p, b, l)) = Reading(c, p + 1, Yes, spec.steps[Position(p + 1)].duration)
<1>1. PICK e, d : e = Reading(c, p, No, l) /\ d = spec.steps[Position(p + 1)].duration
  OBVIOUS
<1>2. /\ Goes(Reading(c, p, b, l)) = Following(e)
      /\ e.cycle = c /\ e.position = p /\ e.left = l
  BY <1>1, GoesOver
<1>3. Following(e) = [cycle |-> c, position |-> p + 1, left |-> d, begins |-> Yes]
  BY <1>1, <1>2 DEF Following, Yes
<1>4. [cycle |-> c, position |-> p + 1, left |-> d, begins |-> Yes] = Reading(c, p + 1, Yes, d)
  BY DEF Reading
<1>5. QED
  BY <1>1, <1>2, <1>3, <1>4

LEMMA GoesRound ==
  ASSUME NEW c, NEW p, NEW b, NEW l, ~(l > 1), p = Len(spec.steps)
  PROVE  Goes(Reading(c, p, b, l)) = Reading(c + 1, 1, Yes, spec.steps[Position(1)].duration)
<1>1. PICK e, d : e = Reading(c, p, No, l) /\ d = spec.steps[Position(1)].duration
  OBVIOUS
<1>2. /\ Goes(Reading(c, p, b, l)) = Following(e)
      /\ e.cycle = c /\ e.position = p /\ e.left = l
  BY <1>1, GoesOver
<1>3. Following(e) = [cycle |-> c + 1, position |-> 1, left |-> d, begins |-> Yes]
  BY <1>1, <1>2 DEF Following, Yes
<1>4. [cycle |-> c + 1, position |-> 1, left |-> d, begins |-> Yes] = Reading(c + 1, 1, Yes, d)
  BY DEF Reading
<1>5. QED
  BY <1>1, <1>2, <1>3, <1>4

LEMMA TellsOn ==
  ASSUME IsChain(spec.steps), spec.steps # <<>>, NEW t \in Nat
  PROVE  Tells(spec.steps, t + 1) = Goes(Tells(spec.steps, t))
<1>1. PICK steps, x : steps = spec.steps /\ x = Goes(Tells(steps, t))
  OBVIOUS
<1>2. IsChain(steps) /\ steps # <<>>
  BY <1>1
<1>3. PICK n, at, k : n = Len(steps) /\ at = Begins(steps) /\ k = At(steps, t)
  OBVIOUS
<1>4. n \in Nat \ {0} /\ k \in Nat /\ at[k] <= t /\ t < at[k + 1]
  BY <1>2, <1>3, StepOfIs, AtIs
<1>5. PICK m \in Nat : m = k + 1
  BY <1>4
<1>6. at[k] \in Nat /\ at[m] \in Nat
  BY <1>2, <1>3, <1>4, <1>5, BeginsNext
<1>7. PICK l : l = at[m] - t
  OBVIOUS
<1>8. l \in Nat \ {0}
  BY <1>4, <1>5, <1>6, <1>7
<1>9. k \div n \in Nat /\ k % n \in 0..(n - 1)
  BY <1>4, NextVisit
<1>10. PICK c \in Nat : c = k \div n
  BY <1>9
<1>11. PICK p \in Nat : p = k % n
  BY <1>4, <1>9
<1>12. p < n /\ p + 1 <= n
  BY <1>4, <1>9, <1>11
<1>13. /\ m % n = (IF p = n - 1 THEN 0 ELSE p + 1)
       /\ m \div n = (IF p = n - 1 THEN c + 1 ELSE c)
  BY <1>4, <1>5, <1>10, <1>11, NextVisit
<1>14. PICK b : b = (at[k] = t)
  OBVIOUS
<1>15. Tells(steps, t) = Reading(c + 1, p + 1, b, l)
  <2>1. Tells(steps, t) = ToldBy(k, n, at[k], at[k + 1], t)
    BY <1>3 DEF Tells
  <2>2. QED
    BY <1>5, <1>7, <1>10, <1>11, <1>14, <2>1 DEF ToldBy
<1>16. x = Goes(Reading(c + 1, p + 1, b, l))
  BY <1>1, <1>15
<1>17. t + 1 \in Nat
  OBVIOUS
<1>18. CASE l > 1
  <2>1. at[k] <= t + 1 /\ t + 1 < at[k + 1] /\ at[k] # t + 1 /\ at[k + 1] - (t + 1) = l - 1
    BY <1>4, <1>5, <1>6, <1>7, <1>18
  <2>2. Tells(steps, t + 1) = ToldBy(k, n, at[k], at[k + 1], t + 1)
    BY <1>2, <1>3, <1>4, <1>17, <2>1, TellsAt
  <2>3. ToldBy(k, n, at[k], at[k + 1], t + 1) = Reading(c + 1, p + 1, No, l - 1)
    BY <1>10, <1>11, <2>1 DEF ToldBy, No
  <2>4. x = Reading(c + 1, p + 1, No, l - 1)
    BY <1>16, <1>18, GoesOn
  <2>5. QED
    BY <1>1, <2>2, <2>3, <2>4
<1>19. CASE ~(l > 1)
  <2>1. l = 1 /\ at[m] = t + 1
    BY <1>6, <1>7, <1>8, <1>19
  <2>2. PICK d : d = StepOf(steps, m).duration
    OBVIOUS
  <2>3. d \in Nat \ {0}
    BY <1>2, <2>2, StepOfIs
  <2>4. at[m + 1] = at[m] + d
    BY <1>2, <1>3, <2>2, BeginsIs
  <2>5. at[m] <= t + 1 /\ t + 1 < at[m + 1] /\ at[m + 1] - (t + 1) = d
    BY <1>6, <2>1, <2>3, <2>4
  <2>6. Tells(steps, t + 1) = ToldBy(m, n, at[m], at[m + 1], t + 1)
    BY <1>2, <1>3, <1>17, <2>5, TellsAt
  <2>7. ToldBy(m, n, at[m], at[m + 1], t + 1) = Reading(m \div n + 1, (m % n) + 1, Yes, d)
    BY <2>1, <2>5 DEF ToldBy, Yes
  <2>8. spec.steps[Position((m % n) + 1)].duration = d
    BY <1>1, <1>3, <2>2, PositionIs
  <2>9. n = Len(spec.steps)
    BY <1>1, <1>3
  <2>10. CASE p = n - 1
    <3>1. m % n = 0 /\ m \div n = c + 1 /\ p + 1 = n
      BY <1>4, <1>12, <1>13, <2>10
    <3>2. (m % n) + 1 = 1
      BY <3>1
    <3>3. x = Reading((c + 1) + 1, 1, Yes, spec.steps[Position(1)].duration)
      <4>1. p + 1 = Len(spec.steps)
        BY <2>9, <3>1
      <4>2. QED
        BY <1>16, <1>19, <4>1, GoesRound
    <3>4. QED
      BY <1>1, <2>6, <2>7, <2>8, <3>1, <3>2, <3>3
  <2>11. CASE p # n - 1
    <3>1. m % n = p + 1 /\ m \div n = c /\ p + 1 # n
      BY <1>4, <1>12, <1>13, <2>11
    <3>2. x = Reading(c + 1, (p + 1) + 1, Yes, spec.steps[Position((p + 1) + 1)].duration)
      <4>1. p + 1 # Len(spec.steps)
        BY <2>9, <3>1
      <4>2. QED
        BY <1>16, <1>19, <4>1, GoesToNext
    <3>3. QED
      BY <1>1, <2>6, <2>7, <2>8, <3>1, <3>2
  <2>12. QED
    BY <2>10, <2>11
<1>20. QED
  BY <1>8, <1>18, <1>19

LEMMA ClockIs ==
  ASSUME IsChain(spec.steps), spec.steps # <<>>, NEW t \in 0..MaxOffset
  PROVE  Clock[t] = Tells(spec.steps, t)
<1>0. MaxOffset \in Nat
  BY EngineInputs
<1> DEFINE told == [u \in 0..MaxOffset |-> Tells(spec.steps, u)]
<1>1. Ticks(told)
  <2>1. ASSUME NEW u \in 0..MaxOffset
        PROVE  told[u] = IF u = 0 THEN ClockStart ELSE Goes(told[u - 1])
    <3>1. CASE u = 0
      BY <2>1, <3>1, TellsStart
    <3>2. CASE u # 0
      <4>1. PICK v \in Nat : u = v + 1
        <5>1. u - 1 \in Nat /\ u = (u - 1) + 1
          BY <3>2
        <5>2. QED
          BY <5>1
      <4>2. v \in 0..MaxOffset /\ u - 1 = v
        BY <1>0, <4>1
      <4>3. Tells(spec.steps, u) = Goes(Tells(spec.steps, v))
        BY <4>1, TellsOn
      <4>4. QED
        BY <3>2, <4>2, <4>3
    <3>3. QED
      BY <3>1, <3>2
  <2>2. told = [u \in 0..MaxOffset |-> told[u]]
    OBVIOUS
  <2> HIDE DEF told
  <2>3. QED
    BY <2>1, <2>2 DEF Ticks
<1> HIDE DEF told
<1>2. Clock = CHOOSE at : Ticks(at)
  BY DEF Clock, Ticks, Goes, ClockStart, No
<1>3. PICK at : at = Clock /\ Ticks(at)
  BY <1>1, <1>2
<1> DEFINE S == {u \in Nat : u <= MaxOffset => at[u] = told[u]}
<1>4. 0 \in S
  <2>1. 0 \in 0..MaxOffset
    BY <1>0
  <2>2. at[0] = ClockStart /\ told[0] = ClockStart
    BY <1>1, <1>3, <2>1 DEF Ticks
  <2>3. QED
    BY <2>2
<1>5. ASSUME NEW u \in Nat, u \in S
      PROVE  u + 1 \in S
  <2>1. SUFFICES ASSUME u + 1 <= MaxOffset
                 PROVE  at[u + 1] = told[u + 1]
    OBVIOUS
  <2>2. u + 1 \in 0..MaxOffset /\ u + 1 # 0 /\ (u + 1) - 1 = u /\ u <= MaxOffset
    BY <1>0, <2>1
  <2>3. /\ at[u + 1] = Goes(at[u])
        /\ told[u + 1] = Goes(told[u])
    BY <1>1, <1>3, <2>2 DEF Ticks
  <2>4. at[u] = told[u]
    BY <1>5, <2>2
  <2>5. QED
    BY <2>3, <2>4
<1> HIDE DEF S
<1>6. t \in S
  BY <1>4, <1>5, Induction
<1>7. at[t] = told[t]
  BY <1>0, <1>6 DEF S
<1>8. QED
  BY <1>3, <1>7 DEF told

-----------------------------------------------------------------------------
\* The properties of MCSequenceEngine.

LEMMA ChainOf ==
  ASSUME NEW n \in Nat, NEW r \in [1..n -> Step],
         \A i \in 1..n : r[i].position \in 1..n,
         \A i, j \in 1..n : r[i].position = r[j].position => i = j
  PROVE  IsChain(r)
<1>1. r \in Seq(Step) /\ DOMAIN r = 1..n
  OBVIOUS
<1>2. QED
  BY <1>1 DEF IsChain, Step

LEMMA SpecsAre ==
  ASSUME NEW s \in Specs
  PROVE  IsSequence(s)
<1>1. s.rule \in Rules /\ s.closing \in BOOLEAN
      /\ s.steps \in {Rows(c) : c \in Chains} \cup {Reverse(Rows(c)) : c \in Chains} \cup {<<>>}
  BY DEF Specs
<1>2. s.rule \in Rule
  <2>1. MaxRepeat \in Nat
    BY EngineInputs
  <2>2. QED
    BY <1>1, <2>1 DEF Rules, Rule
<1>3. IsChain(<<>>)
  BY DEF IsChain
<1>4. ASSUME NEW c \in Chains
      PROVE  IsChain(Rows(c)) /\ IsChain(Reverse(Rows(c)))
  <2>1. PICK n \in 1..MaxSteps : c \in [1..n -> Durations]
    BY DEF Chains
  <2>2. n \in Nat
    BY EngineInputs
  <2>3. c \in [1..n -> Nat \ {0}] /\ Len(c) = n
    <3>1. Durations \subseteq Nat \ {0}
      BY EngineInputs
    <3>2. DOMAIN c = 1..n
      BY <2>1
    <3>3. c \in [1..n -> Nat \ {0}]
      BY ONLY <2>1, <3>1
    <3>4. c \in Seq(Nat \ {0})
      BY ONLY <2>2, <3>3
    <3>5. Len(c) = n
      BY ONLY <2>2, <3>2, <3>4
    <3>6. QED
      BY <3>3, <3>5
  <2>4. PICK r : r = Rows(c)
    OBVIOUS
  <2>5. r = [i \in 1..n |-> [position |-> i, duration |-> c[i]]]
    BY <2>3, <2>4 DEF Rows
  <2>6. /\ r \in [1..n -> Step] /\ Len(r) = n
        /\ \A i \in 1..n : r[i].position = i
    BY <2>2, <2>3, <2>5 DEF Step
  <2>7. IsChain(r)
    <3>1. \A i, j \in 1..n : r[i].position = r[j].position => i = j
      BY <2>6
    <3>2. QED
      BY <2>2, <2>6, <3>1, ChainOf
  <2>8. PICK v : v = Reverse(r)
    OBVIOUS
  <2>9. v = [i \in 1..n |-> r[(n - i) + 1]]
    BY <2>6, <2>8 DEF Reverse
  <2>10. \A i \in 1..n : (n - i) + 1 \in 1..n
    BY <2>2
  <2>11. v \in [1..n -> Step] /\ \A i \in 1..n : v[i].position = (n - i) + 1
    BY <2>6, <2>9, <2>10
  <2>12. IsChain(v)
    <3>1. \A i \in 1..n : v[i].position \in 1..n
      BY <2>10, <2>11
    <3>2. \A i, j \in 1..n : (n - i) + 1 = (n - j) + 1 => i = j
      BY <2>2
    <3>3. \A i, j \in 1..n : v[i].position = v[j].position => i = j
      BY <2>11, <3>2
    <3>4. QED
      BY <2>2, <2>11, <3>1, <3>3, ChainOf
  <2>13. QED
    BY <2>4, <2>7, <2>8, <2>12
<1>5. IsChain(s.steps)
  BY <1>1, <1>3, <1>4
<1>6. QED
  BY <1>1, <1>2, <1>5 DEF IsSequence

\* What the clock makes due at t is the visit that begins there.
LEMMA DueAt ==
  ASSUME IsChain(spec.steps), spec.steps # <<>>, NEW t \in 0..MaxOffset
  PROVE  /\ Clock[t].begins => \E k \in Nat : Begins(spec.steps)[k] = t
         /\ \A k \in Nat : Begins(spec.steps)[k] = t =>
              /\ Clock[t].begins
              /\ Mark(spec, k) = [cycle |-> Clock[t].cycle, position |-> Clock[t].position, at |-> t]
<1>1. PICK s : s = spec
  OBVIOUS
<1>2. PICK steps, n, at : steps = s.steps /\ n = Len(steps) /\ at = Begins(steps)
  OBVIOUS
<1>3. IsChain(steps) /\ steps # <<>> /\ t \in Nat
  BY <1>1, <1>2, EngineInputs
<1>4. Clock[t] = Tells(steps, t)
  BY <1>1, <1>2, ClockIs
<1>5. ASSUME Clock[t].begins
      PROVE  \E k \in Nat : at[k] = t
  <2>1. PICK k : k = At(steps, t)
    OBVIOUS
  <2>2. k \in Nat
    BY <1>3, <2>1, AtIs
  <2>3. Clock[t].begins = (at[k] = t)
    BY <1>2, <1>4, <2>1 DEF Tells, ToldBy, Reading
  <2>4. QED
    BY <1>5, <2>2, <2>3
<1>6. ASSUME NEW k \in Nat, at[k] = t
      PROVE  /\ Clock[t].begins
             /\ Mark(s, k) = [cycle |-> Clock[t].cycle, position |-> Clock[t].position, at |-> t]
  <2>1. at[k] <= t /\ t < at[k + 1]
    <3>1. at[k] < at[k + 1]
      BY <1>2, <1>3, BeginsNext
    <3>2. QED
      BY <1>3, <1>6, <3>1
  <2>2. Tells(steps, t) = ToldBy(k, n, at[k], at[k + 1], t)
    BY <1>2, <1>3, <2>1, TellsAt
  <2>3. /\ Clock[t].begins = (at[k] = t) /\ Clock[t].cycle = k \div n + 1
        /\ Clock[t].position = (k % n) + 1
    BY <1>4, <2>2 DEF ToldBy, Reading
  <2>4. StepOf(steps, k).position = (k % n) + 1
    BY <1>2, <1>3, StepOfIs
  <2>5. Mark(s, k) = [cycle |-> k \div n + 1, position |-> (k % n) + 1, at |-> t]
    BY <1>2, <1>6, <2>4 DEF Mark
  <2>6. QED
    BY <1>6, <2>3, <2>5
<1>7. QED
  BY <1>1, <1>2, <1>5, <1>6

\* What is due by the clock is what the run announces.
LEMMA DueIsWithin ==
  ASSUME IsSequence(spec), NEW lo \in 0..MaxOffset, NEW hi \in 0..MaxOffset, NEW w,
         w.from = lo, w.to = hi
  PROVE  Due(lo, hi) = Within(spec, w)
<1>1. CASE spec.steps = <<>>
  <2>1. Within(spec, w) = {}
    BY <1>1, WithinIs
  <2>2. Due(lo, hi) = {}
    BY <1>1 DEF Due, StepsDue
  <2>3. QED
    BY <2>1, <2>2
<1>2. CASE spec.steps # <<>>
  <2>0. IsChain(spec.steps)
    BY DEF IsSequence
  <2>a. lo \in Nat /\ hi \in Nat /\ hi <= MaxOffset /\ MaxOffset \in Nat
    BY EngineInputs
  <2>1. \A x : InWindow(x, w) <=> lo <= x /\ x <= hi
    BY DEF InWindow
  <2>2. \A o : o \in Within(spec, w) <=>
          \/ spec.closing /\ InWindow(LengthOf(spec), w) /\ o = ClosingMark(spec)
          \/ \E k \in Nat : Shown(spec, w, k) /\ o = Mark(spec, k)
    BY <1>2, WithinIs
  <2>3. LengthOf(spec) \in Nat
        /\ ClosingMark(spec) = [cycle |-> 1 + ((LengthOf(spec) - 1) \div CycleSeconds(spec.steps)),
                                position |-> 0, at |-> LengthOf(spec)]
    BY <1>2, CyclesAreEnough DEF ClosingMark
  <2>4. PICK steps, closing :
          /\ steps = {[cycle |-> Clock[t].cycle, position |-> Clock[t].position, at |-> t] :
                        t \in {u \in StepsDue : lo <= u /\ u <= hi}}
          /\ closing = {[cycle |-> 1 + (t - 1) \div CycleSeconds(spec.steps), position |-> 0, at |-> t] :
                          t \in {u \in lo..hi : spec.closing /\ spec.steps # <<>> /\ u = LengthOf(spec)}}
    OBVIOUS
  <2>5. Due(lo, hi) = steps \cup closing
    BY <2>4 DEF Due
  <2>6. \A o : o \in closing <=>
          spec.closing /\ InWindow(LengthOf(spec), w) /\ o = ClosingMark(spec)
    <3>1. LengthOf(spec) \in lo..hi <=> InWindow(LengthOf(spec), w)
      BY <2>1, <2>3, <2>a
    <3>2. QED
      BY <1>2, <2>3, <2>4, <3>1
  <2>7. ASSUME NEW o, o \in steps
        PROVE  \E k \in Nat : Shown(spec, w, k) /\ o = Mark(spec, k)
    <3>1. PICK t \in StepsDue :
            /\ lo <= t /\ t <= hi
            /\ o = [cycle |-> Clock[t].cycle, position |-> Clock[t].position, at |-> t]
      BY <2>4, <2>7
    <3>2. t \in 0..MaxOffset /\ t < LengthOf(spec) /\ Clock[t].begins
      BY <3>1 DEF StepsDue
    <3>3. PICK k \in Nat : Begins(spec.steps)[k] = t
      BY <1>2, <2>0, <3>2, DueAt
    <3>4. o = Mark(spec, k)
      BY <1>2, <2>0, <3>1, <3>2, <3>3, DueAt
    <3>5. Shown(spec, w, k)
      BY <2>1, <3>1, <3>2, <3>3 DEF Shown
    <3>6. QED
      BY <3>4, <3>5
  <2>8. ASSUME NEW k \in Nat, Shown(spec, w, k)
        PROVE  Mark(spec, k) \in steps
    <3>1. PICK t : t = Begins(spec.steps)[k]
      OBVIOUS
    <3>2. t < LengthOf(spec) /\ lo <= t /\ t <= hi
      BY <2>1, <2>8, <3>1 DEF Shown
    <3>3. t \in Nat
      BY <1>2, <3>1, MarkIs
    <3>4. t \in 0..MaxOffset
      BY <2>a, <3>2, <3>3
    <3>5. /\ Clock[t].begins
          /\ Mark(spec, k) = [cycle |-> Clock[t].cycle, position |-> Clock[t].position, at |-> t]
      BY <1>2, <2>0, <3>1, <3>4, DueAt
    <3>6. t \in StepsDue
      BY <1>2, <3>2, <3>4, <3>5 DEF StepsDue
    <3>7. QED
      BY <2>4, <3>2, <3>5, <3>6
  <2>9. \A o : o \in Due(lo, hi) <=> o \in Within(spec, w)
    BY <2>2, <2>5, <2>6, <2>7, <2>8
  <2>10. QED
    BY <2>9
<1>3. QED
  BY <1>1, <1>2

\* At one instant a run announces one thing.
LEMMA OneAtATime ==
  ASSUME NEW s, IsSequence(s), NEW w, NEW x \in Within(s, w), NEW y \in Within(s, w), x.at = y.at
  PROVE  x = y
<1>1. s.steps # <<>>
  BY WithinIs
<1>2. PICK at : at = Begins(s.steps)
  OBVIOUS
<1>3. \A k \in Nat : at[k] \in Nat /\ Mark(s, k).at = at[k]
  BY <1>1, <1>2, MarkIs
<1>4. \A i, j \in Nat : i < j => at[i] < at[j]
  BY <1>1, <1>2, BeginsRises DEF IsSequence
<1>5. \A i, j \in Nat : at[i] = at[j] => i = j
  <2>1. ASSUME NEW i \in Nat, NEW j \in Nat, at[i] = at[j]
        PROVE  i = j
    <3>1. ~(at[i] < at[j]) /\ ~(at[j] < at[i])
      BY <1>3, <2>1
    <3>2. ~(i < j) /\ ~(j < i)
      BY <1>4, <3>1
    <3>3. QED
      BY <3>2
  <2>2. QED
    BY <2>1
<1>6. \A o \in Within(s, w) : \/ o = ClosingMark(s)
                              \/ \E k \in Nat : at[k] < LengthOf(s) /\ o = Mark(s, k)
  BY <1>1, <1>2, WithinIs DEF Shown
<1>7. ClosingMark(s).at = LengthOf(s) /\ LengthOf(s) \in Nat
  BY <1>1, ClosingIs, CyclesAreEnough
<1>8. \A k \in Nat : at[k] < LengthOf(s) => Mark(s, k).at # ClosingMark(s).at
  BY <1>3, <1>7
<1>9. QED
  BY <1>3, <1>5, <1>6, <1>8

LEMMA OccursAt ==
  ASSUME NEW s, IsSequence(s), NEW w
  PROVE  \A o \in Within(s, w) :
           /\ InWindow(o.at, w) /\ o \in Occurrence /\ o.at \in Nat
           /\ s.steps # <<>> /\ o.at <= LengthOf(s) /\ LengthOf(s) \in Nat
<1>1. ASSUME NEW o \in Within(s, w)
      PROVE  /\ InWindow(o.at, w) /\ o \in Occurrence /\ o.at \in Nat
             /\ s.steps # <<>> /\ o.at <= LengthOf(s) /\ LengthOf(s) \in Nat
  <2>1. s.steps # <<>> /\ InWindow(o.at, w)
    BY <1>1, WithinIs DEF Within
  <2>2. LengthOf(s) \in Nat /\ ClosingMark(s) \in Occurrence /\ ClosingMark(s).at = LengthOf(s)
    BY <2>1, ClosingIs, CyclesAreEnough
  <2>3. CASE o = ClosingMark(s)
    BY <2>1, <2>2, <2>3
  <2>4. CASE \E k \in Nat : Shown(s, w, k) /\ o = Mark(s, k)
    <3>1. PICK k \in Nat : Begins(s.steps)[k] < LengthOf(s) /\ o = Mark(s, k)
      BY <2>4 DEF Shown
    <3>2. o \in Occurrence /\ o.at = Begins(s.steps)[k] /\ o.at \in Nat
      BY <2>1, <3>1, MarkIs
    <3>3. QED
      BY <2>1, <2>2, <3>1, <3>2
  <2>5. QED
    BY <1>1, <2>1, <2>3, <2>4, WithinIs
<1>2. QED
  BY <1>1

\* An answer has no entry twice.
LEMMA EntriesOf ==
  ASSUME NEW ans, NEW due, NEW cap, FirstOf(ans, due, cap)
  PROVE  /\ Len(ans) \in Nat /\ Len(ans) <= cap
         /\ Range(ans) = {ans[i] : i \in 1..Len(ans)} /\ Range(ans) \in SUBSET due
         /\ IsFiniteSet(Range(ans)) /\ Cardinality(Range(ans)) = Len(ans)
         /\ Range(ans) = due \/ Len(ans) = cap
<1>1. PICK n : n = Len(ans)
  OBVIOUS
<1>2. /\ n \in Nat /\ n <= cap /\ DOMAIN ans = 1..n
      /\ \A i \in 1..n : ans[i] \in due /\ ans[i].at \in Int
      /\ \A i, j \in 1..n : i < j => ans[i].at < ans[j].at
      /\ \A o \in due : \/ \E i \in 1..n : ans[i] = o
                        \/ n = cap
  <2>1. ans \in Seq(Occurrence)
    BY DEF FirstOf
  <2>2. n \in Nat /\ DOMAIN ans = 1..n /\ \A i \in 1..n : ans[i] \in Occurrence
    BY <1>1, <2>1
  <2>3. \A i \in 1..n : ans[i].at \in Int
    BY <2>2 DEF Occurrence
  <2>4. QED
    BY <1>1, <2>2, <2>3 DEF FirstOf
<1> DEFINE f == [i \in 1..n |-> ans[i]]
           T == {ans[i] : i \in 1..n}
<1>3. \A i, j \in 1..n : ans[i] = ans[j] => i = j
  <2>1. ASSUME NEW i \in 1..n, NEW j \in 1..n, ans[i] = ans[j]
        PROVE  i = j
    <3>1. ~(ans[i].at < ans[j].at) /\ ~(ans[j].at < ans[i].at)
      BY <1>2, <2>1
    <3>2. ~(i < j) /\ ~(j < i)
      BY <1>2, <3>1
    <3>3. QED
      BY <1>2, <3>2
  <2>2. QED
    BY <2>1
<1>4. f \in [1..n -> T] /\ \A o \in T : \E i \in 1..n : f[i] = o
  OBVIOUS
<1>5. \A i, j \in 1..n : f[i] = f[j] => i = j
  BY <1>3
<1>6. T \in SUBSET due /\ Range(ans) = T
  BY <1>2 DEF Range
<1>7. T = due \/ n = cap
  BY <1>2
<1> HIDE DEF f
<1>8. ExistsBijection(1..n, T)
  <2> HIDE DEF T
  <2>1. f \in Injection(1..n, T) /\ f \in Surjection(1..n, T)
    BY <1>4, <1>5 DEF Injection, IsInjective, Surjection
  <2>2. QED
    BY <2>1 DEF ExistsBijection, Bijection
<1>9. IsFiniteSet(1..n) /\ Cardinality(1..n) = n
  BY <1>2, FS_Interval
<1>10. IsFiniteSet(T) /\ Cardinality(T) = n
  BY <1>8, <1>9, FS_Bijection
<1>11. QED
  BY <1>1, <1>2, <1>6, <1>7, <1>10

\* And so it has as many entries as there is room for.
LEMMA LengthOfFirst ==
  ASSUME NEW ans, NEW due, NEW cap \in Nat, FirstOf(ans, due, cap), IsFiniteSet(due)
  PROVE  Len(ans) = Atmost(cap, Cardinality(due))
<1>1. PICK n, T : n = Len(ans) /\ T = Range(ans)
  OBVIOUS
<1>2. /\ n \in Nat /\ n <= cap /\ T \in SUBSET due /\ Cardinality(T) = n
      /\ T = due \/ n = cap
  BY <1>1, EntriesOf
<1>3. n <= Cardinality(due) /\ Cardinality(due) \in Nat
  BY <1>2, FS_Subset, FS_CardinalityType
<1>4. QED
  BY <1>1, <1>2, <1>3 DEF Atmost

\* What the answer about the whole run names, the answer about any window that holds its
\* instant names too: no more of the run can lie before it there.  A poll, whose window moves
\* with the clock, therefore offers every step there is, however short the window.
THEOREM NoWindowHides ==
  ASSUME NEW s, IsSequence(s), NEW whole, whole = [from |-> 0, to |-> LengthOf(s)],
         NEW o \in Range(StepOccurrences(s, whole, MaxStepOccurrences)),
         NEW w, InWindow(o.at, w)
  PROVE  o \in Range(StepOccurrences(s, w, MaxStepOccurrences))
<1>1. PICK said, ans, max : /\ said = StepOccurrences(s, whole, MaxStepOccurrences)
                            /\ ans = StepOccurrences(s, w, MaxStepOccurrences)
                            /\ max = MaxStepOccurrences
  OBVIOUS
<1>2. max \in Nat \ {0} /\ max \in Nat /\ Atmost(max, max) = max
  BY <1>1, SequenceEngineAssumption DEF Atmost
<1>3. FirstOf(said, Within(s, whole), max) /\ FirstOf(ans, Within(s, w), max)
  BY <1>1, <1>2, AnswerIsFirst
<1>4. Within(s, w) \subseteq Within(s, whole)
  <2>1. \A x \in Within(s, w) : x.at \in Nat /\ x.at <= LengthOf(s) /\ x \in Announced(s)
    BY OccursAt DEF Within
  <2>2. \A t \in Nat : t <= LengthOf(s) => InWindow(t, whole)
    BY DEF InWindow
  <2>3. QED
    BY <2>1, <2>2 DEF Within
<1>5. /\ Len(said) \in Nat /\ Len(said) <= max /\ Range(said) = {said[i] : i \in 1..Len(said)}
      /\ IsFiniteSet(Range(said)) /\ Cardinality(Range(said)) = Len(said)
      /\ Range(said) \in SUBSET Within(s, whole)
  BY <1>3, EntriesOf
<1>6. /\ Len(ans) \in Nat /\ Range(ans) = {ans[i] : i \in 1..Len(ans)}
      /\ IsFiniteSet(Range(ans)) /\ Cardinality(Range(ans)) = Len(ans)
      /\ Range(ans) \in SUBSET Within(s, w)
  BY <1>3, EntriesOf
<1>7. o \in Within(s, w)
  BY <1>1, <1>5 DEF Within
<1>8. SUFFICES ASSUME o \notin Range(ans)
               PROVE  FALSE
  BY <1>1
<1>9. Len(ans) = max /\ \A i \in 1..Len(ans) : ans[i].at < o.at
  BY <1>3, <1>6, <1>7, <1>8 DEF FirstOf
<1>10. \A x \in Range(ans) : x \in Range(said)
  <2>1. ASSUME NEW x \in Range(ans)
        PROVE  x \in Range(said)
    <3>1. x.at < o.at /\ x \in Within(s, whole)
      BY <1>4, <1>6, <1>9, <2>1
    <3>2. x.at \in Nat /\ o.at \in Nat
      BY <1>4, <1>7, <3>1, OccursAt
    <3>3. \/ \E i \in 1..Len(said) : said[i] = x
          \/ \A i \in 1..Len(said) : said[i].at < x.at
      BY <1>3, <3>1 DEF FirstOf
    <3>4. PICK i \in 1..Len(said) : said[i] = o
      BY <1>1, <1>5
    <3>5. ~(o.at < x.at)
      BY <3>1, <3>2
    <3>6. \E j \in 1..Len(said) : said[j] = x
      BY <3>3, <3>4, <3>5
    <3>7. QED
      BY <1>5, <3>6
  <2>2. QED
    BY <2>1
<1>11. PICK both : both = Range(ans) \cup {o}
  OBVIOUS
<1>12. Cardinality(both) = max + 1
  BY <1>6, <1>8, <1>9, <1>11, FS_AddElement
<1>13. both \in SUBSET Range(said)
  BY <1>1, <1>10, <1>11
<1>14. Cardinality(both) <= Len(said)
  BY <1>5, <1>13, FS_Subset
<1>15. PICK m \in Nat : m = Len(said) /\ m <= max
  BY <1>5
<1>16. max + 1 <= m
  BY <1>12, <1>14, <1>15
<1>17. QED
  BY ONLY <1>2, <1>15, <1>16

\* A caller has been told what the engine says of what it asked last.
Asked ==
  /\ spec \in Specs /\ window \in Windows /\ limit \in Nat \ {0}
  /\ answer = StepOccurrences(spec, window, limit)

LEMMA AskedFirst ==
  ASSUME EngineInit
  PROVE  Asked
<1>1. MaxOffset \in Nat /\ MaxStepOccurrences \in Nat \ {0}
  BY EngineInputs, SequenceEngineAssumption
<1>2. 0 \in 0..MaxOffset
  BY <1>1
<1>3. [from |-> 0, to |-> 0] \in Windows
  BY <1>2 DEF Windows
<1>4. QED
  BY <1>1, <1>3 DEF EngineInit, Asked

LEMMA AskedHolds ==
  ASSUME Asked, [Enquire]_<<spec, window, limit, answer>>
  PROVE  Asked'
<1>1. CASE Enquire
  <2>1. window' \in Windows /\ limit' \in Nat \ {0} /\ spec' = spec
    BY <1>1, EngineInputs DEF Enquire
  <2>2. answer' = StepOccurrences(spec', window', limit')
    BY <1>1, <2>1 DEF Enquire
  <2>3. QED
    BY <2>1, <2>2 DEF Asked
<1>2. CASE UNCHANGED <<spec, window, limit, answer>>
  BY <1>2 DEF Asked
<1>3. QED
  BY <1>1, <1>2

LEMMA AlwaysAsked == EngineSpec => []Asked
<1>1. EngineInit => Asked
  BY AskedFirst
<1>2. Asked /\ [Enquire]_<<spec, window, limit, answer>> => Asked'
  BY AskedHolds
<1>3. QED
  BY <1>1, <1>2, PTL DEF EngineSpec

LEMMA AnswersIt ==
  ASSUME Asked
  PROVE  AnswersTheChain
<1>1. PICK due, cap, n : /\ due = Due(window.from, window.to) /\ n = Len(answer)
                         /\ cap = Atmost(MaxStepOccurrences, limit)
  OBVIOUS
<1>2. window.from \in 0..MaxOffset /\ window.to \in 0..MaxOffset /\ limit \in Nat \ {0}
  BY DEF Asked, Windows
<1>3. IsSequence(spec)
  BY SpecsAre DEF Asked
<1>4. due = Within(spec, window)
  BY <1>1, <1>2, <1>3, DueIsWithin
<1>5. FirstOf(answer, due, cap)
  BY <1>1, <1>2, <1>3, <1>4, AnswerIsFirst DEF Asked
<1>6. cap \in Nat
  BY <1>1, <1>2, AtmostIs, SequenceEngineAssumption
<1>7. /\ n \in Nat /\ DOMAIN answer = 1..n
      /\ \A i \in 1..n : answer[i] \in due
      /\ \A i, j \in 1..n : i < j => answer[i].at < answer[j].at
      /\ \A o \in due : \/ \E i \in 1..n : answer[i] = o
                        \/ \A i \in 1..n : answer[i].at < o.at
  BY <1>1, <1>5 DEF FirstOf
<1>8. IsFiniteSet(due)
  <2>1. PICK f : f = [o \in due |-> o.at]
    OBVIOUS
  <2>2. \A o \in due : o.at \in 0..MaxOffset
    <3>1. \A o \in due : InWindow(o.at, window) /\ o.at \in Nat
      BY <1>3, <1>4, OccursAt
    <3>2. window.from \in Nat /\ window.to \in Nat /\ window.to <= MaxOffset /\ MaxOffset \in Nat
      BY <1>2, EngineInputs
    <3>3. QED
      BY <3>1, <3>2 DEF InWindow
  <2>3. \A x, y \in due : x.at = y.at => x = y
    BY <1>3, <1>4, OneAtATime
  <2>4. f \in Injection(due, 0..MaxOffset)
    BY <2>1, <2>2, <2>3 DEF Injection, IsInjective
  <2>5. IsFiniteSet(0..MaxOffset)
    BY FS_Interval, EngineInputs
  <2>6. QED
    BY <2>4, <2>5, FS_Injection
<1>9. n = Atmost(cap, Cardinality(due))
  BY <1>1, <1>5, <1>6, <1>8, LengthOfFirst
<1>10. \A o : o \in Range(answer) <=> \E i \in 1..n : answer[i] = o
  BY <1>7 DEF Range
<1>11. QED
  BY <1>1, <1>7, <1>9, <1>10 DEF AnswersTheChain

\* An answer names the first of what the run announces in its window, nothing else, in order,
\* as many as its limit allows (AnswersTheChain): for every chain of steps however its rows
\* arrive, every rule, every window and limit, and every cap on an answer.
THEOREM EngineAnswersTheChain == EngineSpec => []AnswersTheChain
<1>1. Asked => AnswersTheChain
  BY AnswersIt
<1>2. QED
  BY <1>1, AlwaysAsked, PTL

LEMMA NothingLeft ==
  ASSUME Asked
  PROVE  FinishedMeansNothingLeft
<1>1. IsSequence(spec)
  BY SpecsAre DEF Asked
<1>2. SUFFICES ASSUME NEW now \in 0..MaxOffset, spec.steps # <<>>,
                      HasFinished(spec.rule, CycleSeconds(spec.steps), 0, now),
                      NEW o \in Range(StepOccurrences(spec, [from |-> now, to |-> MaxOffset],
                                                      MaxStepOccurrences))
               PROVE  o.position = 0 /\ o.at = now
  BY DEF FinishedMeansNothingLeft
<1>3. PICK w, f : w = [from |-> now, to |-> MaxOffset] /\ f = StepOccurrences(spec, w, MaxStepOccurrences)
  OBVIOUS
<1>4. now \in Nat /\ LengthOf(spec) \in Nat
  BY <1>1, <1>2, CyclesAreEnough, EngineInputs
<1>5. LengthOf(spec) <= now
  BY <1>2, <1>4 DEF HasFinished, RunEndsAt, LengthOf
<1>6. FirstOf(f, Within(spec, w), Atmost(MaxStepOccurrences, MaxStepOccurrences))
  BY <1>1, <1>3, AnswerIsFirst, SequenceEngineAssumption
<1>7. o \in Within(spec, w)
  <2>1. DOMAIN f = 1..Len(f) /\ \A i \in 1..Len(f) : f[i] \in Within(spec, w)
    BY <1>6 DEF FirstOf
  <2>2. QED
    BY <1>2, <1>3, <2>1 DEF Range
<1>8. \A x : InWindow(x, w) <=> now <= x /\ x <= MaxOffset
  BY <1>3 DEF InWindow
<1>9. ASSUME NEW k \in Nat, Shown(spec, w, k)
      PROVE  FALSE
  <2>1. PICK x : x = Begins(spec.steps)[k]
    OBVIOUS
  <2>2. x \in Nat
    BY <1>1, <1>2, <2>1, MarkIs
  <2>3. x < LengthOf(spec) /\ now <= x
    BY <1>8, <1>9, <2>1 DEF Shown
  <2>4. QED
    BY <1>4, <1>5, <2>2, <2>3
<1>10. InWindow(LengthOf(spec), w) /\ o = ClosingMark(spec)
  BY <1>1, <1>2, <1>7, <1>9, WithinIs
<1>11. o.position = 0 /\ o.at = LengthOf(spec) /\ now <= LengthOf(spec)
  BY <1>1, <1>2, <1>8, <1>10, ClosingIs
<1>12. QED
  BY <1>4, <1>5, <1>11

\* Closing a run at hasFinished cuts no step short (FinishedMeansNothingLeft): whatever the
\* chain and the rule, a run that has finished has nothing left to say but its closing line.
THEOREM FinishedRunsAreDone == EngineSpec => []FinishedMeansNothingLeft
<1>1. Asked => FinishedMeansNothingLeft
  BY NothingLeft
<1>2. QED
  BY <1>1, AlwaysAsked, PTL

LEMMA HasNext ==
  ASSUME Asked
  PROVE  UnfinishedHasNext
<1>1. IsSequence(spec)
  BY SpecsAre DEF Asked
<1>2. SUFFICES ASSUME NEW now \in 0..MaxOffset, spec.steps # <<>>, spec.closing,
                      ~HasFinished(spec.rule, CycleSeconds(spec.steps), 0, now),
                      NextStep(spec, now, LengthOf(spec)) = <<>>
               PROVE  FALSE
  BY DEF UnfinishedHasNext
<1>3. PICK w : w = [from |-> now, to |-> LengthOf(spec)]
  OBVIOUS
<1>4. now \in Nat /\ LengthOf(spec) \in Nat
  BY <1>1, <1>2, CyclesAreEnough, EngineInputs
<1>5. now < LengthOf(spec)
  BY <1>2, <1>4 DEF HasFinished, RunEndsAt, LengthOf
<1>6. InWindow(LengthOf(spec), w)
  BY <1>3, <1>4, <1>5 DEF InWindow
<1>7. ClosingMark(spec) \in Within(spec, w)
  BY <1>1, <1>2, <1>6, WithinIs
<1>8. FirstOf(<<>>, Within(spec, w), Atmost(MaxStepOccurrences, 1))
  BY <1>1, <1>2, <1>3, AnswerIsFirst DEF NextStep
<1>9. Atmost(MaxStepOccurrences, 1) = 1
  BY SequenceEngineAssumption DEF Atmost
<1>10. Len(<<>>) = 0 /\ 1..0 = {}
  OBVIOUS
<1>11. QED
  BY <1>7, <1>8, <1>9, <1>10 DEF FirstOf

\* A run with a closing line that has not finished has something to say still
\* (UnfinishedHasNext), so a view that shows no next step shows a run that is over.
THEOREM UnfinishedRunsHaveNext == EngineSpec => []UnfinishedHasNext
<1>1. Asked => UnfinishedHasNext
  BY HasNext
<1>2. QED
  BY <1>1, AlwaysAsked, PTL
=============================================================================
