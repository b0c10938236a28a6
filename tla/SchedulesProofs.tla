--------------------------- MODULE SchedulesProofs ---------------------------
(***************************************************************************)
(* Theorems about schedules.                                               *)
(*                                                                         *)
(* The wizard's form: what it previews, what it lets through and what it   *)
(* makes of an alarm that was saved, for every set of names, texts, dates, *)
(* times and zones that can be typed.                                      *)
(*                                                                         *)
(* The engine: the loops over months, days and the instants of a day find  *)
(* the first of what a schedule means, for every calendar, every clock     *)
(* that is set inside a day, every schedule, window and limit; and so what *)
(* is compared, refused, shown as a conflict and summed up is right too.   *)
(* A loop is a fold.  It is unrolled to a function that gives the state    *)
(* after each round, and an invariant of the loop holds of all of them by  *)
(* the well-foundedness of the order of the naturals.                      *)
(***************************************************************************)
EXTENDS MCSchedules, FiniteSetTheorems, WellFoundedInduction, TLAPS

Whole(f) ==
  f = [name |-> f.name, speechText |-> f.speechText, speechFinalText |-> f.speechFinalText,
       speechVoice |-> f.speechVoice, timeOfDay |-> f.timeOfDay, timezone |-> f.timezone,
       startDate |-> f.startDate, endMode |-> f.endMode, endDate |-> f.endDate,
       endTime |-> f.endTime, endAfterOccurrences |-> f.endAfterOccurrences,
       repeatWithinDay |-> f.repeatWithinDay, endTimeOfDay |-> f.endTimeOfDay,
       repeatEvery |-> f.repeatEvery, repeatUnit |-> f.repeatUnit, rule |-> f.rule]

\* A rule holds what its type calls for.
Fitting(rule) ==
  \/ rule = [type |-> "once"]
  \/ rule = [type |-> "daily"]
  \/ rule = [type |-> "weekly", byWeekday |-> rule.byWeekday]
  \/ rule = [type |-> "monthly_day", dayOfMonth |-> rule.dayOfMonth]
  \/ rule = [type |-> "monthly_nth", nth |-> rule.nth, weekday |-> rule.weekday]
  \/ rule = [type |-> "interval", every |-> rule.every, unit |-> rule.unit]

Filled(f) ==
  /\ Whole(f) /\ Fitting(f.rule)
  /\ f.speechVoice \in {"male", "female"}

\* Every step that has been passed is as it was when it was left.
Passed ==
  form # None =>
    /\ step \in 1..4
    /\ Filled(form)
    /\ \A passed \in 1..(step - 1) : ProblemsWithStep(form, passed) = {}

\* What came back is what was asked for, and what is compared are schedules.
Asked ==
  /\ window \in [from : Nat, to : Nat] /\ limit \in Nat
  /\ limit > 0 => spec # None /\ answer = PlacedOccurrences(spec, window, limit)
  /\ group # <<>> => DOMAIN group = 1..3 /\ \A id \in DOMAIN group : IsSchedule(group[id])

IInv == Passed /\ spec \in Saved \cup {None} /\ Asked

\* The members of a set of numbers, in their order, are that set.
Rank(D, d) == Cardinality({e \in D : e <= d})

LEMMA RanksRise ==
  ASSUME NEW D \in SUBSET Int, IsFiniteSet(D)
  PROVE  /\ \A d \in D : Rank(D, d) \in 1..Cardinality(D)
         /\ \A d, e \in D : d < e => Rank(D, d) < Rank(D, e)
<1>1. ASSUME NEW d \in D
      PROVE  Rank(D, d) \in 1..Cardinality(D)
  <2> DEFINE low == {e \in D : e <= d}
  <2>1. low \subseteq D /\ d \in low
    OBVIOUS
  <2>2. IsFiniteSet(low) /\ Cardinality(low) <= Cardinality(D)
    BY <2>1, FS_Subset
  <2>3. Cardinality(low) \in Nat /\ Cardinality(D) \in Nat /\ Cardinality(low) # 0
    BY <2>1, <2>2, FS_CardinalityType, FS_EmptySet
  <2>4. QED
    BY <2>2, <2>3 DEF Rank
<1>2. ASSUME NEW d \in D, NEW e \in D, d < e
      PROVE  Rank(D, d) < Rank(D, e)
  <2> DEFINE low == {f \in D : f <= d}   high == {f \in D : f <= e}
  <2>1. low \subseteq high /\ high \subseteq D
    <3>1. ASSUME NEW f \in D, f <= d
          PROVE  f <= e
      <4>1. f \in Int /\ d \in Int /\ e \in Int
        OBVIOUS
      <4>2. QED
        BY <1>2, <3>1, <4>1
    <3>2. QED
      BY <3>1
  <2>2. e \in high /\ e \notin low
    BY <1>2
  <2> HIDE DEF low, high
  <2>3. low # high
    BY <2>2
  <2>4. IsFiniteSet(high) /\ IsFiniteSet(low)
    BY <2>1, FS_Subset
  <2>5. Cardinality(low) <= Cardinality(high) /\ Cardinality(low) # Cardinality(high)
        /\ Cardinality(low) \in Nat /\ Cardinality(high) \in Nat
    BY <2>1, <2>3, <2>4, FS_Subset, FS_CardinalityType
  <2>6. Cardinality(low) < Cardinality(high)
    BY <2>5
  <2>7. QED
    BY <2>6 DEF Rank, low, high
<1>3. QED
  BY <1>1, <1>2

\* Each rank is that of one of them.
LEMMA RanksTaken ==
  ASSUME NEW D \in SUBSET Int, IsFiniteSet(D), NEW i \in 1..Cardinality(D)
  PROVE  \E d \in D : Rank(D, d) = i
<1> DEFINE n == Cardinality(D)
           rank == [d \in D |-> Rank(D, d)]
<1>1. n \in Nat
  BY FS_CardinalityType
<1>2. rank \in [D -> 1..n]
  BY RanksRise
<1>3. \A d, e \in D : rank[d] = rank[e] => d = e
  BY RanksRise, <1>2
<1>4. rank \in Injection(D, 1..n)
  BY <1>2, <1>3 DEF Injection, IsInjective
<1>5. IsFiniteSet(1..n) /\ Cardinality(1..n) = n
  BY <1>1, FS_Interval
<1>6. rank \in Surjection(D, 1..n)
  BY <1>4, <1>5, FS_Injection
<1>7. QED
  BY <1>6 DEF Surjection

LEMMA OrderedIs ==
  ASSUME NEW D \in SUBSET Int, IsFiniteSet(D)
  PROVE  /\ Cardinality(D) \in Nat
         /\ Ordered(D) \in [1..Cardinality(D) -> D]
         /\ \A i \in 1..Cardinality(D) : Ordered(D)[i] \in D /\ Rank(D, Ordered(D)[i]) = i
         /\ \A d \in D : Rank(D, d) \in 1..Cardinality(D) /\ Ordered(D)[Rank(D, d)] = d
<1> DEFINE n == Cardinality(D)   s == Ordered(D)
<1>1. n \in Nat
  BY FS_CardinalityType
<1>2. s = [i \in 1..n |-> CHOOSE d \in D : Rank(D, d) = i]
  BY DEF Ordered, Rank
<1>3. ASSUME NEW i \in 1..n
      PROVE  s[i] \in D /\ Rank(D, s[i]) = i
  <2>1. \E d \in D : Rank(D, d) = i
    BY RanksTaken
  <2>2. s[i] = CHOOSE d \in D : Rank(D, d) = i
    BY <1>2
  <2>3. QED
    BY <2>1, <2>2
<1>4. s \in [1..n -> D]
  BY <1>2, <1>3
<1>5. ASSUME NEW d \in D
      PROVE  Rank(D, d) \in 1..n /\ s[Rank(D, d)] = d
  <2>1. PICK i : i = Rank(D, d)
    OBVIOUS
  <2>2. i \in 1..n
    BY <2>1, RanksRise
  <2>3. PICK e : e = s[i]
    OBVIOUS
  <2>4. e \in D /\ Rank(D, e) = i
    BY <1>3, <2>2, <2>3
  <2>5. ~(e < d) /\ ~(d < e)
    BY <1>1, <2>1, <2>2, <2>4, RanksRise
  <2>6. e = d
    BY <2>4, <2>5
  <2>7. QED
    BY <2>1, <2>2, <2>3, <2>6
<1>6. QED
  BY <1>1, <1>3, <1>4, <1>5

\* They rise, and none is left out.
LEMMA OrderedRises ==
  ASSUME NEW D \in SUBSET Int, IsFiniteSet(D)
  PROVE  /\ DOMAIN Ordered(D) = 1..Cardinality(D) /\ Len(Ordered(D)) = Cardinality(D)
         /\ \A i, j \in 1..Cardinality(D) : i < j => Ordered(D)[i] < Ordered(D)[j]
         /\ Range(Ordered(D)) = D
<1>1. PICK n, s : n = Cardinality(D) /\ s = Ordered(D)
  OBVIOUS
<1>2. /\ n \in Nat /\ s \in [1..n -> D]
      /\ \A i \in 1..n : s[i] \in D /\ Rank(D, s[i]) = i
      /\ \A d \in D : Rank(D, d) \in 1..n /\ s[Rank(D, d)] = d
  BY <1>1, OrderedIs
<1>3. DOMAIN s = 1..n /\ Len(s) = n
  BY <1>2
<1>4. ASSUME NEW i \in 1..n, NEW j \in 1..n, i < j
      PROVE  s[i] < s[j]
  <2>1. PICK d, e : d = s[i] /\ e = s[j]
    OBVIOUS
  <2>2. d \in D /\ e \in D /\ Rank(D, d) = i /\ Rank(D, e) = j
    BY <1>2, <2>1
  <2>3. ~(e < d) /\ d # e
    <3>1. e < d => Rank(D, e) < Rank(D, d)
      BY <2>2, RanksRise
    <3>2. i \in Int /\ j \in Int
      BY <1>2
    <3>3. QED
      BY <1>4, <2>2, <3>1, <3>2
  <2>4. d \in Int /\ e \in Int
    BY <2>2
  <2>5. QED
    BY <2>1, <2>3, <2>4
<1>5. Range(s) = D
  BY <1>2, <1>3 DEF Range
<1>6. QED
  BY <1>1, <1>3, <1>4, <1>5

\* What is below all else in a set comes first in its order.
LEMMA OrderedInitial ==
  ASSUME NEW D \in SUBSET Int, IsFiniteSet(D), NEW P \in SUBSET D,
         \A p \in P, q \in D \ P : p < q
  PROVE  /\ IsFiniteSet(P) /\ Cardinality(P) \in Nat /\ Cardinality(P) <= Cardinality(D)
         /\ \A i \in 1..Cardinality(P) : Ordered(P)[i] = Ordered(D)[i]
         /\ P # D => Cardinality(P) < Cardinality(D)
<1>1. IsFiniteSet(P) /\ Cardinality(P) <= Cardinality(D) /\ (P # D => Cardinality(P) # Cardinality(D))
  BY FS_Subset
<1>2. Cardinality(P) \in Nat /\ Cardinality(D) \in Nat /\ P \in SUBSET Int
  BY <1>1, FS_CardinalityType
<1>3. ASSUME NEW i \in 1..Cardinality(P)
      PROVE  Ordered(P)[i] = Ordered(D)[i]
  <2>1. PICK p : p = Ordered(P)[i]
    OBVIOUS
  <2>2. p \in P /\ Rank(P, p) = i
    BY <1>1, <1>2, <2>1, OrderedIs
  <2>3. ASSUME NEW e \in D, e <= p
        PROVE  e \in P
    <3>1. e \in Int /\ p \in Int
      BY <2>2
    <3>2. QED
      BY <2>2, <2>3, <3>1
  <2>4. {e \in P : e <= p} = {e \in D : e <= p}
    BY <2>3
  <2>5. Rank(D, p) = i
    BY <2>2, <2>4 DEF Rank
  <2>6. QED
    BY <2>1, <2>2, <2>5, OrderedIs
<1>4. QED
  BY <1>1, <1>2, <1>3

\* And what is above all else comes last.
LEMMA OrderedAppend ==
  ASSUME NEW D \in SUBSET Int, IsFiniteSet(D), NEW x \in Int, \A d \in D : d < x
  PROVE  /\ IsFiniteSet(D \cup {x}) /\ Cardinality(D \cup {x}) = Cardinality(D) + 1
         /\ \A i \in 1..Cardinality(D) : Ordered(D \cup {x})[i] = Ordered(D)[i]
         /\ Ordered(D \cup {x})[Cardinality(D) + 1] = x
<1>1. PICK E : E = D \cup {x}
  OBVIOUS
<1>2. x \notin D /\ Cardinality(D) \in Nat
  BY FS_CardinalityType
<1>3. IsFiniteSet(E) /\ Cardinality(E) = Cardinality(D) + 1 /\ E \in SUBSET Int /\ D \in SUBSET E
  BY <1>1, <1>2, FS_AddElement
<1>4. \A p \in D, q \in E \ D : p < q
  BY <1>1
<1>5. \A i \in 1..Cardinality(D) : Ordered(D)[i] = Ordered(E)[i]
  BY <1>3, <1>4, OrderedInitial
<1>6. {e \in E : e <= x} = E
  <2>1. \A e \in E : e <= x
    <3>1. \A d \in D : d \in Int /\ d < x
      OBVIOUS
    <3>2. QED
      BY <1>1, <3>1
  <2>2. QED
    BY <2>1
<1>7. Rank(E, x) = Cardinality(D) + 1
  BY <1>3, <1>6 DEF Rank
<1>8. Ordered(E)[Rank(E, x)] = x
  <2>1. x \in E
    BY <1>1
  <2>2. QED
    BY <1>3, <2>1, OrderedIs
<1>9. QED
  BY <1>1, <1>3, <1>5, <1>7, <1>8

\* There is no other order of a set.
LEMMA OrderedOnly ==
  ASSUME NEW n \in Nat, NEW D \in SUBSET Int, NEW f \in [1..n -> D],
         \A i, j \in 1..n : i < j => f[i] < f[j],
         \A d \in D : \E i \in 1..n : f[i] = d
  PROVE  IsFiniteSet(D) /\ Cardinality(D) = n /\ f = Ordered(D)
<1>1. IsFiniteSet(1..n) /\ Cardinality(1..n) = n
  BY FS_Interval
<1>2. ASSUME NEW i \in 1..n, NEW j \in 1..n, f[i] = f[j]
      PROVE  i = j
  <2>1. f[i] \in Int /\ ~(f[i] < f[i])
    <3>1. f[i] \in D
      OBVIOUS
    <3>2. f[i] \in Int
      BY <3>1
    <3>3. QED
      BY <3>2
  <2>2. ~(i < j) /\ ~(j < i)
    BY <1>2, <2>1
  <2>3. QED
    BY <2>2
<1>3. f \in Bijection(1..n, D)
  BY <1>2 DEF Bijection, Injection, IsInjective, Surjection
<1>4. IsFiniteSet(D) /\ Cardinality(D) = n
  BY <1>1, <1>3, FS_Bijection DEF ExistsBijection
<1>5. ASSUME NEW i \in 1..n
      PROVE  f[i] = Ordered(D)[i]
  <2>1. PICK low : low = {d \in D : d <= f[i]}
    OBVIOUS
  <2>2. PICK g : g = [j \in 1..i |-> f[j]]
    OBVIOUS
  <2>3. 1..i \in SUBSET (1..n) /\ i \in Nat
    OBVIOUS
  <2>4. ASSUME NEW j \in 1..i
        PROVE  g[j] \in low
    <3>1. j \in 1..n /\ f[j] \in D /\ f[i] \in Int /\ f[j] \in Int /\ g[j] = f[j]
      <4>1. j \in 1..n /\ g[j] = f[j]
        BY <2>2, <2>3
      <4>2. f[j] \in D /\ f[i] \in D
        BY <4>1
      <4>3. QED
        BY <4>1, <4>2
    <3>2. f[j] <= f[i]
      BY <3>1
    <3>3. QED
      BY <2>1, <3>1, <3>2
  <2>5. ASSUME NEW d \in low
        PROVE  \E j \in 1..i : g[j] = d
    <3>1. d \in D /\ d <= f[i] /\ d \in Int /\ f[i] \in Int
      BY <2>1
    <3>2. PICK j \in 1..n : f[j] = d
      BY <3>1
    <3>3. ~(i < j)
      BY <3>1, <3>2
    <3>4. j \in 1..i
      BY <3>3
    <3>5. QED
      BY <2>2, <3>2, <3>4
  <2>6. \A j, k \in 1..i : g[j] = g[k] => j = k
    BY <1>2, <2>2, <2>3
  <2>7. g \in Bijection(1..i, low)
    <3>1. g \in [1..i -> low]
      BY <2>2, <2>4
    <3>2. QED
      BY <2>5, <2>6, <3>1 DEF Bijection, Injection, IsInjective, Surjection
  <2>8. IsFiniteSet(1..i) /\ Cardinality(1..i) = i
    BY <2>3, FS_Interval
  <2>9. Cardinality(low) = i
    BY <2>7, <2>8, FS_Bijection DEF ExistsBijection
  <2>10. Rank(D, f[i]) = i
    BY <2>1, <2>9 DEF Rank
  <2>11. QED
    BY <1>4, <2>10, OrderedIs
<1>6. Ordered(D) \in [1..n -> D]
  BY <1>4, OrderedIs
<1>7. QED
  BY <1>4, <1>5, <1>6

-----------------------------------------------------------------------------
\* Counting is induction: WFMin asks for no operator, only for a set.
LEMMA Induction ==
  ASSUME NEW S, 0 \in S, \A n \in Nat : n \in S => n + 1 \in S
  PROVE  Nat \subseteq S
<1>1. SUFFICES ASSUME ~(Nat \subseteq S)
               PROVE  FALSE
  OBVIOUS
<1> DEFINE missed == {n \in Nat : n \notin S}
<1>2. missed \subseteq Nat /\ missed # {}
  BY <1>1
<1>3. PICK n \in missed : \A m \in missed : ~(<<m, n>> \in OpToRel(<, Nat))
  BY <1>2, NatLessThanWellFounded, WFMin
<1>4. n \in Nat /\ n # 0
  OBVIOUS
<1>5. n - 1 \in Nat /\ n - 1 < n
  BY <1>4
<1>6. n - 1 \in missed
  BY <1>4, <1>5
<1>7. <<n - 1, n>> \in OpToRel(<, Nat)
  BY <1>4, <1>5 DEF OpToRel
<1>8. QED
  BY <1>3, <1>6, <1>7

\* A later day begins no earlier than an earlier one is over.
LEMMA DayAfter ==
  ASSUME NEW L \in Nat, NEW d \in Int, NEW e \in Int, d < e
  PROVE  /\ d * L \in Int /\ e * L \in Int
         /\ d * L + L <= e * L
<1>1. PICK q \in Nat : e = d + 1 + q
  <2>1. e - d - 1 \in Nat /\ e = d + 1 + (e - d - 1)
    OBVIOUS
  <2>2. QED
    BY <2>1
<1>2. e * L = d * L + L + q * L /\ q * L >= 0 /\ d * L \in Int /\ q * L \in Int
  BY <1>1
<1>3. QED
  BY <1>2

\* The instant of a local time is one at which the clock shows it, or what it shows after the gap.
LEMMA InstantIsResolved ==
  ASSUME NEW z \in Zones, NEW local \in Int
  PROVE  Resolve(z, local) \in Int /\ InstantOf(z, local) = Resolve(z, local)
<1>1. PICK o, a, h : o = z.offset /\ a = z.at /\ h = z.shift
  OBVIOUS
<1>2. o \in Int /\ a \in Int /\ h \in Int
  BY <1>1, RecurrenceAssumption
<1>3. PICK before, after : before = local - o /\ after = local - o - h
  OBVIOUS
<1>4. before \in Int /\ after \in Int
  BY <1>2, <1>3
<1>5. Resolve(z, local) = IF local < a + (IF h > 0 THEN h ELSE 0) THEN before ELSE after
  BY <1>1, <1>2, <1>3 DEF Resolve
<1>6. \A i : Shows(z, i) = IF i + o < a THEN i + o ELSE i + o + h
  BY <1>1 DEF Shows
<1>7. PICK r : r = Resolve(z, local)
  OBVIOUS
<1>8. r \in {before, after} /\ r \in Int
  BY <1>4, <1>5, <1>7
<1> DEFINE shown == {i \in {before, after} : Shows(z, i) = local}
<1>9. InstantOf(z, local) =
        IF shown # {} THEN Min(shown)
        ELSE CHOOSE i \in {before, after} : Shows(z, i) = local + h
  BY <1>1, <1>3 DEF InstantOf
<1>10. CASE shown # {}
  <2>1. Shows(z, r) = local
    BY <1>2, <1>3, <1>4, <1>5, <1>6, <1>7, <1>10
  <2>2. \A i \in shown : r <= i
    BY <1>2, <1>3, <1>4, <1>5, <1>6, <1>7, <1>10
  <2>3. r \in shown
    BY <1>8, <2>1
  <2>4. \A i \in shown : i \in Int
    BY <1>4
  <2> HIDE DEF shown
  <2>5. Min(shown) = r
    <3>1. \A x \in shown : (\A y \in shown : x <= y) => x = r
      BY <1>8, <2>2, <2>3, <2>4
    <3>2. QED
      BY <2>2, <2>3, <3>1 DEF Min
  <2>6. QED
    BY <1>7, <1>8, <1>9, <1>10, <2>5
<1>11. CASE shown = {}
  <2>1. Shows(z, before) # local /\ Shows(z, after) # local
    BY <1>11
  <2>2. r = before /\ Shows(z, r) = local + h /\ (Shows(z, after) = local + h => after = r)
    BY <1>2, <1>3, <1>4, <1>5, <1>6, <1>7, <2>1
  <2>3. \A i \in {before, after} : Shows(z, i) = local + h => i = r
    BY <2>2
  <2>4. (CHOOSE i \in {before, after} : Shows(z, i) = local + h) = r
    BY <2>2, <2>3
  <2>5. QED
    BY <1>7, <1>8, <1>9, <1>11, <2>4
<1>12. QED
  BY <1>10, <1>11

\* The times of one day are over before those of a later day begin, gap or no gap.
LEMMA DaysApart ==
  ASSUME NEW z \in Zones, SetInsideDay(z), NEW d \in Nat, NEW e \in Nat, d < e,
         NEW t \in 0..(DayLength - 1), NEW u \in 0..(DayLength - 1)
  PROVE  ResolveInstant(d, t, z) < ResolveInstant(e, u, z)
<1>1. PICK o, a, h, L : o = z.offset /\ a = z.at /\ h = z.shift /\ L = DayLength
  OBVIOUS
<1>2. o \in Int /\ a \in Nat /\ h \in Int /\ L \in Nat \ {0}
  BY <1>1, RecurrenceAssumption
<1>3. PICK x, y : x = d * L + t /\ y = e * L + u
  OBVIOUS
<1>4. t \in Int /\ u \in Int /\ 0 <= t /\ t < L /\ 0 <= u
  BY <1>1, <1>2
<1>5. d * L \in Int /\ e * L \in Int /\ d * L + L <= e * L
  BY <1>2, DayAfter
<1>6. x \in Int /\ y \in Int /\ x < y
  BY <1>3, <1>4, <1>5, <1>2
<1>7. /\ ResolveInstant(d, t, z) = (IF x < a + (IF h > 0 THEN h ELSE 0) THEN x ELSE x - h) - o
      /\ ResolveInstant(e, u, z) = (IF y < a + (IF h > 0 THEN h ELSE 0) THEN y ELSE y - h) - o
  BY <1>1, <1>3 DEF ResolveInstant, Resolve
<1>8. ASSUME h > 0, x < a + h, y >= a + h
      PROVE  x < y - h
  <2>1. PICK n, r : n = a \div L /\ r = a % L
    OBVIOUS
  <2>2. n \in Int /\ r \in Int /\ a = n * L + r /\ 0 <= r
    <3>1. a = L * (a \div L) + (a % L) /\ a \div L \in Int /\ a % L \in Int /\ 0 <= a % L
      BY <1>2
    <3>2. L * n = n * L
      BY <1>2, <2>1, <3>1
    <3>3. QED
      BY <2>1, <3>1, <3>2
  <2>3. r + 2 * h <= L
    BY <1>1, <2>1 DEF SetInsideDay
  <2>4. n * L \in Int
    BY <1>2, <2>2
  <2>5. CASE x < a
    BY <1>2, <1>6, <1>8, <2>5
  <2>6. CASE x >= a
    <3>1. ~(d < n)
      <4>1. d < n => d * L + L <= n * L
        BY <1>2, <2>2, DayAfter
      <4>2. QED
        BY <1>2, <1>3, <1>4, <1>5, <2>2, <2>4, <2>6, <4>1
    <3>2. n * L <= d * L
      <4>1. CASE n = d
        BY <1>5, <4>1
      <4>2. CASE n < d
        <5>1. n * L + L <= d * L
          BY <1>2, <2>2, <4>2, DayAfter
        <5>2. QED
          BY <1>2, <1>5, <2>4, <5>1
      <4>3. QED
        BY <2>2, <3>1, <4>1, <4>2
    <3>3. y >= n * L + L
      BY <1>2, <1>3, <1>4, <1>5, <2>4, <3>2
    <3>4. a + h + h <= n * L + L
      BY <1>2, <2>2, <2>3, <2>4
    <3>5. QED
      BY <1>2, <1>6, <1>8, <2>4, <3>3, <3>4
  <2>7. QED
    BY <1>2, <1>6, <2>5, <2>6
<1>9. QED
  BY <1>2, <1>6, <1>7, <1>8

-----------------------------------------------------------------------------
\* Whole steps, and how many of them fit.
LEMMA WholeSteps ==
  ASSUME NEW p \in Nat \ {0}, NEW x \in Nat, NEW y \in Nat, x <= y
  PROVE  /\ x \div p \in Nat /\ x % p \in 0..(p - 1) /\ x = (x \div p) * p + (x % p)
         /\ x \div p <= y \div p
<1>1. PICK q, r, m, n : q = x \div p /\ r = x % p /\ m = y \div p /\ n = y % p
  OBVIOUS
<1>2. /\ q \in Nat /\ r \in 0..(p - 1) /\ x = p * q + r
      /\ m \in Nat /\ n \in 0..(p - 1) /\ y = p * m + n
  BY <1>1
<1>3. p * q = q * p /\ p * m = m * p /\ q * p \in Int /\ m * p \in Int
  BY <1>2
<1>4. ~(m < q)
  <2>1. m < q => m * p + p <= q * p
    BY <1>2, DayAfter
  <2>2. QED
    BY <1>2, <1>3, <2>1
<1>5. QED
  BY <1>1, <1>2, <1>3, <1>4

LEMMA WholeStep ==
  ASSUME NEW p \in Nat \ {0}, NEW i \in Nat
  PROVE  i * p \in Nat /\ (i * p) % p = 0 /\ (i * p) \div p = i
<1>1. i * p \in Nat /\ i * p = p * i
  OBVIOUS
<1>2. (p * i) % p = 0 /\ (p * i) \div p = i
  OBVIOUS
<1>3. QED
  BY <1>1, <1>2

\* The times of a day are those the window and its interval call for, and no more than a day may have.
LEMMA TimesAre ==
  ASSUME NEW s, IsSchedule(s)
  PROVE  /\ SecondsWithinDay(s) = Times(s)
         /\ Times(s) \in SUBSET (0..(DayLength - 1)) /\ Times(s) # {}
         /\ IsFiniteSet(Times(s)) /\ Cardinality(Times(s)) <= MaxPerDay
<1>1. PICK a, L, M : a = s.timeOfDay /\ L = DayLength /\ M = MaxPerDay
  OBVIOUS
<1>2. L \in Nat \ {0} /\ M \in Nat \ {0} /\ a \in 0..(L - 1)
  BY <1>1, RecurrenceAssumption DEF IsSchedule
<1>3. CASE WindowParts(s) = {}
  <2>1. s.endTimeOfDay = None
    <3>1. "endTimeOfDay" \notin WindowParts(s)
      BY <1>3
    <3>2. QED
      BY <3>1 DEF WindowParts
  <2>2. WindowParts(s) # {"endTimeOfDay", "repeatEvery", "repeatUnit"}
    BY <1>3
  <2>3. SecondsWithinDay(s) = {a}
    BY <1>1, <2>2 DEF SecondsWithinDay
  <2>4. Times(s) = {a}
    BY <1>1, <2>1 DEF Times
  <2>5. IsFiniteSet({a}) /\ Cardinality({a}) = 1
    BY FS_Singleton
  <2>6. QED
    BY <1>1, <1>2, <2>3, <2>4, <2>5
<1>4. CASE WindowParts(s) # {}
  <2>1. PICK b, p : b = s.endTimeOfDay /\ p = StepSeconds(s.repeatEvery, s.repeatUnit)
    OBVIOUS
  <2>2. /\ WindowParts(s) = {"endTimeOfDay", "repeatEvery", "repeatUnit"}
        /\ b \in a..(L - 1) /\ PerDay(s) <= M
        /\ s.repeatEvery \in Nat \ {0} /\ s.repeatUnit \in DOMAIN UnitSeconds
    BY <1>1, <1>4, <2>1 DEF IsSchedule
  <2>3. b # None
    <3>1. "endTimeOfDay" \in WindowParts(s)
      BY <2>2
    <3>2. QED
      BY <2>1, <3>1 DEF WindowParts
  <2>4. p \in Nat \ {0}
    <3>1. PICK n, m : n = s.repeatEvery /\ m = UnitSeconds[s.repeatUnit]
      OBVIOUS
    <3>2. n \in Nat \ {0} /\ m \in Nat \ {0}
      BY <2>2, <3>1, RecurrenceAssumption
    <3>3. n * m \in Nat \ {0}
      BY <3>2
    <3>4. QED
      BY <2>1, <3>1, <3>3 DEF StepSeconds
  <2>5. a \in Nat /\ b \in Nat /\ a <= b /\ b < L
    BY <1>2, <2>2
  <2>6. (b - a) \div p < M
    <3>1. PerDay(s) = (b - a) \div p + 1
      BY <1>1, <2>1 DEF PerDay
    <3>2. (b - a) \div p \in Nat
      <4>1. b - a \in Nat
        BY <2>5
      <4>2. QED
        BY <2>4, <4>1, WholeSteps
    <3>3. QED
      BY <1>2, <2>2, <3>1, <3>2
  <2>7. SecondsWithinDay(s) = {at \in {a + i * p : i \in 0..(M - 1)} : at <= b}
    BY <1>1, <2>1, <2>2, <2>5 DEF SecondsWithinDay
  <2>8. Times(s) = {t \in a..b : (t - a) % p = 0}
    BY <1>1, <2>1, <2>3 DEF Times
  <2>9. ASSUME NEW i \in 0..(M - 1), a + i * p <= b
        PROVE  a + i * p \in a..b /\ ((a + i * p) - a) % p = 0
    <3>1. i \in Nat
      BY <1>2
    <3>2. PICK x : x = i * p
      OBVIOUS
    <3>3. x \in Nat /\ x % p = 0
      BY <2>4, <3>1, <3>2, WholeStep
    <3>4. (a + x) - a = x /\ a + x \in a..b
      BY <2>5, <2>9, <3>2, <3>3
    <3>5. QED
      BY <3>2, <3>3, <3>4
  <2>10. ASSUME NEW t \in a..b, (t - a) % p = 0
         PROVE  \E i \in 0..(M - 1) : t = a + i * p
    <3>1. t - a \in Nat /\ b - a \in Nat /\ t - a <= b - a /\ t \in Int
      BY <2>5
    <3>2. PICK i : i = (t - a) \div p
      OBVIOUS
    <3>3. i \in Nat /\ t - a = i * p + ((t - a) % p) /\ i <= (b - a) \div p
      BY <2>4, <3>1, <3>2, WholeSteps
    <3>4. (b - a) \div p \in Nat
      BY <2>4, <3>1, WholeSteps
    <3>5. i \in 0..(M - 1)
      BY <1>2, <2>6, <3>3, <3>4
    <3>6. i * p \in Int
      BY <2>4, <3>3
    <3>7. t = a + i * p
      BY <2>5, <2>10, <3>1, <3>3, <3>6
    <3>8. QED
      BY <3>5, <3>7
  <2>11. \A t \in a..b : t <= b
    BY <2>5
  <2>12. SecondsWithinDay(s) = Times(s)
    BY <2>7, <2>8, <2>9, <2>10, <2>11
  <2>13. Times(s) \in SUBSET (0..(L - 1))
    <3>1. a..b \in SUBSET (0..(L - 1))
      BY <1>2, <2>5
    <3>2. QED
      BY <2>8, <3>1
  <2>14. a \in Times(s)
    <3>1. a \in a..b /\ a - a = 0
      BY <2>5
    <3>2. 0 % p = 0
      BY <2>4
    <3>3. QED
      BY <2>8, <3>1, <3>2
  <2>15. IsFiniteSet(Times(s)) /\ Cardinality(Times(s)) <= M
    <3>1. PICK f, R : f = [i \in 0..(M - 1) |-> a + i * p] /\ R = {a + i * p : i \in 0..(M - 1)}
      OBVIOUS
    <3>2. f \in Surjection(0..(M - 1), R)
      BY <3>1 DEF Surjection
    <3>3. IsFiniteSet(0..(M - 1)) /\ Cardinality(0..(M - 1)) = M
      <4>1. M - 1 \in Int /\ ~(0 > M - 1) /\ M - 1 - 0 + 1 = M
        BY <1>2
      <4>2. QED
        BY <4>1, FS_Interval
    <3>4. IsFiniteSet(R) /\ Cardinality(R) <= M
      BY <3>2, <3>3, FS_Surjection
    <3>5. Times(s) \in SUBSET R
      BY <2>7, <2>12, <3>1
    <3>6. IsFiniteSet(Times(s)) /\ Cardinality(Times(s)) <= Cardinality(R)
      BY <3>4, <3>5, FS_Subset
    <3>7. Cardinality(Times(s)) \in Nat /\ Cardinality(R) \in Nat
      BY <3>4, <3>6, FS_CardinalityType
    <3>8. QED
      BY <1>2, <3>4, <3>6, <3>7
  <2>16. QED
    BY <1>1, <2>12, <2>13, <2>14, <2>15
<1>5. QED
  BY <1>3, <1>4

\* What the engine collects of a day is what the day's clock shows at those times, in order.
LEMMA DayIs ==
  ASSUME NEW s, IsSchedule(s), NEW d \in Nat
  PROVE  /\ OfDay(s, d) = {ResolveInstant(d, t, s.timezone) : t \in Times(s)}
         /\ OfDay(s, d) \in SUBSET Int /\ OfDay(s, d) # {}
         /\ IsFiniteSet(OfDay(s, d)) /\ Cardinality(OfDay(s, d)) <= MaxPerDay
         /\ DayInstants(s, d) = Ordered(OfDay(s, d))
<1>1. PICK z, L, T, R : /\ z = s.timezone /\ L = DayLength /\ T = Times(s)
                        /\ R = {ResolveInstant(d, t, z) : t \in T}
  OBVIOUS
<1>2. z \in Zones /\ L \in Nat \ {0}
  BY <1>1, RecurrenceAssumption DEF IsSchedule
<1>3. T \in SUBSET (0..(L - 1)) /\ T # {} /\ IsFiniteSet(T) /\ Cardinality(T) <= MaxPerDay
      /\ SecondsWithinDay(s) = T
  BY <1>1, TimesAre
<1>4. ASSUME NEW t \in T
      PROVE  /\ ResolveInstant(d, t, z) \in Int
             /\ InstantOf(z, d * L + t) = ResolveInstant(d, t, z)
  <2>1. t \in Int /\ d * L \in Int
    BY <1>2, <1>3
  <2>2. d * L + t \in Int
    BY <2>1
  <2>3. QED
    BY <1>1, <1>2, <2>2, InstantIsResolved DEF ResolveInstant
<1>5. OfDay(s, d) = R
  <2>1. OfDay(s, d) = {InstantOf(z, d * L + t) : t \in T}
    BY <1>1 DEF OfDay
  <2>2. QED
    BY <1>1, <1>4, <2>1
<1>6. R \in SUBSET Int /\ R # {}
  BY <1>1, <1>3, <1>4
<1>7. IsFiniteSet(R) /\ Cardinality(R) <= MaxPerDay
  <2>1. PICK f : f = [t \in T |-> ResolveInstant(d, t, z)]
    OBVIOUS
  <2>2. f \in Surjection(T, R)
    BY <1>1, <2>1 DEF Surjection
  <2>3. IsFiniteSet(R) /\ Cardinality(R) <= Cardinality(T)
    BY <1>3, <2>2, FS_Surjection
  <2>4. Cardinality(R) \in Nat /\ Cardinality(T) \in Nat /\ MaxPerDay \in Nat
    BY <1>3, <2>3, FS_CardinalityType, RecurrenceAssumption
  <2>5. QED
    BY <1>3, <2>3, <2>4
<1>8. DayInstants(s, d) = Ordered(R)
  BY <1>1, <1>3 DEF DayInstants
<1>9. QED
  BY <1>1, <1>5, <1>6, <1>7, <1>8

-----------------------------------------------------------------------------
\* The folds.  One round of each, told apart by name, so that what they share is said once.
Round(fold, a, state, i) ==
  CASE fold = "months"   -> state + a[i]
    [] fold = "instants" -> VisitInstant(a.spec, a.window, a.limit, state, a.seq[a.places[i]], a.places[i], Len(a.seq))
    [] fold = "dates"    -> VisitDate(a.spec, a.window, a.limit, state, a.seq[i])

\* it is the state after any set of the rounds, as the fold takes them.
Loops(it, fold, a, base, n) ==
  it = [S \in SUBSET (1..n) |->
          IF S = {} THEN base ELSE Round(fold, a, it[S \ {Max(S)}], Max(S))]

LEMMA Upto ==
  ASSUME NEW m \in Nat
  PROVE  /\ m + 1 \in 1..(m + 1) /\ (1..(m + 1)) \ {m + 1} = 1..m
         /\ \A T \in SUBSET (1..(m + 1)) :
              T \ {m + 1} \in SUBSET (1..m) /\ (m + 1 \notin T => T \in SUBSET (1..m))
         /\ \A n \in Nat : m + 1 <= n => 1..(m + 1) \in SUBSET (1..n)
<1>1. \A x : x \in 1..(m + 1) <=> x \in 1..m \/ x = m + 1
  OBVIOUS
<1>2. m + 1 \notin 1..m
  OBVIOUS
<1>3. ASSUME NEW n \in Nat, m + 1 <= n
      PROVE  1..(m + 1) \in SUBSET (1..n)
  BY <1>3
<1>4. QED
  BY <1>1, <1>2, <1>3

LEMMA LastOf ==
  ASSUME NEW n \in Nat, NEW T \in SUBSET (1..n), n \in T
  PROVE  Max(T) = n
<1>1. \A x \in T : x \in Int /\ x <= n
  OBVIOUS
<1>2. \A x \in T : (\A y \in T : x >= y) => x = n
  BY <1>1
<1>3. QED
  BY <1>1, <1>2 DEF Max

LEMMA LoopsExist ==
  ASSUME NEW fold, NEW a, NEW base, NEW n \in Nat
  PROVE  \E it : Loops(it, fold, a, base, n)
<1> DEFINE S == {m \in Nat : \E it : Loops(it, fold, a, base, m)}
<1>1. 0 \in S
  <2>1. Loops([T \in {{}} |-> base], fold, a, base, 0)
    BY DEF Loops
  <2>2. QED
    BY <2>1
<1>2. ASSUME NEW m \in Nat, m \in S
      PROVE  m + 1 \in S
  <2>1. PICK it : Loops(it, fold, a, base, m)
    BY <1>2
  <2> DEFINE more == [T \in SUBSET (1..(m + 1)) |->
                        IF m + 1 \notin T THEN it[T]
                        ELSE Round(fold, a, it[T \ {m + 1}], m + 1)]
  <2>2. ASSUME NEW T \in SUBSET (1..(m + 1))
        PROVE  more[T] = IF T = {} THEN base
                         ELSE Round(fold, a, more[T \ {Max(T)}], Max(T))
    <3>1. CASE m + 1 \notin T
      <4> DEFINE U == T \ {Max(T)}
      <4>1. T \in SUBSET (1..m) /\ U \in SUBSET (1..(m + 1)) /\ m + 1 \notin U
        BY <3>1, Upto
      <4>2. more[T] = it[T] /\ more[U] = it[U]
        BY <4>1, <3>1
      <4>3. QED
        BY <2>1, <4>1, <4>2 DEF Loops
    <3>2. CASE m + 1 \in T
      <4>1. Max(T) = m + 1
        BY <3>2, LastOf
      <4>2. T \ {m + 1} \in SUBSET (1..(m + 1)) /\ m + 1 \notin T \ {m + 1}
        OBVIOUS
      <4>3. QED
        BY <3>2, <4>1, <4>2
    <3>3. QED
      BY <3>1, <3>2
  <2>3. Loops(more, fold, a, base, m + 1)
    <3>1. more = [T \in SUBSET (1..(m + 1)) |-> more[T]]
      OBVIOUS
    <3> HIDE DEF more
    <3>2. [T \in SUBSET (1..(m + 1)) |-> more[T]]
            = [T \in SUBSET (1..(m + 1)) |->
                 IF T = {} THEN base ELSE Round(fold, a, more[T \ {Max(T)}], Max(T))]
      BY ONLY <2>2
    <3>3. QED
      BY ONLY <3>1, <3>2 DEF Loops
  <2>4. QED
    BY <2>3
<1> HIDE DEF S
<1>3. n \in S
  BY <1>1, <1>2, Induction
<1>4. QED
  BY <1>3 DEF S

\* The states a fold goes through to what it comes to.
Through(st, fold, a, base, n, outcome) ==
  /\ st[0] = base
  /\ \A k \in Nat : k < n => st[k + 1] = Round(fold, a, st[k], k + 1)
  /\ outcome = st[n]

LEMMA Unrolled ==
  ASSUME NEW fold, NEW a, NEW base, NEW n \in Nat, NEW it, Loops(it, fold, a, base, n)
  PROVE  \E st : Through(st, fold, a, base, n, it[1..n])
<1> DEFINE st == [k \in Nat |-> it[1..k]]
<1>3. st[0] = base
  <2>1. 1..0 = {} /\ {} \in SUBSET (1..n)
    OBVIOUS
  <2>2. it[{}] = base
    BY <2>1 DEF Loops
  <2>3. QED
    BY <2>1, <2>2
<1>4. ASSUME NEW k \in Nat, k < n
      PROVE  st[k + 1] = Round(fold, a, st[k], k + 1)
  <2>1. PICK T : T = 1..(k + 1)
    OBVIOUS
  <2>2. T \in SUBSET (1..n) /\ k + 1 \in T /\ T \ {k + 1} = 1..k
    <3>1. k + 1 <= n
      BY <1>4
    <3>2. QED
      BY <2>1, <3>1, Upto
  <2>3. T # {} /\ Max(T) = k + 1
    <3>1. k + 1 \in Nat /\ T \in SUBSET (1..(k + 1)) /\ k + 1 \in T
      BY <2>1, <2>2
    <3>2. QED
      BY <3>1, LastOf
  <2>4. it[T] = Round(fold, a, it[T \ {Max(T)}], Max(T))
    BY <2>2, <2>3 DEF Loops
  <2>5. it[T] = Round(fold, a, it[1..k], k + 1)
    BY ONLY <2>2, <2>3, <2>4
  <2>6. st[k] = it[1..k] /\ st[k + 1] = it[T]
    <3>1. k + 1 \in Nat
      OBVIOUS
    <3>2. QED
      BY <2>1, <3>1
  <2>7. QED
    BY ONLY <2>5, <2>6
<1>5. it[1..n] = st[n]
  OBVIOUS
<1> HIDE DEF st
<1>6. Through(st, fold, a, base, n, it[1..n])
  BY <1>3, <1>4, <1>5 DEF Through
<1>7. QED
  BY <1>6

LEMMA MonthsFolded ==
  ASSUME NEW a, NEW n \in Nat, DOMAIN a = 1..n
  PROVE  \E st : Through(st, "months", a, 0, n, FoldLeft(+, 0, a))
<1> DEFINE Goes(it) == it = [S \in SUBSET (DOMAIN a) |->
                               IF S = {} THEN 0 ELSE it[S \ {Max(S)}] + a[Max(S)]]
<1>1. ASSUME NEW it
      PROVE  Goes(it) <=> Loops(it, "months", a, 0, n)
  <2>1. \A S \in SUBSET (1..n) : (IF S = {} THEN 0 ELSE it[S \ {Max(S)}] + a[Max(S)])
          = (IF S = {} THEN 0 ELSE Round("months", a, it[S \ {Max(S)}], Max(S)))
    BY DEF Round
  <2>2. [S \in SUBSET (1..n) |-> IF S = {} THEN 0 ELSE it[S \ {Max(S)}] + a[Max(S)]]
          = [S \in SUBSET (1..n) |->
               IF S = {} THEN 0 ELSE Round("months", a, it[S \ {Max(S)}], Max(S))]
    BY ONLY <2>1
  <2>3. QED
    BY <2>2 DEF Loops
<1>2. \E it : Goes(it)
  BY <1>1, LoopsExist
<1>3. FoldLeft(+, 0, a) = (CHOOSE it : Goes(it))[1..n]
  BY DEF FoldLeft, MapThenFoldSet
<1> HIDE DEF Goes
<1>4. PICK it : it = CHOOSE i : Goes(i)
  OBVIOUS
<1>5. Loops(it, "months", a, 0, n)
  BY <1>1, <1>2, <1>4
<1>6. QED
  BY <1>3, <1>4, <1>5, Unrolled

\* What the rounds of each fold are given.
InstantsGiven(s, w, l, seq) ==
  [spec |-> s, window |-> w, limit |-> l, seq |-> seq, places |-> [i \in DOMAIN seq |-> i]]
DatesGiven(s, w, l, seq) == [spec |-> s, window |-> w, limit |-> l, seq |-> seq]

OverInstants(s, w, l, base, seq) ==
  FoldLeftDomain(LAMBDA state, i : VisitInstant(s, w, l, state, seq[i], i, Len(seq)), base, seq)
OverDates(s, w, l, base, seq) ==
  FoldLeft(LAMBDA state, date : VisitDate(s, w, l, state, date), base, seq)

LEMMA InstantsFolded ==
  ASSUME NEW s, NEW w, NEW l, NEW base, NEW seq, NEW n \in Nat, DOMAIN seq = 1..n
  PROVE  \E st : Through(st, "instants", InstantsGiven(s, w, l, seq), base, n,
                            OverInstants(s, w, l, base, seq))
<1> DEFINE places == [i \in DOMAIN seq |-> i]
           Step(state, p) == VisitInstant(s, w, l, state, seq[p], p, Len(seq))
           Goes(it) == it = [S \in SUBSET (DOMAIN places) |->
             IF S = {} THEN base ELSE Step(it[S \ {Max(S)}], places[Max(S)])]
<1> PICK a : a = InstantsGiven(s, w, l, seq)
  OBVIOUS
<1>0. DOMAIN places = 1..n
  OBVIOUS
<1>1. ASSUME NEW it
      PROVE  Goes(it) <=> Loops(it, "instants", a, base, n)
  <2>1. \A state, i : Step(state, places[i]) = Round("instants", a, state, i)
    <3>1. a.spec = s /\ a.window = w /\ a.limit = l /\ a.seq = seq /\ a.places = places
      BY DEF InstantsGiven
    <3>2. QED
      BY <3>1 DEF Round
  <2> HIDE DEF Step
  <2>2. [S \in SUBSET (1..n) |-> IF S = {} THEN base ELSE Step(it[S \ {Max(S)}], places[Max(S)])]
          = [S \in SUBSET (1..n) |->
               IF S = {} THEN base ELSE Round("instants", a, it[S \ {Max(S)}], Max(S))]
    BY ONLY <2>1
  <2>3. QED
    BY <1>0, <2>2 DEF Loops
<1>2. \E it : Goes(it)
  BY <1>1, LoopsExist
<1>3. OverInstants(s, w, l, base, seq) = (CHOOSE it : Goes(it))[1..n]
  <2>1. OverInstants(s, w, l, base, seq) = (CHOOSE it : Goes(it))[DOMAIN places]
    BY DEF OverInstants, FoldLeftDomain, FoldLeft, MapThenFoldSet
  <2>2. QED
    BY <1>0, <2>1
<1> HIDE DEF Goes
<1>4. PICK it : it = CHOOSE i : Goes(i)
  OBVIOUS
<1>5. Loops(it, "instants", a, base, n)
  BY <1>1, <1>2, <1>4
<1>6. QED
  BY <1>3, <1>4, <1>5, Unrolled

LEMMA DatesFolded ==
  ASSUME NEW s, NEW w, NEW l, NEW base, NEW seq, NEW n \in Nat, DOMAIN seq = 1..n
  PROVE  \E st : Through(st, "dates", DatesGiven(s, w, l, seq), base, n,
                            OverDates(s, w, l, base, seq))
<1> DEFINE Goes(it) == it = [S \in SUBSET (DOMAIN seq) |->
             IF S = {} THEN base ELSE VisitDate(s, w, l, it[S \ {Max(S)}], seq[Max(S)])]
<1> PICK a : a = DatesGiven(s, w, l, seq)
  OBVIOUS
<1>1. ASSUME NEW it
      PROVE  Goes(it) <=> Loops(it, "dates", a, base, n)
  <2>1. \A state, i : VisitDate(s, w, l, state, seq[i]) = Round("dates", a, state, i)
    <3>1. a.spec = s /\ a.window = w /\ a.limit = l /\ a.seq = seq
      BY DEF DatesGiven
    <3>2. QED
      BY <3>1 DEF Round
  <2>2. [S \in SUBSET (1..n) |-> IF S = {} THEN base ELSE VisitDate(s, w, l, it[S \ {Max(S)}], seq[Max(S)])]
          = [S \in SUBSET (1..n) |->
               IF S = {} THEN base ELSE Round("dates", a, it[S \ {Max(S)}], Max(S))]
    BY ONLY <2>1
  <2>3. QED
    BY <2>2 DEF Loops
<1>2. \E it : Goes(it)
  BY <1>1, LoopsExist
<1>3. OverDates(s, w, l, base, seq) = (CHOOSE it : Goes(it))[1..n]
  BY DEF OverDates, FoldLeft, MapThenFoldSet
<1> HIDE DEF Goes
<1>4. PICK it : it = CHOOSE i : Goes(i)
  OBVIOUS
<1>5. Loops(it, "dates", a, base, n)
  BY <1>1, <1>2, <1>4
<1>6. QED
  BY <1>3, <1>4, <1>5, Unrolled

-----------------------------------------------------------------------------
\* The calendar: each month begins where the one before it is over.
LEMMA MonthsFollow ==
  /\ Len(MonthLengths) \in Nat \ {0} /\ Months = 1..Len(MonthLengths)
  /\ \A m \in Months : MonthLengths[m] \in Nat \ {0}
  /\ FirstOf[1] = 0
  /\ \A m \in Months : FirstOf[m + 1] = FirstOf[m] + MonthLengths[m]
<1>1. PICK n, a : n = Len(MonthLengths) /\ a = MonthLengths
  OBVIOUS
<1>2. n \in Nat \ {0} /\ DOMAIN a = 1..n /\ a \in Seq(Nat \ {0}) /\ \A m \in 1..n : a[m] \in Nat \ {0}
  <2>1. a \in Seq(Nat \ {0}) /\ a # <<>>
    BY <1>1, RecurrenceAssumption
  <2>2. QED
    BY <1>1, <2>1
<1>3. PICK st : Through(st, "months", a, 0, n, FoldLeft(+, 0, a))
  BY <1>2, MonthsFolded
<1>4. st[0] = 0 /\ \A k \in Nat : k < n => st[k + 1] = st[k] + a[k + 1]
  BY <1>3 DEF Through, Round
<1>5. ASSUME NEW m \in 1..(n + 1)
      PROVE  FirstOf[m] = st[m - 1]
  <2>1. PICK b, i : b = SubSeq(a, 1, m - 1) /\ i = m - 1
    OBVIOUS
  <2>2. i \in Nat /\ i <= n /\ DOMAIN b = 1..i /\ \A k \in 1..i : b[k] = a[k]
    BY <1>2, <2>1
  <2>3. PICK tu : Through(tu, "months", b, 0, i, FoldLeft(+, 0, b))
    BY <2>2, MonthsFolded
  <2>4. tu[0] = 0 /\ (\A k \in Nat : k < i => tu[k + 1] = tu[k] + b[k + 1]) /\ FoldLeft(+, 0, b) = tu[i]
    BY <2>3 DEF Through, Round
  <2> DEFINE S == {k \in Nat : k <= i => tu[k] = st[k]}
  <2>5. 0 \in S
    BY <1>4, <2>4
  <2>6. ASSUME NEW k \in Nat, k \in S
        PROVE  k + 1 \in S
    <3>1. SUFFICES ASSUME k + 1 <= i
                   PROVE  tu[k + 1] = st[k + 1]
      OBVIOUS
    <3>2. k < i /\ k < n /\ k + 1 \in 1..i /\ tu[k] = st[k]
      BY <1>2, <2>2, <2>6, <3>1
    <3>3. b[k + 1] = a[k + 1]
      BY <2>2, <3>2
    <3>4. QED
      BY <1>4, <2>4, <3>2, <3>3
  <2> HIDE DEF S
  <2>7. i \in S
    BY <2>2, <2>5, <2>6, Induction
  <2>8. FirstOf[m] = FoldLeft(+, 0, b)
    BY <1>1, <2>1 DEF FirstOf
  <2>9. tu[i] = st[i] /\ i <= i
    BY <2>2, <2>7 DEF S
  <2>10. FirstOf[m] = tu[i]
    BY ONLY <2>4, <2>8
  <2>11. QED
    BY ONLY <2>1, <2>9, <2>10
<1>6. FirstOf[1] = 0
  BY <1>2, <1>4, <1>5
<1>7. ASSUME NEW m \in 1..n
      PROVE  FirstOf[m + 1] = FirstOf[m] + a[m]
  <2>1. FirstOf[m] = st[m - 1] /\ FirstOf[m + 1] = st[(m + 1) - 1]
    BY <1>2, <1>5
  <2>2. (m + 1) - 1 = m /\ m - 1 \in Nat /\ m - 1 < n /\ (m - 1) + 1 = m
    BY <1>2
  <2>3. QED
    BY <1>4, <2>1, <2>2
<1>8. QED
  BY <1>1, <1>2, <1>6, <1>7 DEF Months

\* A month begins after all of those before it.
LEMMA MonthsRise ==
  /\ \A m \in 1..(Len(MonthLengths) + 1) : FirstOf[m] \in Nat
  /\ \A m \in Months, k \in 1..(Len(MonthLengths) + 1) :
       m < k => FirstOf[m] + MonthLengths[m] <= FirstOf[k]
<1>1. PICK n, a : n = Len(MonthLengths) /\ a = MonthLengths
  OBVIOUS
<1>2. /\ n \in Nat \ {0} /\ Months = 1..n /\ \A m \in 1..n : a[m] \in Nat \ {0}
      /\ FirstOf[1] = 0 /\ \A m \in 1..n : FirstOf[m + 1] = FirstOf[m] + a[m]
  BY <1>1, MonthsFollow
<1> DEFINE S == {k \in Nat : k <= n =>
                   /\ \A m \in 1..(k + 1) : FirstOf[m] \in Nat
                   /\ \A m \in 1..k : \A j \in 1..(k + 1) :
                        m < j => FirstOf[m] + a[m] <= FirstOf[j]}
<1>3. 0 \in S
  BY <1>2
<1>4. ASSUME NEW k \in Nat, k \in S
      PROVE  k + 1 \in S
  <2>1. SUFFICES ASSUME k + 1 <= n
                 PROVE  /\ \A m \in 1..((k + 1) + 1) : FirstOf[m] \in Nat
                        /\ \A m \in 1..(k + 1) : \A j \in 1..((k + 1) + 1) :
                             m < j => FirstOf[m] + a[m] <= FirstOf[j]
    OBVIOUS
  <2>2. /\ \A m \in 1..(k + 1) : FirstOf[m] \in Nat
        /\ \A m \in 1..k : \A j \in 1..(k + 1) : m < j => FirstOf[m] + a[m] <= FirstOf[j]
    BY <1>2, <1>4, <2>1
  <2>3. FirstOf[(k + 1) + 1] = FirstOf[k + 1] + a[k + 1] /\ a[k + 1] \in Nat /\ FirstOf[k + 1] \in Nat
    BY <1>2, <2>1, <2>2
  <2>4. ASSUME NEW m \in 1..(k + 1), NEW j \in 1..((k + 1) + 1), m < j
        PROVE  FirstOf[m] + a[m] <= FirstOf[j]
    <3>1. CASE j # k + 2
      <4>1. m \in 1..k /\ j \in 1..(k + 1)
        BY <2>4, <3>1
      <4>2. QED
        BY <2>2, <2>4, <4>1
    <3>2. CASE j = k + 2 /\ m = k + 1
      BY <2>3, <3>2
    <3>3. CASE j = k + 2 /\ m # k + 1
      <4>1. m \in 1..k /\ m < k + 1 /\ k + 1 \in 1..(k + 1)
        BY <2>4, <3>3
      <4>2. FirstOf[m] + a[m] <= FirstOf[k + 1]
        BY <2>2, <4>1
      <4>3. FirstOf[m] \in Nat /\ a[m] \in Nat
        BY <1>2, <2>1, <2>2, <4>1
      <4>4. j = (k + 1) + 1
        BY <3>3
      <4>5. QED
        BY <2>3, <4>2, <4>3, <4>4
    <3>4. QED
      BY <3>1, <3>2, <3>3
  <2>5. \A m \in 1..((k + 1) + 1) : m \in 1..(k + 1) \/ m = (k + 1) + 1
    OBVIOUS
  <2>6. FirstOf[(k + 1) + 1] \in Nat
    BY <2>3
  <2>7. QED
    BY <2>2, <2>4, <2>5, <2>6
<1> HIDE DEF S
<1>5. n \in S
  BY <1>2, <1>3, <1>4, Induction
<1>6. QED
  BY <1>1, <1>2, <1>5 DEF S

\* A date is in one month, and the calendar has every day of its months.
LEMMA MonthIs ==
  /\ IsFiniteSet(Dates) /\ Cardinality(Dates) \in Nat /\ Dates = 0..(Cardinality(Dates) - 1)
  /\ \A d \in Dates : /\ MonthOf[d] \in Months /\ DayOf(d) \in 1..MonthLengths[MonthOf[d]]
                      /\ d = FirstOf[MonthOf[d]] + DayOf(d) - 1
  /\ \A m \in Months : \A day \in 1..MonthLengths[m] :
       LET d == FirstOf[m] + day - 1 IN d \in Dates /\ MonthOf[d] = m /\ DayOf(d) = day
  /\ \A d, e \in Dates : d <= e => MonthOf[d] <= MonthOf[e]
<1>1. PICK n, a, F : n = Len(MonthLengths) /\ a = MonthLengths /\ F = FirstOf
  OBVIOUS
<1>2. /\ n \in Nat \ {0} /\ Months = 1..n /\ (\A m \in 1..n : a[m] \in Nat \ {0})
      /\ F[1] = 0 /\ (\A m \in 1..n : F[m + 1] = F[m] + a[m])
      /\ (\A m \in 1..(n + 1) : F[m] \in Nat)
      /\ \A m \in 1..n : \A k \in 1..(n + 1) : m < k => F[m] + a[m] <= F[k]
  <2>1. /\ n \in Nat \ {0} /\ Months = 1..n /\ \A m \in 1..n : a[m] \in Nat \ {0}
        /\ F[1] = 0 /\ \A m \in 1..n : F[m + 1] = F[m] + a[m]
    BY <1>1, MonthsFollow
  <2>2. /\ \A m \in 1..(n + 1) : F[m] \in Nat
        /\ \A m \in 1..n : \A k \in 1..(n + 1) : m < k => F[m] + a[m] <= F[k]
    BY <1>1, <2>1, MonthsRise
  <2>3. QED
    BY <2>1, <2>2
<1>3. Dates = 0..(F[n + 1] - 1) /\ F[n + 1] \in Nat
  BY <1>1, <1>2 DEF Dates
<1>4. IsFiniteSet(Dates) /\ Cardinality(Dates) = F[n + 1]
  <2>1. PICK c : c = F[n + 1] - 1
    OBVIOUS
  <2>2. c \in Int /\ (0 > c => F[n + 1] = 0) /\ c - 0 + 1 = F[n + 1]
    BY <1>3, <2>1
  <2>3. IsFiniteSet(0..c) /\ Cardinality(0..c) = IF 0 > c THEN 0 ELSE c - 0 + 1
    BY <2>2, FS_Interval
  <2>4. QED
    BY <1>3, <2>1, <2>2, <2>3
<1> DEFINE Holds(m, d) == F[m] <= d /\ d < F[m + 1]
           S == {k \in Nat : k <= n => \A d \in Nat : d < F[k + 1] => \E m \in 1..k : Holds(m, d)}
<1>5. 0 \in S
  <2>1. ~(\E d \in Nat : d < F[0 + 1])
    BY <1>2
  <2>2. QED
    BY <2>1
<1>6. ASSUME NEW k \in Nat, k \in S
      PROVE  k + 1 \in S
  <2>1. SUFFICES ASSUME k + 1 <= n, NEW d \in Nat, d < F[(k + 1) + 1]
                 PROVE  \E m \in 1..(k + 1) : Holds(m, d)
    OBVIOUS
  <2>2. CASE d < F[k + 1]
    <3>1. PICK m \in 1..k : Holds(m, d)
      BY <1>2, <1>6, <2>1, <2>2
    <3>2. m \in 1..(k + 1)
      OBVIOUS
    <3>3. QED
      BY <3>1, <3>2
  <2>3. CASE ~(d < F[k + 1])
    <3>1. F[k + 1] \in Nat
      BY <1>2, <2>1
    <3>2. Holds(k + 1, d)
      BY <2>1, <2>3, <3>1
    <3>3. QED
      BY <3>2
  <2>4. QED
    BY <2>2, <2>3
<1> HIDE DEF S
<1>7. n \in S
  BY <1>2, <1>5, <1>6, Induction
<1>8. ASSUME NEW d \in Dates
      PROVE  \E m \in 1..n : Holds(m, d)
  <2>1. d \in Nat /\ d < F[n + 1]
    BY <1>3
  <2>2. QED
    BY <1>2, <1>7, <2>1 DEF S
<1>9. ASSUME NEW d \in Int, NEW m \in 1..n, NEW k \in 1..n, Holds(m, d), Holds(k, d)
      PROVE  m = k
  <2>1. m + 1 \in 1..(n + 1) /\ k + 1 \in 1..(n + 1) /\ m \in 1..(n + 1) /\ k \in 1..(n + 1)
    BY <1>2
  <2>2. F[m] \in Nat /\ F[k] \in Nat /\ F[m + 1] = F[m] + a[m] /\ F[k + 1] = F[k] + a[k]
    BY <1>2, <2>1
  <2>3. a[m] \in Nat /\ a[k] \in Nat
    BY <1>2
  <2>4. ~(m < k)
    <3>1. m < k => F[m] + a[m] <= F[k]
      BY <1>2, <2>1
    <3>2. QED
      BY <1>9, <2>2, <2>3, <3>1
  <2>5. ~(k < m)
    <3>1. k < m => F[k] + a[k] <= F[m]
      BY <1>2, <2>1
    <3>2. QED
      BY <1>9, <2>2, <2>3, <3>1
  <2>6. QED
    BY <2>4, <2>5
<1>10. ASSUME NEW d \in Dates
       PROVE  MonthOf[d] \in 1..n /\ Holds(MonthOf[d], d)
  <2>1. MonthOf[d] = CHOOSE m \in 1..n : Holds(m, d)
    BY <1>1, <1>2 DEF MonthOf
  <2>2. QED
    BY <1>8, <2>1
<1>11. ASSUME NEW d \in Dates
       PROVE  DayOf(d) \in 1..a[MonthOf[d]] /\ d = F[MonthOf[d]] + DayOf(d) - 1
  <2>1. PICK m : m = MonthOf[d]
    OBVIOUS
  <2>2. m \in 1..n /\ F[m] <= d /\ d < F[m + 1] /\ d \in Int
    BY <1>3, <1>10, <2>1
  <2>3. F[m] \in Nat /\ F[m + 1] = F[m] + a[m] /\ a[m] \in Nat
    <3>1. m \in 1..(n + 1)
      BY <1>2, <2>2
    <3>2. QED
      BY <1>2, <2>2, <3>1
  <2>4. DayOf(d) = d - F[m] + 1
    BY <1>1, <2>1 DEF DayOf
  <2>5. QED
    BY <2>1, <2>2, <2>3, <2>4
<1>12. ASSUME NEW m \in 1..n, NEW day \in 1..a[m]
       PROVE  LET d == F[m] + day - 1 IN d \in Dates /\ MonthOf[d] = m /\ DayOf(d) = day
  <2>1. PICK d : d = F[m] + day - 1
    OBVIOUS
  <2>2. F[m] \in Nat /\ F[m + 1] = F[m] + a[m] /\ a[m] \in Nat /\ day \in Nat /\ 1 <= day /\ day <= a[m]
    <3>1. m \in 1..(n + 1) /\ a[m] \in Nat
      BY <1>2
    <3>2. QED
      BY <1>2, <3>1
  <2>3. d \in Int /\ Holds(m, d) /\ 0 <= d
    BY <2>1, <2>2
  <2>4. F[m + 1] <= F[n + 1] /\ F[m + 1] \in Nat
    <3>1. CASE m = n
      BY <1>3, <3>1
    <3>2. CASE m # n
      <4>1. m < n + 1 /\ n + 1 \in 1..(n + 1)
        BY <1>2, <3>2
      <4>2. F[m] + a[m] <= F[n + 1]
        BY <1>2, <4>1
      <4>3. QED
        BY <2>2, <4>2
    <3>3. QED
      BY <3>1, <3>2
  <2>5. d \in Dates
    BY <1>3, <2>3, <2>4
  <2>6. MonthOf[d] = m
    BY <1>9, <1>10, <2>3, <2>5
  <2>7. DayOf(d) = d - F[m] + 1
    BY <1>1, <2>6 DEF DayOf
  <2>8. DayOf(d) = day
    BY <2>1, <2>2, <2>7
  <2>9. QED
    BY <2>1, <2>5, <2>6, <2>8
<1>13. ASSUME NEW d \in Dates, NEW e \in Dates, d <= e
       PROVE  MonthOf[d] <= MonthOf[e]
  <2>1. PICK m, k : m = MonthOf[d] /\ k = MonthOf[e]
    OBVIOUS
  <2>2. m \in 1..n /\ k \in 1..n /\ F[m] <= d /\ e < F[k + 1] /\ d \in Int /\ e \in Int
    BY <1>3, <1>10, <2>1
  <2>3. F[m] \in Nat /\ F[k + 1] = F[k] + a[k] /\ F[k] \in Nat /\ a[k] \in Nat
    <3>1. m \in 1..(n + 1) /\ k \in 1..(n + 1)
      BY <1>2, <2>2
    <3>2. QED
      BY <1>2, <2>2, <3>1
  <2>4. k < m => F[k] + a[k] <= F[m]
    <3>1. m \in 1..(n + 1)
      BY <1>2, <2>2
    <3>2. QED
      BY <1>2, <2>2, <3>1
  <2>5. ~(k < m)
    BY <1>13, <2>2, <2>3, <2>4
  <2>6. QED
    BY <2>1, <2>2, <2>5
<1>14. QED
  BY <1>1, <1>2, <1>3, <1>4, <1>10, <1>11, <1>12, <1>13

-----------------------------------------------------------------------------
\* Weekdays.  A number is told by its quotient and its remainder.
LEMMA DivisionIs ==
  ASSUME NEW p \in Nat \ {0}, NEW q \in Int, NEW r \in 0..(p - 1), NEW x, x = q * p + r
  PROVE  x \in Int /\ x % p = r /\ x \div p = q
<1>1. PICK m, n : m = x \div p /\ n = x % p
  OBVIOUS
<1>2. x \in Int /\ q * p \in Int /\ r \in Nat /\ r < p
  OBVIOUS
<1>3. m \in Int /\ n \in Nat /\ n < p /\ x = p * m + n
  BY <1>1, <1>2
<1>4. p * m = m * p /\ m * p \in Int
  BY <1>3
<1>5. ~(m < q)
  <2>1. m < q => m * p + p <= q * p
    BY <1>3, DayAfter
  <2>2. QED
    BY <1>2, <1>3, <1>4, <2>1
<1>6. ~(q < m)
  <2>1. q < m => q * p + p <= m * p
    BY <1>3, DayAfter
  <2>2. QED
    BY <1>2, <1>3, <1>4, <2>1
<1>7. q = m
  BY <1>3, <1>5, <1>6
<1>8. n = r
  BY <1>2, <1>3, <1>4, <1>7
<1>9. QED
  BY <1>1, <1>2, <1>7, <1>8

LEMMA Divided ==
  ASSUME NEW p \in Nat \ {0}, NEW x \in Int
  PROVE  x \div p \in Int /\ x % p \in 0..(p - 1) /\ x = (x \div p) * p + (x % p)
<1>1. PICK m, n : m = x \div p /\ n = x % p
  OBVIOUS
<1>2. m \in Int /\ n \in Nat /\ n < p /\ x = p * m + n
  BY <1>1
<1>3. p * m = m * p
  BY <1>2
<1>4. QED
  BY <1>1, <1>2, <1>3

\* How far it is on to a weekday, and how far back.
LEMMA StepsBetween ==
  ASSUME NEW p \in Nat \ {0}, NEW u \in 0..(p - 1), NEW v \in 0..(p - 1)
  PROVE  (v - u + p) % p = IF u <= v THEN v - u ELSE v - u + p
<1>1. CASE u <= v
  <2>1. PICK x, r : x = v - u + p /\ r = v - u
    OBVIOUS
  <2>2. r \in 0..(p - 1) /\ x = 1 * p + r
    BY <1>1, <2>1
  <2>3. x % p = r
    BY <2>2, DivisionIs
  <2>4. QED
    BY <1>1, <2>1, <2>3
<1>2. CASE ~(u <= v)
  <2>1. PICK x : x = v - u + p
    OBVIOUS
  <2>2. x \in 0..(p - 1) /\ x = 0 * p + x
    BY <1>2, <2>1
  <2>3. x % p = x
    BY <2>2, DivisionIs
  <2>4. QED
    BY <1>2, <2>1, <2>3
<1>3. QED
  BY <1>1, <1>2

\* r days on from f, in weeks of p days, it is v, and j days on from f; or r days back from n
\* it is v, and x is in the week up to n.
Ahead(p, f, v, j, r) == f \in Nat /\ v \in 0..(p - 1) /\ j \in Int /\ r = (v - (f % p) + p) % p
Back(p, n, v, x, r) ==
  n \in Int /\ v \in 0..(p - 1) /\ x \in Int /\ n - p < x /\ x <= n /\ r = ((n % p) - v + p) % p

\* Seen from a day f: how far ahead the weekday v comes for the time after q weeks.
LEMMA NthIs ==
  ASSUME NEW p \in Nat \ {0}, NEW q \in Nat, NEW f, NEW v, NEW j, NEW r, Ahead(p, f, v, j, r)
  PROVE  /\ r \in Nat /\ q * p \in Nat
         /\ ((f + j) % p = v /\ j \div p = q) <=> j = r + q * p
<1>0. /\ f \in Nat /\ v \in 0..(p - 1) /\ j \in Int
      /\ r = (v - (f % p) + p) % p
  BY DEF Ahead
<1>1. PICK a, c : a = f \div p /\ c = f % p
  OBVIOUS
<1>2. a \in Int /\ c \in 0..(p - 1) /\ f = a * p + c /\ q \in Nat /\ v \in Int
  BY <1>0, <1>1, Divided
<1>3. r = (IF c <= v THEN v - c ELSE v - c + p) /\ r \in 0..(p - 1)
  <2>1. r = IF c <= v THEN v - c ELSE v - c + p
    BY <1>0, <1>1, <1>2, StepsBetween
  <2>2. QED
    BY <1>0, <1>2, <2>1
<1>4. q * p \in Nat /\ a * p \in Int
  BY <1>0, <1>2
<1>5. ASSUME j = r + q * p
      PROVE  (f + j) % p = v /\ j \div p = q
  <2>1. j \div p = q
    <3>1. j = q * p + r /\ q \in Int
      BY <1>2, <1>3, <1>4, <1>5
    <3>2. QED
      BY <1>0, <1>3, <3>1, DivisionIs
  <2>2. CASE c <= v
    <3>1. f + j = (a * p + q * p) + v
      BY <1>0, <1>2, <1>3, <1>4, <1>5, <2>2
    <3>2. a * p + q * p = (a + q) * p /\ a + q \in Int
      BY <1>0, <1>2
    <3>3. f + j = (a + q) * p + v
      BY <1>0, <3>1, <3>2
    <3>4. (f + j) % p = v
      <4>1. PICK x, m : x = f + j /\ m = a + q
        OBVIOUS
      <4>2. m \in Int /\ x = m * p + v
        BY <1>0, <3>2, <3>3, <4>1
      <4>3. x % p = v
        BY <1>0, <4>2, DivisionIs
      <4>4. QED
        BY <1>0, <4>1, <4>3
    <3>5. QED
      BY <1>0, <2>1, <3>4
  <2>3. CASE ~(c <= v)
    <3>1. f + j = (a * p + q * p + p) + v
      BY <1>0, <1>2, <1>3, <1>4, <1>5, <2>3
    <3>2. a * p + q * p + p = (a + q + 1) * p /\ a + q + 1 \in Int
      BY <1>0, <1>2
    <3>3. f + j = (a + q + 1) * p + v
      BY <1>0, <3>1, <3>2
    <3>4. (f + j) % p = v
      <4>1. PICK x, m : x = f + j /\ m = a + q + 1
        OBVIOUS
      <4>2. m \in Int /\ x = m * p + v
        BY <1>0, <3>2, <3>3, <4>1
      <4>3. x % p = v
        BY <1>0, <4>2, DivisionIs
      <4>4. QED
        BY <1>0, <4>1, <4>3
    <3>5. QED
      BY <1>0, <2>1, <3>4
  <2>4. QED
    BY <1>0, <2>2, <2>3
<1>6. ASSUME (f + j) % p = v, j \div p = q
      PROVE  j = r + q * p
  <2>1. PICK i : i = j % p
    OBVIOUS
  <2>2. i \in 0..(p - 1) /\ j = q * p + i
    BY <1>0, <1>6, <2>1, Divided
  <2>3. CASE c + i < p
    <3>1. f + j = (a * p + q * p) + (c + i) /\ c + i \in 0..(p - 1)
      BY <1>0, <1>2, <1>4, <2>2, <2>3
    <3>2. a * p + q * p = (a + q) * p /\ a + q \in Int
      BY <1>0, <1>2
    <3>3. f + j = (a + q) * p + (c + i)
      BY <1>0, <3>1, <3>2
    <3>4. c + i = v
      <4>1. PICK x, m, l : x = f + j /\ m = a + q /\ l = c + i
        OBVIOUS
      <4>2. m \in Int /\ x = m * p + l /\ l \in 0..(p - 1)
        BY <1>0, <3>1, <3>2, <3>3, <4>1
      <4>3. x % p = l
        BY <1>0, <4>2, DivisionIs
      <4>4. QED
        BY <1>0, <1>6, <4>1, <4>3
    <3>5. i = r
      BY <1>0, <1>2, <1>3, <2>2, <3>4
    <3>6. QED
      BY <1>0, <1>4, <2>2, <3>5
  <2>4. CASE ~(c + i < p)
    <3>1. f + j = (a * p + q * p + p) + (c + i - p) /\ c + i - p \in 0..(p - 1)
      BY <1>0, <1>2, <1>4, <2>2, <2>4
    <3>2. a * p + q * p + p = (a + q + 1) * p /\ a + q + 1 \in Int
      BY <1>0, <1>2
    <3>3. f + j = (a + q + 1) * p + (c + i - p)
      BY <1>0, <3>1, <3>2
    <3>4. c + i - p = v
      <4>1. PICK x, m, l : x = f + j /\ m = a + q + 1 /\ l = c + i - p
        OBVIOUS
      <4>2. m \in Int /\ x = m * p + l /\ l \in 0..(p - 1)
        BY <1>0, <3>1, <3>2, <3>3, <4>1
      <4>3. x % p = l
        BY <1>0, <4>2, DivisionIs
      <4>4. QED
        BY <1>0, <1>6, <4>1, <4>3
    <3>5. i = r
      BY <1>0, <1>2, <1>3, <2>2, <3>4
    <3>6. QED
      BY <1>0, <1>4, <2>2, <3>5
  <2>5. QED
    BY <1>0, <2>3, <2>4
<1>7. r \in Nat
  BY <1>0, <1>3
<1>8. QED
  BY <1>0, <1>1, <1>4, <1>5, <1>6, <1>7

\* And how far back it was for the last time.
LEMMA LastIs ==
  ASSUME NEW p \in Nat \ {0}, NEW n, NEW v, NEW x, NEW r, Back(p, n, v, x, r)
  PROVE  r \in 0..(p - 1) /\ (x % p = v <=> x = n - r)
<1>0. /\ n \in Int /\ v \in 0..(p - 1) /\ x \in Int /\ n - p < x /\ x <= n
      /\ r = ((n % p) - v + p) % p
  BY DEF Back
<1>1. PICK a, c, y : a = n \div p /\ c = n % p /\ y = n - r
  OBVIOUS
<1>2. a \in Int /\ c \in 0..(p - 1) /\ n = a * p + c /\ a * p \in Int /\ v \in Int
  BY <1>0, <1>1, Divided
<1>3. r = (IF v <= c THEN c - v ELSE c - v + p) /\ r \in 0..(p - 1)
  <2>1. r = IF v <= c THEN c - v ELSE c - v + p
    BY <1>0, <1>1, <1>2, StepsBetween
  <2>2. QED
    BY <1>0, <1>2, <2>1
<1>4. PICK e : e \in Int /\ y = e * p + v
  <2>1. CASE v <= c
    <3>1. y = a * p + v
      BY <1>0, <1>1, <1>2, <1>3, <2>1
    <3>2. QED
      BY <1>0, <1>2, <3>1
  <2>2. CASE ~(v <= c)
    <3>1. y = (a * p - p) + v
      BY <1>0, <1>1, <1>2, <1>3, <2>2
    <3>2. a * p - p = (a - 1) * p /\ a - 1 \in Int
      BY <1>0, <1>2
    <3>3. QED
      BY <1>0, <3>1, <3>2
  <2>3. QED
    BY <1>0, <2>1, <2>2
<1>5. y % p = v
  BY <1>0, <1>4, DivisionIs
<1>6. ASSUME x % p = v
      PROVE  x = y
  <2>1. PICK b : b = x \div p
    OBVIOUS
  <2>2. b \in Int /\ x = b * p + v /\ b * p \in Int /\ e * p \in Int
    BY <1>0, <1>4, <1>6, <2>1, Divided
  <2>3. n - p < y /\ y <= n
    BY <1>0, <1>1, <1>3
  <2>4. ~(b < e)
    <3>1. b < e => b * p + p <= e * p
      BY <1>0, <1>4, <2>2, DayAfter
    <3>2. QED
      BY <1>0, <1>2, <1>4, <2>2, <2>3, <3>1
  <2>5. ~(e < b)
    <3>1. e < b => e * p + p <= b * p
      BY <1>0, <1>4, <2>2, DayAfter
    <3>2. QED
      BY <1>0, <1>2, <1>4, <2>2, <2>3, <3>1
  <2>6. b = e
    BY <1>0, <1>4, <2>2, <2>4, <2>5
  <2>7. QED
    BY <1>0, <1>4, <2>2, <2>6
<1>7. QED
  BY <1>0, <1>1, <1>3, <1>5, <1>6

-----------------------------------------------------------------------------
\* The dates the engine calculates are those the rule describes.
LEMMA DayOfMonthIs ==
  ASSUME NEW m \in Months, NEW day \in Nat \ {0}
  PROVE  /\ DayOfMonth(m, day) \in Dates \cup {None}
         /\ \A d \in Dates : d = DayOfMonth(m, day) <=> MonthOf[d] = m /\ DayOf(d) = day
<1>1. PICK n, date : n = MonthLengths[m] /\ date = FirstOf[m] + day - 1
  OBVIOUS
<1>2. n \in Nat \ {0} /\ DayOfMonth(m, day) = IF day > n THEN None ELSE date
  BY <1>1, MonthsFollow DEF DayOfMonth
<1>3. None \notin Dates
  <2>1. Dates \in SUBSET Int
    BY MonthIs
  <2>2. QED
    BY <2>1, RecurrenceAssumption
<1>4. \A d \in Dates : MonthOf[d] = m /\ DayOf(d) = day => day \in 1..n /\ d = date
  BY <1>1, MonthIs
<1>5. CASE day > n
  BY <1>2, <1>3, <1>4, <1>5
<1>6. CASE ~(day > n)
  <2>1. day \in 1..n
    BY <1>2, <1>6
  <2>2. date \in Dates /\ MonthOf[date] = m /\ DayOf(date) = day
    BY <1>1, <2>1, MonthIs
  <2>3. QED
    BY <1>2, <1>4, <1>6, <2>2
<1>7. QED
  BY <1>5, <1>6

\* So nthWeekdayOfMonth finds, of all the days of a month, the one that R-05 means.
LEMMA NthWeekdayIs ==
  ASSUME NEW m \in Months, NEW weekday \in 1..WeekLength, NEW nth \in {-1} \cup (Nat \ {0})
  PROVE  \A d \in Dates : d = NthWeekdayOfMonth(m, weekday, nth) <=>
           /\ MonthOf[d] = m /\ Weekday(d) = weekday
           /\ IF nth = -1 THEN DayOf(d) + WeekLength > MonthLengths[m]
              ELSE (DayOf(d) - 1) \div WeekLength = nth - 1
<1>1. PICK p, n, f, v, l : /\ p = WeekLength /\ n = MonthLengths[m] /\ f = FirstOf[m]
                           /\ v = weekday - 1 /\ l = f + n - 1
  OBVIOUS
<1>2. p \in Nat \ {0} /\ n \in Nat \ {0} /\ n >= p /\ f \in Nat /\ v \in 0..(p - 1) /\ weekday \in Int
  <2>1. p \in Nat \ {0} /\ n >= p
    BY <1>1, RecurrenceAssumption DEF Months
  <2>2. f \in Nat /\ n \in Nat \ {0}
    BY <1>1, MonthsFollow, MonthsRise
  <2>3. QED
    BY <1>1, <2>1, <2>2
<1>3. l \in Nat
  BY <1>1, <1>2
<1>4. \A x \in Nat : x % p \in Nat /\ Weekday(x) = (x % p) + 1
  BY <1>1, <1>2 DEF Weekday
<1>5. \A d \in Dates : d \in Nat
  BY MonthIs
<1>6. None \notin Dates
  <2>1. Dates \in SUBSET Int
    BY MonthIs
  <2>2. QED
    BY <2>1, RecurrenceAssumption
\* A date of the month, and the number of the day in it.
<1>7. ASSUME NEW d \in Dates
      PROVE  /\ MonthOf[d] = m <=> f <= d /\ d <= l
             /\ MonthOf[d] = m => DayOf(d) = d - f + 1
  <2>1. d \in Nat
    BY <1>5
  <2>2. MonthOf[d] = m => DayOf(d) \in 1..n /\ d = f + DayOf(d) - 1
    BY <1>1, MonthIs
  <2>3. MonthOf[d] = m => DayOf(d) = d - f + 1 /\ f <= d /\ d <= l
    BY <1>1, <1>2, <2>1, <2>2
  <2>4. ASSUME f <= d, d <= l
        PROVE  MonthOf[d] = m
    <3>1. PICK day : day = d - f + 1
      OBVIOUS
    <3>2. day \in 1..n /\ d = f + day - 1
      BY <1>1, <1>2, <2>1, <2>4, <3>1
    <3>3. QED
      BY <1>1, <3>2, MonthIs
  <2>5. QED
    BY <2>3, <2>4
<1>8. ASSUME NEW x \in Nat, f <= x, x <= l
      PROVE  x \in Dates
  <2>1. PICK day : day = x - f + 1
    OBVIOUS
  <2>2. day \in 1..n /\ x = f + day - 1
    BY <1>1, <1>2, <1>8, <2>1
  <2>3. QED
    BY <1>1, <2>2, MonthIs
<1>9. CASE nth = -1
  <2>1. PICK r : r = ((l % p) - v + p) % p
    OBVIOUS
  <2>2. NthWeekdayOfMonth(m, weekday, nth) = l - r
    <3>1. NthWeekdayOfMonth(m, weekday, nth) = l - ((Weekday(l) - weekday + p) % p)
      BY <1>1, <1>9 DEF NthWeekdayOfMonth
    <3>2. Weekday(l) - weekday + p = (l % p) - v + p
      <4>1. PICK k, u : k = l % p /\ u = Weekday(l)
        OBVIOUS
      <4>2. k \in Int /\ u = k + 1
        BY <1>3, <1>4, <4>1
      <4>3. v = weekday - 1 /\ weekday \in Int /\ p \in Int
        BY <1>1, <1>2
      <4>4. u - weekday + p = k - v + p
        BY ONLY <4>2, <4>3
      <4>5. QED
        BY <4>1, <4>4
    <3>3. QED
      BY <2>1, <3>1, <3>2
  <2>3. l - p < l /\ l <= l /\ l \in Int
    BY <1>2, <1>3
  <2>4. r \in 0..(p - 1)
    <3>1. Back(p, l, v, l, r)
      BY <1>2, <2>1, <2>3 DEF Back
    <3>2. QED
      BY <1>2, <3>1, LastIs
  <2>5. l - r \in Nat /\ f <= l - r /\ l - r <= l /\ l - p < l - r
    BY <1>1, <1>2, <1>3, <2>4
  <2>6. ASSUME NEW d \in Dates
        PROVE  d = l - r <=> MonthOf[d] = m /\ Weekday(d) = weekday /\ DayOf(d) + p > n
    <3>1. d \in Nat /\ d % p \in Nat /\ Weekday(d) = (d % p) + 1
      BY <1>4, <1>5
    <3>2. Weekday(d) = weekday <=> d % p = v
      BY <1>1, <1>2, <3>1
    <3>3. l - p < d /\ d <= l => (d % p = v <=> d = l - r)
      <4>1. d \in Int /\ l \in Int
        BY <1>3, <3>1
      <4>2. l - p < d /\ d <= l => Back(p, l, v, d, r)
        BY <1>2, <2>1, <4>1 DEF Back
      <4>3. QED
        BY <1>2, <4>2, LastIs
    <3>4. MonthOf[d] = m => (DayOf(d) + p > n <=> l - p < d)
      BY <1>1, <1>2, <1>7, <3>1
    <3>5. QED
      BY <1>7, <2>5, <3>2, <3>3, <3>4
  <2>7. QED
    BY <1>1, <1>9, <2>2, <2>6
<1>10. CASE nth # -1
  <2>1. PICK r, q : r = (v - (f % p) + p) % p /\ q = (nth - 1) * p
    OBVIOUS
  <2>2. nth - 1 \in Nat
    BY <1>10
  <2>3. r \in Nat /\ q \in Nat
    <3>1. Ahead(p, f, v, 0, r)
      BY <1>2, <2>1 DEF Ahead
    <3>2. QED
      BY <1>2, <2>1, <2>2, <3>1, NthIs
  <2>4. PICK x : x = f + r + q
    OBVIOUS
  <2>5. NthWeekdayOfMonth(m, weekday, nth) = IF x <= l THEN x ELSE None
    <3>1. NthWeekdayOfMonth(m, weekday, nth) =
            LET date == f + ((weekday - Weekday(f) + p) % p) + q IN IF date <= l THEN date ELSE None
      BY <1>1, <1>10, <2>1 DEF NthWeekdayOfMonth
    <3>2. weekday - Weekday(f) + p = v - (f % p) + p
      <4>1. PICK k, u : k = f % p /\ u = Weekday(f)
        OBVIOUS
      <4>2. k \in Int /\ u = k + 1
        BY <1>2, <1>4, <4>1
      <4>3. v = weekday - 1 /\ weekday \in Int /\ p \in Int
        BY <1>1, <1>2
      <4>4. weekday - u + p = v - k + p
        BY ONLY <4>2, <4>3
      <4>5. QED
        BY <4>1, <4>4
    <3>3. f + ((weekday - Weekday(f) + p) % p) + q = x
      BY <2>1, <2>4, <3>2
    <3>4. QED
      BY <3>1, <3>3
  <2>6. x \in Nat /\ f <= x
    BY <1>2, <2>3, <2>4
  <2>7. ASSUME NEW d \in Dates
        PROVE  d = x /\ x <= l <=>
                 MonthOf[d] = m /\ Weekday(d) = weekday /\ (DayOf(d) - 1) \div p = nth - 1
    <3>1. d \in Nat /\ d % p \in Nat /\ Weekday(d) = (d % p) + 1
      BY <1>4, <1>5
    <3>2. Weekday(d) = weekday <=> d % p = v
      BY <1>1, <1>2, <3>1
    <3>3. PICK j : j = d - f
      OBVIOUS
    <3>4. j \in Int /\ f + j = d /\ (MonthOf[d] = m => DayOf(d) - 1 = j)
      BY <1>2, <1>7, <3>1, <3>3
    <3>5. (f + j) % p = v /\ j \div p = nth - 1 <=> j = r + q
      <4>1. Ahead(p, f, v, j, r)
        BY <1>2, <2>1, <3>4 DEF Ahead
      <4>2. QED
        BY <1>2, <2>1, <2>2, <4>1, NthIs
    <3>6. j = r + q <=> d = x
      BY <1>2, <2>3, <2>4, <3>1, <3>3
    <3>7. QED
      BY <1>7, <2>6, <3>2, <3>4, <3>5, <3>6
  <2>8. QED
    BY <1>1, <1>6, <1>10, <2>5, <2>7
<1>11. QED
  BY <1>9, <1>10

\* The dates the engine collects, cut off at the end date, are the days selected.
LEMMA CandidatesAre ==
  ASSUME NEW s, IsSchedule(s)
  PROVE  /\ CandidateDates(s) \in SUBSET Dates
         /\ \A d \in Dates : Selected(s, d) <=>
              d \in CandidateDates(s) /\ (s.endDate = None \/ d <= s.endDate)
<1>1. PICK rule, start, first : rule = s.rule /\ start = s.startDate /\ first = MonthOf[start]
  OBVIOUS
<1>2. start \in Dates /\ first \in Months /\ RuleFits(rule)
  BY <1>1, MonthIs DEF IsSchedule
<1>3. PICK last : last = Len(MonthLengths) /\ last \in Nat \ {0} /\ Months = 1..last
  BY MonthsFollow
<1>4. Dates \in SUBSET Nat /\ None \notin Dates /\ WeekLength \in Nat \ {0}
  <2>1. Dates \in SUBSET Nat
    BY MonthIs
  <2>2. None \notin Int /\ WeekLength \in Nat \ {0}
    BY RecurrenceAssumption
  <2>3. None \notin Dates
    <3>1. \A x \in Dates : x \in Int
      BY <2>1
    <3>2. QED
      BY <2>2, <3>1
  <2>4. QED
    BY <2>1, <2>2, <2>3
<1>5. PICK from : from = FromStart(s) /\ from = {d \in Dates : d >= start}
  BY <1>1 DEF FromStart
<1> DEFINE kept(d) == s.endDate = None \/ d <= s.endDate
<1>6. \A m \in first..last : m \in Months
  BY <1>2, <1>3
<1>7. ASSUME NEW d \in Dates, d >= start
      PROVE  MonthOf[d] \in first..last
  <2>1. start <= d /\ MonthOf[d] \in Months
    BY <1>2, <1>4, <1>7, MonthIs
  <2>2. first <= MonthOf[d]
    BY <1>1, <1>2, <2>1, MonthIs
  <2>3. QED
    BY <1>2, <1>3, <2>1, <2>2
<1>8. CASE rule.type = "once"
  <2>1. CandidateDates(s) = {start}
    BY <1>1, <1>8 DEF CandidateDates
  <2>2. \A d \in Dates : Selected(s, d) <=> d >= start /\ kept(d) /\ d = start
    BY <1>1, <1>8 DEF Selected
  <2>3. start >= start
    BY <1>2, <1>4
  <2>4. QED
    BY <1>2, <2>1, <2>2, <2>3
<1>9. CASE rule.type = "daily"
  <2>1. CandidateDates(s) = from
    BY <1>1, <1>5, <1>9 DEF CandidateDates
  <2>2. \A d \in Dates : Selected(s, d) <=> d >= start /\ kept(d)
    BY <1>1, <1>9 DEF Selected
  <2>3. QED
    BY <1>5, <2>1, <2>2
<1>10. CASE rule.type = "weekly"
  <2>1. CandidateDates(s) = {d \in from : Weekday(d) \in Range(rule.byWeekday)}
    BY <1>1, <1>5, <1>10 DEF CandidateDates
  <2>2. \A d \in Dates : Selected(s, d) <=>
          d >= start /\ kept(d) /\ \E i \in DOMAIN rule.byWeekday : rule.byWeekday[i] = Weekday(d)
    BY <1>1, <1>10 DEF Selected
  <2>3. \A x : x \in Range(rule.byWeekday) <=> \E i \in DOMAIN rule.byWeekday : rule.byWeekday[i] = x
    BY DEF Range
  <2>4. QED
    BY <1>5, <2>1, <2>2, <2>3
<1>11. CASE rule.type = "monthly_day"
  <2>1. CandidateDates(s) = {DayOfMonth(m, rule.dayOfMonth) : m \in first..last} \cap from
    BY <1>1, <1>3, <1>5, <1>11 DEF CandidateDates
  <2>2. \A d \in Dates : Selected(s, d) <=> d >= start /\ kept(d) /\ DayOf(d) = rule.dayOfMonth
    BY <1>1, <1>11 DEF Selected
  <2>3. rule.dayOfMonth \in Nat \ {0}
    <3>1. rule.dayOfMonth \in 1..Largest.dayOfMonth
      BY <1>2, <1>11 DEF RuleFits
    <3>2. Largest.dayOfMonth \in Nat
      BY RecurrenceAssumption
    <3>3. QED
      BY <3>1, <3>2
  <2>4. \A m \in first..last : \A d \in Dates :
          d = DayOfMonth(m, rule.dayOfMonth) <=> MonthOf[d] = m /\ DayOf(d) = rule.dayOfMonth
    BY <1>6, <2>3, DayOfMonthIs
  <2>5. QED
    BY <1>5, <1>7, <2>1, <2>2, <2>4
<1>12. CASE rule.type = "monthly_nth"
  <2>1. CandidateDates(s) = {NthWeekdayOfMonth(m, rule.weekday, rule.nth) : m \in first..last} \cap from
    BY <1>1, <1>3, <1>5, <1>12 DEF CandidateDates
  <2>2. \A d \in Dates : Selected(s, d) <=>
          /\ d >= start /\ kept(d)
          /\ Weekday(d) = rule.weekday
          /\ IF rule.nth = -1 THEN DayOf(d) + WeekLength > MonthLengths[MonthOf[d]]
             ELSE (DayOf(d) - 1) \div WeekLength = rule.nth - 1
    BY <1>1, <1>12 DEF Selected
  <2>3. rule.weekday \in 1..WeekLength /\ rule.nth \in {-1} \cup (Nat \ {0})
    <3>1. rule.weekday \in 1..WeekLength /\ rule.nth \in {-1} \cup 1..Largest.nth
      BY <1>2, <1>12 DEF RuleFits
    <3>2. Largest.nth \in Nat
      BY RecurrenceAssumption
    <3>3. QED
      BY <3>1, <3>2
  <2>4. \A m \in first..last : \A d \in Dates : d = NthWeekdayOfMonth(m, rule.weekday, rule.nth) <=>
           /\ MonthOf[d] = m /\ Weekday(d) = rule.weekday
           /\ IF rule.nth = -1 THEN DayOf(d) + WeekLength > MonthLengths[m]
              ELSE (DayOf(d) - 1) \div WeekLength = rule.nth - 1
    BY <1>6, <2>3, NthWeekdayIs
  <2>5. QED
    BY <1>5, <1>7, <2>1, <2>2, <2>4
<1>13. CASE rule.type = "interval" /\ rule.unit = "days"
  <2>1. CandidateDates(s) = {d \in from : (d - start) % rule.every = 0}
    BY <1>1, <1>5, <1>13 DEF CandidateDates, Every
  <2>2. \A d \in Dates : Selected(s, d) <=> d >= start /\ kept(d) /\ (d - start) % rule.every = 0
    BY <1>1, <1>13 DEF Selected
  <2>3. QED
    BY <1>5, <2>1, <2>2
<1>14. CASE rule.type = "interval" /\ rule.unit = "weeks"
  <2>1. CandidateDates(s) = {d \in from : (d - start) % (rule.every * WeekLength) = 0}
    BY <1>1, <1>5, <1>14 DEF CandidateDates, Every
  <2>2. \A d \in Dates : Selected(s, d) <=>
          d >= start /\ kept(d) /\ (d - start) % (rule.every * WeekLength) = 0
    BY <1>1, <1>14 DEF Selected
  <2>3. QED
    BY <1>5, <2>1, <2>2
<1>15. CASE rule.type = "interval" /\ rule.unit = "months"
  <2>1. PICK day, every : day = DayOf(start) /\ every = {m \in first..last : (m - first) % rule.every = 0}
    OBVIOUS
  <2>2. CandidateDates(s) = {DayOfMonth(m, day) : m \in every} \ {None}
    BY <1>1, <1>3, <1>15, <2>1 DEF CandidateDates
  <2>3. \A d \in Dates : Selected(s, d) <=>
          d >= start /\ kept(d) /\ DayOf(d) = day /\ (MonthOf[d] - first) % rule.every = 0
    BY <1>1, <1>15, <2>1 DEF Selected
  <2>4. day \in Nat \ {0}
    <3>1. day \in 1..MonthLengths[first] /\ MonthLengths[first] \in Nat
      BY <1>1, <1>2, <2>1, MonthIs, MonthsFollow
    <3>2. QED
      BY <3>1
  <2>5. \A m \in first..last : /\ DayOfMonth(m, day) \in Dates \cup {None}
                               /\ \A d \in Dates : d = DayOfMonth(m, day) <=> MonthOf[d] = m /\ DayOf(d) = day
    BY <1>6, <2>4, DayOfMonthIs
  <2>6. ASSUME NEW d \in Dates, MonthOf[d] \in first..last, DayOf(d) = day
        PROVE  d >= start
    <3>1. ASSUME ~(d >= start)
          PROVE  FALSE
      <4>1. d <= start /\ d # start
        BY <1>2, <1>4, <3>1
      <4>2. MonthOf[d] <= first
        BY <1>1, <1>2, <4>1, MonthIs
      <4>3. MonthOf[d] = first
        BY <1>2, <1>3, <2>6, <4>2
      <4>4. d = FirstOf[first] + day - 1 /\ start = FirstOf[first] + day - 1
        BY <1>1, <1>2, <2>1, <2>6, <4>3, MonthIs
      <4>5. QED
        BY <4>1, <4>4
    <3>2. QED
      BY <3>1
  <2>7. CandidateDates(s) \in SUBSET Dates
    BY <2>1, <2>2, <2>5
  <2>8. \A d \in Dates : d \in CandidateDates(s) <=> MonthOf[d] \in every /\ DayOf(d) = day
    BY <1>4, <2>1, <2>2, <2>5
  <2>9. QED
    BY <1>7, <2>1, <2>3, <2>6, <2>7, <2>8
<1>16. QED
  BY <1>2, <1>8, <1>9, <1>10, <1>11, <1>12, <1>13, <1>14, <1>15 DEF RuleFits

-----------------------------------------------------------------------------
\* The instants of a schedule: of all its days, up to the end time, up to the count.
DaysOf(s) == {e \in Dates : Selected(s, e)}
AllOf(s) == UNION {OfDay(s, d) : d \in DaysOf(s)}
TimelyOf(s) == UntilEndTime(s, AllOf(s))

\* All of one day is before all of a later one.
LEMMA DaysInOrder ==
  ASSUME NEW s, IsSchedule(s), NEW d \in Nat, NEW e \in Nat, d < e,
         NEW i \in OfDay(s, d), NEW j \in OfDay(s, e)
  PROVE  i < j
<1>1. PICK z, L : z = s.timezone /\ L = DayLength
  OBVIOUS
<1>2. z \in Zones /\ SetInsideDay(z)
  BY <1>1, MCSchedulesAssumption DEF IsSchedule
<1>3. Times(s) \in SUBSET (0..(L - 1))
  BY <1>1, TimesAre
<1>4. PICK t \in 0..(L - 1) : i = ResolveInstant(d, t, z)
  BY <1>1, <1>3, DayIs
<1>5. PICK u \in 0..(L - 1) : j = ResolveInstant(e, u, z)
  BY <1>1, <1>3, DayIs
<1>6. QED
  BY <1>1, <1>2, <1>4, <1>5, DaysApart

\* No instant is of two days.
LEMMA OneDay ==
  ASSUME NEW s, IsSchedule(s), NEW d \in Dates, NEW e \in Dates,
         NEW i, i \in OfDay(s, d), i \in OfDay(s, e)
  PROVE  d = e /\ i \in Int
<1>1. d \in Nat /\ e \in Nat
  BY MonthIs
<1>2. i \in Int
  BY <1>1, DayIs
<1>3. ~(d < e)
  <2>1. d < e => i < i
    BY <1>1, DaysInOrder
  <2>2. QED
    BY <1>2, <2>1
<1>4. ~(e < d)
  <2>1. e < d => i < i
    BY <1>1, DaysInOrder
  <2>2. QED
    BY <1>2, <2>1
<1>5. QED
  BY <1>1, <1>2, <1>3, <1>4

\* There are finitely many, and fewer than the limit two schedules are compared up to.
LEMMA InstantsFit ==
  ASSUME NEW s, IsSchedule(s)
  PROVE  /\ AllOf(s) \in SUBSET Int /\ IsFiniteSet(AllOf(s))
         /\ Cardinality(AllOf(s)) \in Nat
         /\ ComparisonLimit \in Nat \ {0} /\ Cardinality(AllOf(s)) < ComparisonLimit
<1>1. PICK A, M, c : A = AllOf(s) /\ M = MaxPerDay /\ c = Cardinality(Dates)
  OBVIOUS
<1>2. Dates \in SUBSET Nat /\ c \in Nat /\ IsFiniteSet(Dates) /\ M \in Nat \ {0}
  <2>1. Dates \in SUBSET Nat /\ c \in Nat /\ IsFiniteSet(Dates)
    BY <1>1, MonthIs
  <2>2. M \in Nat \ {0}
    BY <1>1, RecurrenceAssumption
  <2>3. QED
    BY <2>1, <2>2
<1>3. ASSUME NEW i \in A
      PROVE  \E d \in Dates : i \in OfDay(s, d)
  BY <1>1 DEF AllOf, DaysOf
<1>4. PICK day : day = [i \in A |-> CHOOSE d \in Dates : i \in OfDay(s, d)]
  OBVIOUS
<1>5. \A i \in A : day[i] \in Dates /\ i \in OfDay(s, day[i])
  BY <1>3, <1>4
<1>6. \A d \in Dates : OfDay(s, d) \in SUBSET Int /\ IsFiniteSet(OfDay(s, d)) /\ Cardinality(OfDay(s, d)) <= M
  BY <1>1, <1>2, DayIs
<1>7. A \in SUBSET Int
  BY <1>5, <1>6
<1>8. PICK f : f = [i \in A |-> <<day[i], Rank(OfDay(s, day[i]), i)>>]
  OBVIOUS
<1>9. ASSUME NEW i \in A
      PROVE  Rank(OfDay(s, day[i]), i) \in 1..M
  <2>1. PICK D : D = OfDay(s, day[i])
    OBVIOUS
  <2>2. i \in D /\ D \in SUBSET Int /\ IsFiniteSet(D) /\ Cardinality(D) <= M
    BY <1>5, <1>6, <2>1
  <2>3. Rank(D, i) \in 1..Cardinality(D) /\ Cardinality(D) \in Nat
    BY <2>2, RanksRise, FS_CardinalityType
  <2>4. QED
    BY <1>2, <2>1, <2>2, <2>3
<1>10. f \in [A -> Dates \X (1..M)]
  BY <1>5, <1>8, <1>9
<1>11. ASSUME NEW i \in A, NEW j \in A, f[i] = f[j]
       PROVE  i = j
  <2>1. PICK D : D = OfDay(s, day[i])
    OBVIOUS
  <2>2. day[i] = day[j] /\ Rank(D, i) = Rank(D, j)
    BY <1>8, <1>11, <2>1
  <2>3. i \in D /\ j \in D /\ D \in SUBSET Int /\ IsFiniteSet(D)
    BY <1>5, <1>6, <2>1, <2>2
  <2>4. Ordered(D)[Rank(D, i)] = i /\ Ordered(D)[Rank(D, j)] = j
    BY <2>3, OrderedIs
  <2>5. QED
    BY <2>2, <2>4
<1>12. f \in Injection(A, Dates \X (1..M))
  BY <1>10, <1>11 DEF Injection, IsInjective
<1>13. IsFiniteSet(1..M) /\ Cardinality(1..M) = M
  BY <1>2, FS_Interval
<1>14. IsFiniteSet(Dates \X (1..M)) /\ Cardinality(Dates \X (1..M)) = c * M
  BY <1>1, <1>2, <1>13, FS_Product
<1>15. IsFiniteSet(A) /\ Cardinality(A) <= c * M
  BY <1>12, <1>14, FS_Injection
<1>16. Cardinality(A) \in Nat
  BY <1>15, FS_CardinalityType
<1>17. ComparisonLimit \in Nat \ {0} /\ c * M < ComparisonLimit /\ c * M \in Nat
  <2>1. ComparisonLimit = M * (c + 1)
    BY <1>1 DEF ComparisonLimit
  <2>2. M * (c + 1) = c * M + M /\ c * M \in Nat
    BY <1>2
  <2>3. QED
    BY <1>2, <2>1, <2>2
<1>18. QED
  BY <1>1, <1>7, <1>15, <1>16, <1>17

\* The engine stops where the end time cuts the instants off, and not a day or a second off.
LEMMA EndCuts ==
  ASSUME NEW s, IsSchedule(s)
  PROVE  /\ TimelyOf(s) \in SUBSET AllOf(s)
         /\ \A d \in DaysOf(s) : \A i \in OfDay(s, d) :
              i \in TimelyOf(s) <=> ~(s.endDate # None /\ i > EndInstant(s))
         /\ \A i \in TimelyOf(s), j \in AllOf(s) : j < i => j \in TimelyOf(s)
<1>1. PICK A, z, L, end : A = AllOf(s) /\ z = s.timezone /\ L = DayLength /\ end = s.endDate
  OBVIOUS
<1>2. /\ z \in Zones /\ SetInsideDay(z) /\ L \in Nat \ {0} /\ end \in Dates \cup {None}
      /\ s.endTime \in (0..(L - 1)) \cup {None} /\ (s.endTime # None => end # None)
      /\ A \in SUBSET Int
  <2>1. /\ z \in Zones /\ end \in Dates \cup {None}
        /\ s.endTime \in (0..(L - 1)) \cup {None} /\ (s.endTime # None => end # None)
    BY <1>1 DEF IsSchedule
  <2>2. L \in Nat \ {0}
    BY <1>1, RecurrenceAssumption
  <2>3. SetInsideDay(z)
    BY <2>1, MCSchedulesAssumption
  <2>4. A \in SUBSET Int
    BY <1>1, InstantsFit
  <2>5. QED
    BY <2>1, <2>2, <2>3, <2>4
<1>3. Dates \in SUBSET Nat
  BY MonthIs
<1>4. \A d \in DaysOf(s) : OfDay(s, d) \in SUBSET A /\ d \in Nat /\ (end = None \/ d <= end)
  <2>1. ASSUME NEW d \in DaysOf(s)
        PROVE  end = None \/ d <= end
    BY <1>1 DEF DaysOf, Selected
  <2>2. QED
    BY <1>1, <1>3, <2>1 DEF AllOf, DaysOf
<1>5. CASE s.endTime = None /\ end = None
  <2>1. TimelyOf(s) = A
    BY <1>1, <1>5 DEF TimelyOf, UntilEndTime
  <2>2. QED
    BY <1>1, <1>4, <1>5, <2>1
<1>6. CASE s.endTime = None /\ end # None
  <2>1. TimelyOf(s) = A
    BY <1>1, <1>6 DEF TimelyOf, UntilEndTime
  <2>2. end \in Nat /\ end + 1 \in Nat /\ 0 \in 0..(L - 1)
    BY <1>2, <1>3, <1>6
  <2>3. PICK over : over = ResolveInstant(end + 1, 0, z)
    OBVIOUS
  <2>4. EndInstant(s) = over - 1
    BY <1>1, <1>6, <2>3 DEF EndInstant, EndOfDay
  <2>5. over \in Int
    <3>1. PICK local : local = (end + 1) * L + 0
      OBVIOUS
    <3>2. local \in Int
      <4>1. PICK e : e = end + 1
        OBVIOUS
      <4>2. e \in Nat /\ local = e * L + 0
        BY <2>2, <3>1, <4>1
      <4>3. e * L \in Int
        BY <1>2, <4>2
      <4>4. QED
        BY <4>2, <4>3
    <3>3. over = Resolve(z, local)
      BY <1>1, <2>3, <3>1 DEF ResolveInstant
    <3>4. QED
      BY <1>2, <3>2, <3>3, InstantIsResolved
  <2>6. ASSUME NEW d \in DaysOf(s), NEW i \in OfDay(s, d)
        PROVE  ~(i > EndInstant(s))
    <3>1. d \in Nat /\ d < end + 1 /\ i \in Int
      <4>1. d \in Nat /\ d <= end
        BY <1>4, <1>6
      <4>2. i \in Int
        BY <1>2, <1>4
      <4>3. QED
        BY <2>2, <4>1, <4>2
    <3>2. Times(s) \in SUBSET (0..(L - 1))
      BY <1>1, TimesAre
    <3>3. PICK t \in 0..(L - 1) : i = ResolveInstant(d, t, z)
      BY <1>1, <3>1, <3>2, DayIs
    <3>4. i < over
      BY <1>1, <1>2, <2>2, <2>3, <3>1, <3>3, DaysApart
    <3>5. QED
      BY <2>4, <2>5, <3>1, <3>4
  <2>7. QED
    BY <1>1, <1>4, <2>1, <2>6
<1>7. CASE s.endTime # None
  <2>1. PICK local : local = end * L + s.endTime
    OBVIOUS
  <2>2. local \in Int
    <3>1. end \in Nat /\ s.endTime \in Int
      BY <1>2, <1>3, <1>7
    <3>2. end * L \in Int
      BY <1>2, <3>1
    <3>3. QED
      BY <2>1, <3>1, <3>2
  <2>3. PICK bound : bound = Resolve(z, local)
    OBVIOUS
  <2>4. bound \in Int /\ InstantOf(z, local) = bound
    BY <1>2, <2>2, <2>3, InstantIsResolved
  <2>5. EndInstant(s) = bound /\ end # None
    BY <1>1, <1>2, <1>7, <2>1, <2>3 DEF EndInstant, ResolveInstant
  <2>6. TimelyOf(s) = {i \in A : i <= bound}
    BY <1>1, <1>7, <2>1, <2>4 DEF TimelyOf, UntilEndTime
  <2>7. \A i \in A : i \in Int
    BY <1>2
  <2>8. QED
    BY <1>1, <1>4, <2>4, <2>5, <2>6, <2>7
<1>8. QED
  BY <1>2, <1>5, <1>6, <1>7

\* An instant is of the series when fewer of the timely ones than the count are before it; and
\* so many of the series are all of it.
LEMMA SeriesIs ==
  ASSUME NEW s, IsSchedule(s)
  PROVE  /\ Series(s) \in SUBSET TimelyOf(s) /\ IsFiniteSet(Series(s))
         /\ s.endAfterOccurrences # None => s.endAfterOccurrences \in Nat \ {0}
         /\ \A x \in TimelyOf(s) : x \in Series(s) <=>
              \/ s.endAfterOccurrences = None
              \/ Cardinality({j \in TimelyOf(s) : j < x}) < s.endAfterOccurrences
         /\ \A V \in SUBSET Series(s) : Counted(s, Cardinality(V)) => V = Series(s)
<1>1. PICK K, E, c : K = Series(s) /\ E = TimelyOf(s) /\ c = s.endAfterOccurrences
  OBVIOUS
<1>2. K = IF c = None THEN E ELSE {i \in E : Cardinality({j \in E : j < i}) < c}
  BY <1>1 DEF Series, UntilCount, TimelyOf, AllOf, DaysOf
<1>3. c # None => c \in Nat \ {0}
  BY <1>1 DEF IsSchedule
<1>4. E \in SUBSET Int /\ IsFiniteSet(E)
  <2>1. E \in SUBSET AllOf(s) /\ AllOf(s) \in SUBSET Int /\ IsFiniteSet(AllOf(s))
    BY <1>1, EndCuts, InstantsFit
  <2>2. QED
    BY <2>1, FS_Subset
<1>5. K \in SUBSET E
  BY <1>2
<1>6. IsFiniteSet(K) /\ Cardinality(K) \in Nat
  BY <1>4, <1>5, FS_Subset, FS_CardinalityType
<1>7. \A x \in E : x \in K <=> c = None \/ Cardinality({j \in E : j < x}) < c
  BY <1>2
<1>8. ASSUME NEW V \in SUBSET K, Counted(s, Cardinality(V))
      PROVE  V = K
  <2>1. c \in Nat \ {0} /\ Cardinality(V) >= c
    BY <1>1, <1>3, <1>8 DEF Counted
  <2>2. SUFFICES ASSUME V # K
                 PROVE  FALSE
    OBVIOUS
  <2>3. Cardinality(V) \in Nat /\ Cardinality(V) < Cardinality(K)
    <3>1. IsFiniteSet(V) /\ Cardinality(V) <= Cardinality(K) /\ Cardinality(V) # Cardinality(K)
      BY <1>6, <2>2, FS_Subset
    <3>2. QED
      BY <1>6, <3>1, FS_CardinalityType
  <2>4. c + 1 \in 1..Cardinality(K)
    BY <1>6, <2>1, <2>3
  <2>5. PICK x : x = Ordered(K)[c + 1]
    OBVIOUS
  <2>6. x \in K /\ Rank(K, x) = c + 1
    BY <1>4, <1>5, <1>6, <2>4, <2>5, OrderedIs
  <2>7. PICK upto, below, before : /\ upto = {e \in K : e <= x} /\ below = {e \in K : e < x}
                                   /\ before = {j \in E : j < x}
    OBVIOUS
  <2>8. Cardinality(upto) = c + 1 /\ IsFiniteSet(upto)
    <3>1. upto \in SUBSET K
      BY <2>7
    <3>2. IsFiniteSet(upto)
      BY <1>6, <3>1, FS_Subset
    <3>3. QED
      BY <2>6, <2>7, <3>2 DEF Rank
  <2>9. below = upto \ {x} /\ x \in upto
    <3>1. \A e \in K : e \in Int
      BY <1>4, <1>5
    <3>2. QED
      BY <2>6, <2>7, <3>1
  <2>10. Cardinality(below) = c
    <3>1. Cardinality(upto \ {x}) = Cardinality(upto) - 1
      BY <2>8, <2>9, FS_RemoveElement
    <3>2. QED
      BY <2>1, <2>8, <2>9, <3>1
  <2>11. below \in SUBSET before /\ before \in SUBSET E
    BY <1>5, <2>7
  <2>12. IsFiniteSet(before) /\ Cardinality(before) \in Nat /\ c <= Cardinality(before)
    <3>1. IsFiniteSet(before)
      BY <1>4, <2>11, FS_Subset
    <3>2. QED
      BY <2>10, <2>11, <3>1, FS_Subset, FS_CardinalityType
  <2>13. Cardinality(before) < c
    <3>1. x \in E /\ c # None
      BY <1>1, <1>5, <1>8, <2>6 DEF Counted
    <3>2. QED
      BY <1>7, <2>6, <2>7, <3>1
  <2>14. QED
    BY <2>1, <2>12, <2>13
<1>9. QED
  BY <1>1, <1>3, <1>5, <1>6, <1>7, <1>8

\* Where an occurrence stands is told by the one day it is of.
LEMMA PlaceIs ==
  ASSUME NEW s, IsSchedule(s), NEW d \in DaysOf(s), NEW x \in OfDay(s, d)
  PROVE  PlaceOf(s, x) = [at |-> x, index |-> Rank(OfDay(s, d), x), count |-> Cardinality(OfDay(s, d))]
<1>1. d \in Dates /\ Selected(s, d)
  BY DEF DaysOf
<1>2. \A e \in Dates : (Selected(s, e) /\ x \in OfDay(s, e)) <=> e = d
  BY <1>1, OneDay
<1>3. (CHOOSE e \in Dates : Selected(s, e) /\ x \in OfDay(s, e)) = d
  BY <1>1, <1>2
<1>4. QED
  BY <1>3 DEF PlaceOf, PlaceIn, Rank

-----------------------------------------------------------------------------
Places(s, P) == [k \in 1..Cardinality(P) |-> PlaceOf(s, Ordered(P)[k])]

\* What was found shows a set of instants: the first that are due, and no more than were asked for.
FoundOf(s, w, l, P, found) ==
  /\ P \in SUBSET InWindow(s, w) /\ \A p \in P, q \in InWindow(s, w) \ P : p < q
  /\ found = Places(s, P)
  /\ Cardinality(P) <= l

\* A state of the search is good when these are all that are due, or as many as were asked for;
\* or, while the search goes on, all that are due among the instants it has seen.
Goes(s, w, l, produced, P, seen) ==
  /\ P = seen \cap InWindow(s, w) /\ Cardinality(P) < l
  /\ \/ seen \subseteq Series(s) /\ produced = Cardinality(seen)
     \/ Series(s) \subseteq seen /\ Counted(s, produced)

Good(s, w, l, state, seen) ==
  /\ state = [done |-> state.done, produced |-> state.produced, found |-> state.found]
  /\ state.done \in BOOLEAN /\ state.produced \in Nat
  /\ \E P : /\ FoundOf(s, w, l, P, state.found)
            /\ IF state.done THEN Cardinality(P) = l \/ P = InWindow(s, w)
               ELSE Goes(s, w, l, state.produced, P, seen)

\* What is due is of the series, the series of what is timely, and all of it finite.
LEMMA DueIs ==
  ASSUME NEW s, IsSchedule(s), NEW w
  PROVE  /\ InWindow(s, w) = {i \in Series(s) : w.from <= i /\ i <= w.to}
         /\ InWindow(s, w) \in SUBSET Series(s) /\ Series(s) \in SUBSET TimelyOf(s)
         /\ TimelyOf(s) \in SUBSET AllOf(s) /\ AllOf(s) \in SUBSET Int
         /\ IsFiniteSet(InWindow(s, w)) /\ Cardinality(InWindow(s, w)) \in Nat
         /\ Cardinality(InWindow(s, w)) < ComparisonLimit
<1>1. /\ InWindow(s, w) = {i \in Series(s) : w.from <= i /\ i <= w.to}
      /\ InWindow(s, w) \in SUBSET Series(s)
  BY DEF InWindow
<1>2. /\ Series(s) \in SUBSET TimelyOf(s) /\ TimelyOf(s) \in SUBSET AllOf(s)
      /\ AllOf(s) \in SUBSET Int /\ IsFiniteSet(AllOf(s)) /\ Cardinality(AllOf(s)) \in Nat
      /\ Cardinality(AllOf(s)) < ComparisonLimit /\ ComparisonLimit \in Nat \ {0}
  BY SeriesIs, EndCuts, InstantsFit
<1>3. InWindow(s, w) \in SUBSET AllOf(s)
  BY <1>1, <1>2
<1>4. /\ IsFiniteSet(InWindow(s, w)) /\ Cardinality(InWindow(s, w)) <= Cardinality(AllOf(s))
      /\ Cardinality(InWindow(s, w)) \in Nat
  BY <1>2, <1>3, FS_Subset, FS_CardinalityType
<1>5. QED
  BY <1>1, <1>2, <1>4

\* A state is good whose parts are.
LEMMA GoodFrom ==
  ASSUME NEW s, NEW w, NEW l, NEW seen, NEW D \in BOOLEAN, NEW n \in Nat, NEW F, NEW P,
         FoundOf(s, w, l, P, F),
         D => Cardinality(P) = l \/ P = InWindow(s, w),
         ~D => Goes(s, w, l, n, P, seen)
  PROVE  Good(s, w, l, [done |-> D, produced |-> n, found |-> F], seen)
<1> PICK state : state = [done |-> D, produced |-> n, found |-> F]
  OBVIOUS
<1>1. state.done = D /\ state.produced = n /\ state.found = F
  OBVIOUS
<1>2. QED
  BY <1>1 DEF Good

LEMMA OverNow ==
  ASSUME NEW D, NEW n, NEW F, NEW T
  PROVE  [[done |-> D, produced |-> n, found |-> F] EXCEPT !.done = T]
           = [done |-> T, produced |-> n, found |-> F]
OBVIOUS

\* What was found and one occurrence more.
LEMMA FoundOneMore ==
  ASSUME NEW s, NEW P \in SUBSET Int, IsFiniteSet(P), NEW x \in Int, \A p \in P : p < x
  PROVE  /\ Cardinality(P) \in Nat /\ Len(Places(s, P)) = Cardinality(P)
         /\ Cardinality(P \cup {x}) = Cardinality(P) + 1
         /\ Append(Places(s, P), PlaceOf(s, x)) = Places(s, P \cup {x})
<1> PICK F : F = Places(s, P)
  OBVIOUS
<1>0. F = [k \in 1..Cardinality(P) |-> PlaceOf(s, Ordered(P)[k])]
  BY DEF Places
<1>1. PICK c, Q, e : c = Cardinality(P) /\ Q = P \cup {x} /\ e = PlaceOf(s, x)
  OBVIOUS
<1>2. c \in Nat
  BY <1>1, FS_CardinalityType
<1>3. /\ Cardinality(Q) = c + 1
      /\ \A i \in 1..c : Ordered(Q)[i] = Ordered(P)[i]
      /\ Ordered(Q)[c + 1] = x
  BY <1>1, OrderedAppend
<1>4. PICK R : R = {F[k] : k \in 1..c}
  OBVIOUS
<1>5. F \in [1..c -> R]
  BY <1>0, <1>1, <1>4
<1>6. F \in Seq(R) /\ Len(F) = c
  BY ONLY <1>2, <1>5
<1>7. PICK G : G = Append(F, e)
  OBVIOUS
<1>8. /\ G = [k \in 1..(c + 1) |-> G[k]]
      /\ \A k \in 1..c : G[k] = F[k]
      /\ G[c + 1] = e
  <2>1. /\ G \in Seq(R \cup {e}) /\ DOMAIN G = 1..(c + 1)
        /\ \A k \in 1..c : G[k] = F[k]
        /\ G[c + 1] = e
    BY ONLY <1>2, <1>6, <1>7
  <2>2. QED
    BY ONLY <2>1
<1>9. ASSUME NEW k \in 1..(c + 1)
      PROVE  G[k] = PlaceOf(s, Ordered(Q)[k])
  <2>1. CASE k = c + 1
    BY <1>1, <1>3, <1>8, <2>1
  <2>2. CASE k # c + 1
    <3>1. k \in 1..c
      BY <1>2, <2>2
    <3>2. F[k] = PlaceOf(s, Ordered(P)[k])
      BY <1>0, <1>1, <3>1
    <3>3. QED
      BY <1>3, <1>8, <3>1, <3>2
  <2>3. QED
    BY <2>1, <2>2
<1>10. G = [k \in 1..Cardinality(Q) |-> PlaceOf(s, Ordered(Q)[k])]
  BY ONLY <1>3, <1>8, <1>9
<1>11. G = Places(s, Q)
  BY <1>10 DEF Places
<1>12. QED
  BY <1>1, <1>2, <1>3, <1>6, <1>7, <1>11

\* One instant of the search.
LEMMA VisitedInstant ==
  ASSUME NEW s, IsSchedule(s), NEW w \in [from : Int, to : Int], NEW l \in Nat \ {0},
         NEW d \in DaysOf(s), NEW x \in OfDay(s, d),
         NEW seen, seen = {y \in AllOf(s) : y < x},
         NEW state, Good(s, w, l, state, seen),
         NEW place, place = Rank(OfDay(s, d), x), NEW total, total = Cardinality(OfDay(s, d))
  PROVE  Good(s, w, l, VisitInstant(s, w, l, state, x, place, total), seen \cup {x})
<1>1. PICK D, n, F : /\ state = [done |-> D, produced |-> n, found |-> F]
                     /\ D = state.done /\ n = state.produced /\ F = state.found
                     /\ D \in BOOLEAN /\ n \in Nat
  BY DEF Good
<1>2. PICK W, K, E, A : W = InWindow(s, w) /\ K = Series(s) /\ E = TimelyOf(s) /\ A = AllOf(s)
  OBVIOUS
<1>3. PICK P : FoundOf(s, w, l, P, F) /\ (D => Cardinality(P) = l \/ P = W)
                /\ (~D => Goes(s, w, l, n, P, seen))
  BY <1>1, <1>2 DEF Good
<1>31. /\ P \in SUBSET W /\ \A p \in P, q \in W \ P : p < q
       /\ F = Places(s, P)
       /\ Cardinality(P) <= l
  BY <1>2, <1>3 DEF FoundOf
<1>32. ~D => /\ P = seen \cap W /\ Cardinality(P) < l
             /\ \/ seen \subseteq K /\ n = Cardinality(seen)
                \/ K \subseteq seen /\ Counted(s, n)
  BY <1>2, <1>3 DEF Goes
<1>4. /\ W = {i \in K : w.from <= i /\ i <= w.to}
      /\ W \in SUBSET K /\ K \in SUBSET E /\ E \in SUBSET A /\ A \in SUBSET Int
      /\ IsFiniteSet(W) /\ IsFiniteSet(A)
  BY <1>2, DueIs, InstantsFit
<1>5. w.from \in Int /\ w.to \in Int
  OBVIOUS
<1>6. x \in A /\ x \in Int
  <2>1. x \in A
    BY <1>2 DEF AllOf
  <2>2. QED
    BY <1>4, <2>1
<1>7. seen = {y \in A : y < x} /\ x \notin seen /\ seen \in SUBSET A /\ IsFiniteSet(seen)
  <2>1. seen = {y \in A : y < x}
    BY <1>2
  <2>2. seen \in SUBSET A /\ x \notin seen
    BY <1>6, <2>1
  <2>3. QED
    BY <1>4, <2>1, <2>2, FS_Subset
<1>8. PICK more : more = seen \cup {x}
  OBVIOUS
<1>9. Cardinality(more) = Cardinality(seen) + 1 /\ Cardinality(seen) \in Nat
  BY <1>7, <1>8, FS_AddElement, FS_CardinalityType
<1>10. PICK next : next = VisitInstant(s, w, l, state, x, place, total)
  OBVIOUS
<1>11. CASE D
  <2>1. next = state
    BY <1>1, <1>10, <1>11 DEF VisitInstant
  <2>2. Good(s, w, l, [done |-> D, produced |-> n, found |-> F], more)
    BY <1>1, <1>2, <1>3, <1>11, GoodFrom
  <2>3. QED
    BY <1>1, <1>8, <1>10, <2>1, <2>2
<1>12. CASE ~D /\ Counted(s, n)
  <2>1. next = state
    BY <1>1, <1>10, <1>12 DEF VisitInstant
  <2>2. K \subseteq seen
    <3>1. CASE seen \subseteq K /\ n = Cardinality(seen)
      <4>1. seen = K
        BY <1>2, <1>12, <3>1, SeriesIs
      <4>2. QED
        BY <4>1
    <3>2. QED
      BY <1>32, <1>12, <3>1
  <2>3. P = more \cap W /\ K \subseteq more /\ Cardinality(P) < l
    BY <1>32, <1>4, <1>8, <1>12, <2>2
  <2>31. Goes(s, w, l, n, P, more)
    BY <1>2, <1>12, <2>3 DEF Goes
  <2>4. Good(s, w, l, [done |-> D, produced |-> n, found |-> F], more)
    BY <1>1, <1>3, <1>12, <2>31, GoodFrom
  <2>5. QED
    BY <1>1, <1>8, <1>10, <2>1, <2>4
<1>13. CASE ~D /\ ~Counted(s, n)
  <2>1. seen \subseteq K /\ n = Cardinality(seen) /\ P = seen \cap W /\ Cardinality(P) < l
    BY <1>32, <1>13
  <2>2. PICK entry : entry = [at |-> x, index |-> place, count |-> total]
    OBVIOUS
  <2>3. next = IF s.endDate # None /\ x > EndInstant(s) THEN [done |-> TRUE, produced |-> n, found |-> F]
               ELSE IF x > w.to THEN [done |-> TRUE, produced |-> n + 1, found |-> F]
               ELSE IF x < w.from THEN [done |-> FALSE, produced |-> n + 1, found |-> F]
               ELSE [done |-> (Len(F) + 1 >= l), produced |-> n + 1, found |-> Append(F, entry)]
    <3>1. PICK counted : counted = [state EXCEPT !.produced = @ + 1]
      OBVIOUS
    <3>2. counted = [done |-> D, produced |-> n + 1, found |-> F] /\ counted.found = F
      BY <1>1, <3>1
    <3>3. [state EXCEPT !.done = TRUE] = [done |-> TRUE, produced |-> n, found |-> F]
      <4>1. state = [done |-> D, produced |-> n, found |-> F]
        BY <1>1
      <4>2. QED
        BY ONLY <4>1, OverNow
    <3>4. [counted EXCEPT !.done = TRUE] = [done |-> TRUE, produced |-> n + 1, found |-> F]
      BY <3>2, OverNow
    <3>5. next = IF s.endDate # None /\ x > EndInstant(s) THEN [state EXCEPT !.done = TRUE]
                 ELSE IF x > w.to THEN [counted EXCEPT !.done = TRUE]
                 ELSE IF x < w.from THEN counted
                 ELSE [done     |-> Len(F) + 1 >= l,
                       produced |-> counted.produced,
                       found    |-> Append(F, entry)]
      BY <1>1, <1>10, <1>13, <2>2, <3>1 DEF VisitInstant
    <3>6. counted.produced = n + 1
      BY <3>2
    <3>7. counted = [done |-> FALSE, produced |-> n + 1, found |-> F]
      <4>1. D = FALSE
        BY <1>1, <1>13
      <4>2. QED
        BY ONLY <3>2, <4>1
    <3>8. QED
      BY ONLY <3>3, <3>4, <3>5, <3>6, <3>7
  <2>4. x \in E <=> ~(s.endDate # None /\ x > EndInstant(s))
    BY <1>2, EndCuts
  <2>5. \A i \in E : i < x => i \in seen
    BY <1>4, <1>7
  <2>6. n + 1 \in Nat
    BY <1>1
  <2>7. CASE x \notin E
    <3>1. next = [done |-> TRUE, produced |-> n, found |-> F]
      BY <2>3, <2>4, <2>7
    <3>2. ASSUME NEW i \in E
          PROVE  i \in seen
      <4>1. ~(x < i)
        BY <1>2, <1>6, <2>7, EndCuts
      <4>2. i \in Int /\ i # x
        BY <1>4, <2>7
      <4>3. QED
        BY <1>6, <2>5, <4>1, <4>2
    <3>3. P = W
      BY <1>4, <2>1, <3>2
    <3>4. Good(s, w, l, next, more)
      BY <1>1, <1>2, <1>3, <3>1, <3>3, GoodFrom
    <3>5. QED
      BY <1>8, <1>10, <3>4
  <2>8. CASE x \in E
    <3>1. {j \in E : j < x} = seen
      <4>1. \A y \in seen : y \in E /\ y < x
        BY <1>4, <1>7, <2>1
      <4>2. QED
        BY <2>5, <4>1
    <3>2. x \in K
      <4>1. x \in K <=> s.endAfterOccurrences = None \/ n < s.endAfterOccurrences
        BY <1>2, <2>1, <2>8, <3>1, SeriesIs
      <4>2. s.endAfterOccurrences # None => s.endAfterOccurrences \in Nat
        BY SeriesIs
      <4>3. QED
        BY <1>1, <1>13, <4>1, <4>2 DEF Counted
    <3>3. more \subseteq K /\ n + 1 = Cardinality(more)
      BY <1>8, <1>9, <2>1, <3>2
    <3>4. CASE x > w.to
      <4>1. next = [done |-> TRUE, produced |-> n + 1, found |-> F]
        BY <2>3, <2>4, <2>8, <3>4
      <4>2. ASSUME NEW i \in W
            PROVE  i \in seen
        <5>1. i \in E /\ i <= w.to /\ i \in Int
          BY <1>4
        <5>2. i < x
          BY <1>5, <1>6, <3>4, <5>1
        <5>3. QED
          BY <2>5, <5>1, <5>2
      <4>3. P = W
        BY <2>1, <4>2
      <4>4. Good(s, w, l, next, more)
        BY <1>2, <1>3, <2>6, <4>1, <4>3, GoodFrom
      <4>5. QED
        BY <1>8, <1>10, <4>4
    <3>5. CASE ~(x > w.to) /\ x < w.from
      <4>1. next = [done |-> FALSE, produced |-> n + 1, found |-> F]
        BY <2>3, <2>4, <2>8, <3>5
      <4>2. x \notin W
        BY <1>4, <1>5, <1>6, <3>5
      <4>3. P = more \cap W
        BY <1>8, <2>1, <4>2
      <4>4. Goes(s, w, l, n + 1, P, more)
        BY <1>2, <2>1, <3>3, <4>3 DEF Goes
      <4>5. Good(s, w, l, next, more)
        BY <1>3, <2>6, <4>1, <4>4, GoodFrom
      <4>6. QED
        BY <1>8, <1>10, <4>5
    <3>6. CASE ~(x > w.to) /\ ~(x < w.from)
      <4>1. next = [done |-> (Len(F) + 1 >= l), produced |-> n + 1, found |-> Append(F, entry)]
        BY <2>3, <2>4, <2>8, <3>6
      <4>2. x \in W
        BY <1>4, <1>5, <1>6, <3>2, <3>6
      <4>3. PICK Q : Q = P \cup {x}
        OBVIOUS
      <4>4. entry = PlaceOf(s, x)
        BY <2>2, PlaceIs
      <4>5. P \in SUBSET Int /\ IsFiniteSet(P) /\ \A p \in P : p < x
        <5>1. P \in SUBSET Int /\ \A p \in P : p < x
          BY <1>4, <1>7, <2>1
        <5>2. P \in SUBSET W
          BY <1>31
        <5>3. IsFiniteSet(P)
          BY <1>4, <5>2, FS_Subset
        <5>4. QED
          BY <5>1, <5>3
      <4>6. /\ Cardinality(P) \in Nat /\ Len(F) = Cardinality(P)
            /\ Cardinality(Q) = Cardinality(P) + 1
            /\ Append(F, entry) = Places(s, Q)
        BY <1>31, <1>6, <4>3, <4>4, <4>5, FoundOneMore
      <4>7. Q \in SUBSET W /\ Q = more \cap W
        BY <1>8, <2>1, <4>2, <4>3
      <4>8. ASSUME NEW p \in Q, NEW q \in W \ Q
            PROVE  p < q
        <5>1. q \notin seen /\ q # x /\ q \in Int /\ q \in A
          BY <1>4, <2>1, <4>3
        <5>2. x < q
          BY <1>6, <1>7, <5>1
        <5>3. CASE p = x
          BY <5>2, <5>3
        <5>4. CASE p \in P
          BY <1>31, <4>3, <5>4
        <5>5. QED
          BY <4>3, <5>3, <5>4
      <4>9. Cardinality(Q) <= l /\ (Len(F) + 1 >= l <=> Cardinality(Q) = l)
        BY <2>1, <4>6
      <4>10. PICK G, over : G = Append(F, entry) /\ over = (Len(F) + 1 >= l)
        OBVIOUS
      <4>11. over \in BOOLEAN /\ (over => Cardinality(Q) = l) /\ (~over => Cardinality(Q) < l)
        <5>1. Cardinality(Q) \in Nat
          BY <4>6
        <5>2. over \in BOOLEAN
          BY ONLY <4>10
        <5>3. over <=> Cardinality(Q) = l
          BY ONLY <4>9, <4>10
        <5>4. Cardinality(Q) < l \/ Cardinality(Q) = l
          BY <4>9, <5>1
        <5>5. QED
          BY ONLY <5>2, <5>3, <5>4
      <4>12. G = Places(s, Q)
        BY <4>6, <4>10
      <4>13. Good(s, w, l, [done |-> over, produced |-> n + 1, found |-> G], more)
        <5>1. FoundOf(s, w, l, Q, G)
          BY <1>2, <4>7, <4>8, <4>9, <4>12 DEF FoundOf
        <5>2. ~over => Goes(s, w, l, n + 1, Q, more)
          BY <1>2, <3>3, <4>7, <4>11 DEF Goes
        <5>3. QED
          BY <2>6, <4>11, <5>1, <5>2, GoodFrom
      <4>14. QED
        BY <1>8, <1>10, <4>1, <4>10, <4>13
    <3>7. QED
      BY <3>4, <3>5, <3>6
  <2>9. QED
    BY <2>7, <2>8
<1>14. QED
  BY <1>1, <1>11, <1>12, <1>13

Before(s, d) == UNION {OfDay(s, e) : e \in {f \in DaysOf(s) : f < d}}

\* One day of the search.
LEMMA VisitedDay ==
  ASSUME NEW s, IsSchedule(s), NEW w \in [from : Int, to : Int], NEW l \in Nat \ {0},
         NEW d \in DaysOf(s), NEW state, Good(s, w, l, state, Before(s, d)),
         NEW seq, seq = DayInstants(s, d)
  PROVE  Good(s, w, l,
              OverInstants(s, w, l, state, seq),
              Before(s, d) \cup OfDay(s, d))
<1>1. PICK T, n, B : T = OfDay(s, d) /\ n = Cardinality(T) /\ B = Before(s, d)
  OBVIOUS
<1>2. d \in Dates /\ Dates \in SUBSET Nat /\ d \in Nat
  BY MonthIs DEF DaysOf
<1>3. T \in SUBSET Int /\ IsFiniteSet(T) /\ seq = Ordered(T)
  BY <1>1, <1>2, DayIs
<1>4. /\ n \in Nat /\ DOMAIN seq = 1..n /\ Len(seq) = n
      /\ \A i, j \in 1..n : i < j => seq[i] < seq[j]
      /\ \A i \in 1..n : seq[i] \in T /\ Rank(T, seq[i]) = i
      /\ \A y \in T : Rank(T, y) \in 1..n /\ seq[Rank(T, y)] = y
  BY <1>1, <1>3, OrderedIs, OrderedRises
<1>5. PICK outcome : outcome = OverInstants(s, w, l, state, seq)
  OBVIOUS
<1>6. PICK st : Through(st, "instants", InstantsGiven(s, w, l, seq), state, n, outcome)
  BY <1>4, <1>5, InstantsFolded
<1>7. /\ st[0] = state /\ outcome = st[n]
      /\ \A k \in Nat : k < n => st[k + 1] = VisitInstant(s, w, l, st[k], seq[k + 1], k + 1, Len(seq))
  <2>1. /\ st[0] = state /\ outcome = st[n]
        /\ \A k \in Nat : k < n => st[k + 1] = Round("instants", InstantsGiven(s, w, l, seq), st[k], k + 1)
    BY <1>6 DEF Through
  <2>2. ASSUME NEW k \in Nat, k < n
        PROVE  Round("instants", InstantsGiven(s, w, l, seq), st[k], k + 1)
                 = VisitInstant(s, w, l, st[k], seq[k + 1], k + 1, Len(seq))
    <3>1. PICK a : a = InstantsGiven(s, w, l, seq)
      OBVIOUS
    <3>2. k + 1 \in DOMAIN seq
      BY <1>4, <2>2
    <3>3. a.spec = s /\ a.window = w /\ a.limit = l /\ a.seq = seq /\ a.places[k + 1] = k + 1
      BY <3>1, <3>2 DEF InstantsGiven
    <3>4. QED
      BY <3>1, <3>3 DEF Round
  <2>3. QED
    BY <2>1, <2>2
<1> DEFINE Seen(k) == B \cup {seq[j] : j \in 1..k}
           S == {k \in Nat : k <= n => Good(s, w, l, st[k], Seen(k))}
<1>8. 0 \in S
  <2>1. Seen(0) = B
    OBVIOUS
  <2>2. QED
    BY <1>1, <1>7, <2>1
<1>9. ASSUME NEW k \in Nat, k \in S
      PROVE  k + 1 \in S
  <2>1. SUFFICES ASSUME k + 1 <= n
                 PROVE  Good(s, w, l, st[k + 1], Seen(k + 1))
    OBVIOUS
  <2>2. PICK x : x = seq[k + 1]
    OBVIOUS
  <2>3. k + 1 \in 1..n /\ x \in T /\ Rank(T, x) = k + 1 /\ x \in Int
    <3>1. k + 1 \in 1..n
      BY <1>4, <2>1
    <3>2. x \in T /\ Rank(T, x) = k + 1
      BY <1>4, <2>2, <3>1
    <3>3. QED
      BY <1>3, <3>1, <3>2
  <2>4. Good(s, w, l, st[k], Seen(k))
    BY <1>4, <1>9, <2>1
  <2>5. ASSUME NEW y \in Seen(k)
        PROVE  y \in AllOf(s) /\ y < x
    <3>1. CASE y \in B
      <4>1. PICK e \in DaysOf(s) : e < d /\ y \in OfDay(s, e)
        BY <1>1, <3>1 DEF Before
      <4>2. e \in Nat
        BY <1>2 DEF DaysOf
      <4>3. y < x
        BY <1>1, <1>2, <2>3, <4>1, <4>2, DaysInOrder
      <4>4. QED
        BY <4>1, <4>3 DEF AllOf
    <3>2. CASE \E j \in 1..k : y = seq[j]
      <4>1. PICK j \in 1..k : y = seq[j]
        BY <3>2
      <4>2. j \in 1..n /\ j < k + 1
        BY <1>4, <2>1
      <4>3. y \in T /\ y < x
        BY <1>4, <2>2, <2>3, <4>1, <4>2
      <4>4. QED
        BY <1>1, <4>3 DEF AllOf
    <3>3. QED
      BY <3>1, <3>2
  <2>6. ASSUME NEW y \in AllOf(s), y < x
        PROVE  y \in Seen(k)
    <3>1. PICK e \in DaysOf(s) : y \in OfDay(s, e)
      BY DEF AllOf
    <3>2. e \in Nat /\ y \in Int
      <4>1. e \in Nat
        BY <1>2 DEF DaysOf
      <4>2. QED
        BY <3>1, <4>1, DayIs
    <3>3. ~(d < e)
      <4>1. d < e => x < y
        BY <1>1, <1>2, <2>3, <3>1, <3>2, DaysInOrder
      <4>2. QED
        BY <2>3, <2>6, <3>2, <4>1
    <3>4. CASE e < d
      <4>1. y \in B
        BY <1>1, <3>1, <3>4 DEF Before
      <4>2. QED
        BY <4>1
    <3>5. CASE e = d
      <4>1. PICK j : j = Rank(T, y)
        OBVIOUS
      <4>2. j \in 1..n /\ seq[j] = y
        BY <1>1, <1>4, <3>1, <3>5, <4>1
      <4>3. ~(k + 1 < j) /\ j # k + 1
        <5>1. k + 1 < j => x < y
          BY <1>4, <2>2, <2>3, <4>2
        <5>2. j = k + 1 => x = y
          BY <2>2, <4>2
        <5>3. QED
          BY <2>3, <2>6, <3>2, <5>1, <5>2
      <4>4. j \in 1..k
        BY <4>2, <4>3
      <4>5. QED
        BY <4>2, <4>4
    <3>6. QED
      BY <1>2, <3>2, <3>3, <3>4, <3>5
  <2>7. PICK seen : seen = Seen(k)
    OBVIOUS
  <2>8. seen = {y \in AllOf(s) : y < x}
    BY <2>5, <2>6, <2>7
  <2>9. Good(s, w, l, VisitInstant(s, w, l, st[k], x, k + 1, n), seen \cup {x})
    <3>1. x \in OfDay(s, d) /\ k + 1 = Rank(OfDay(s, d), x) /\ n = Cardinality(OfDay(s, d))
      BY <1>1, <2>3
    <3>2. Good(s, w, l, st[k], seen)
      BY <2>4, <2>7
    <3>3. QED
      BY <2>8, <3>1, <3>2, VisitedInstant
  <2>10. seen \cup {x} = Seen(k + 1)
    <3>1. 1..(k + 1) = 1..k \cup {k + 1}
      OBVIOUS
    <3>2. QED
      BY <2>2, <2>7, <3>1
  <2>11. st[k + 1] = VisitInstant(s, w, l, st[k], x, k + 1, n)
    BY <1>4, <1>7, <2>1, <2>2
  <2>12. QED
    BY <2>9, <2>10, <2>11
<1> HIDE DEF S
<1>10. n \in S
  BY <1>4, <1>8, <1>9, Induction
<1>11. Good(s, w, l, st[n], Seen(n))
  BY <1>4, <1>10 DEF S
<1>12. Seen(n) = B \cup T
  <2>1. {seq[j] : j \in 1..n} = T
    BY <1>4
  <2>2. QED
    BY <2>1
<1>13. QED
  BY <1>1, <1>5, <1>7, <1>11, <1>12

\* Before a day the engine may find that the search is over.
LEMMA VisitDateIs ==
  ASSUME NEW s, NEW w, NEW l, NEW state, NEW d
  PROVE  VisitDate(s, w, l, state, d) =
           IF state.done \/ (s.endDate # None /\ d > s.endDate) \/ Counted(s, state.produced)
           THEN [state EXCEPT !.done = TRUE]
           ELSE OverInstants(s, w, l, state, DayInstants(s, d))
BY DEF VisitDate, OverInstants, FoldLeftDomain, FoldLeft, MapThenFoldSet

LEMMA PlacedIs ==
  ASSUME NEW s, NEW w, NEW l
  PROVE  PlacedOccurrences(s, w, l) =
           OverDates(s, w, l, [done |-> FALSE, produced |-> 0, found |-> <<>>],
                     Ordered(CandidateDates(s))).found
BY DEF PlacedOccurrences, OverDates, FoldLeft, MapThenFoldSet

\* The whole search: what it comes to shows the first that are due.
LEMMA Searched ==
  ASSUME NEW s, IsSchedule(s), NEW w \in [from : Int, to : Int], NEW l \in Nat \ {0}
  PROVE  \E P : /\ FoundOf(s, w, l, P, PlacedOccurrences(s, w, l))
                /\ Cardinality(P) = l \/ P = InWindow(s, w)
<1>1. PICK C, seq, n, base : /\ C = CandidateDates(s) /\ seq = Ordered(C) /\ n = Cardinality(C)
                             /\ base = [done |-> FALSE, produced |-> 0, found |-> <<>>]
  OBVIOUS
<1>2. /\ Dates \in SUBSET Nat /\ C \in SUBSET Dates /\ IsFiniteSet(C) /\ C \in SUBSET Int
      /\ \A d \in Dates : d \in DaysOf(s) <=> d \in C /\ (s.endDate = None \/ d <= s.endDate)
  <2>1. Dates \in SUBSET Nat /\ IsFiniteSet(Dates)
    BY MonthIs
  <2>2. /\ C \in SUBSET Dates
        /\ \A d \in Dates : d \in DaysOf(s) <=> d \in C /\ (s.endDate = None \/ d <= s.endDate)
    BY <1>1, CandidatesAre DEF DaysOf
  <2>3. IsFiniteSet(C)
    BY <2>1, <2>2, FS_Subset
  <2>4. C \in SUBSET Int
    BY <2>1, <2>2
  <2>5. QED
    BY <2>1, <2>2, <2>3, <2>4
<1>3. /\ n \in Nat /\ DOMAIN seq = 1..n
      /\ \A i, j \in 1..n : i < j => seq[i] < seq[j]
      /\ \A i \in 1..n : seq[i] \in C
      /\ \A d \in C : Rank(C, d) \in 1..n /\ seq[Rank(C, d)] = d
  BY <1>1, <1>2, OrderedIs, OrderedRises
<1>4. PICK outcome : outcome = OverDates(s, w, l, base, seq)
  OBVIOUS
<1>5. PICK st : Through(st, "dates", DatesGiven(s, w, l, seq), base, n, outcome)
  BY <1>3, <1>4, DatesFolded
<1>6. /\ st[0] = base /\ outcome = st[n]
      /\ \A k \in Nat : k < n => st[k + 1] = VisitDate(s, w, l, st[k], seq[k + 1])
  <2>1. /\ st[0] = base /\ outcome = st[n]
        /\ \A k \in Nat : k < n => st[k + 1] = Round("dates", DatesGiven(s, w, l, seq), st[k], k + 1)
    BY <1>5 DEF Through
  <2>2. ASSUME NEW state, NEW i
        PROVE  Round("dates", DatesGiven(s, w, l, seq), state, i) = VisitDate(s, w, l, state, seq[i])
    <3>1. PICK a : a = DatesGiven(s, w, l, seq)
      OBVIOUS
    <3>2. a.spec = s /\ a.window = w /\ a.limit = l /\ a.seq = seq
      BY <3>1 DEF DatesGiven
    <3>3. QED
      BY <3>1, <3>2 DEF Round
  <2>3. QED
    BY <2>1, <2>2
<1> DEFINE Taken(k) == {e \in DaysOf(s) : \E j \in 1..k : e = seq[j]}
           Seen(k) == UNION {OfDay(s, e) : e \in Taken(k)}
           S == {k \in Nat : k <= n => Good(s, w, l, st[k], Seen(k))}
<1>7. 0 \in S
  <2>1. Taken(0) = {}
    OBVIOUS
  <2>2. PICK none : none = Seen(0)
    OBVIOUS
  <2>3. none = {}
    BY <2>1, <2>2
  <2>4. Cardinality(none) = 0
    BY <2>3, FS_EmptySet
  <2>5. FoundOf(s, w, l, none, <<>>)
    <3>1. Places(s, none) = <<>>
      <4>1. Places(s, none) = [k \in 1..0 |-> PlaceOf(s, Ordered(none)[k])]
        BY <2>4 DEF Places
      <4>2. QED
        BY <4>1
    <3>2. QED
      BY <2>3, <2>4, <3>1 DEF FoundOf
  <2>6. Goes(s, w, l, 0, none, none)
    BY <2>3, <2>4 DEF Goes
  <2>7. Good(s, w, l, base, none)
    BY <1>1, <2>5, <2>6, GoodFrom
  <2>8. QED
    BY <1>6, <2>2, <2>7
<1>8. ASSUME NEW k \in Nat, k \in S
      PROVE  k + 1 \in S
  <2>1. SUFFICES ASSUME k + 1 <= n
                 PROVE  Good(s, w, l, st[k + 1], Seen(k + 1))
    OBVIOUS
  <2>2. PICK date, state : date = seq[k + 1] /\ state = st[k]
    OBVIOUS
  <2>3. /\ k + 1 \in 1..n /\ date \in C /\ date \in Dates /\ date \in Nat
        /\ st[k + 1] = VisitDate(s, w, l, state, date)
    <3>1. k + 1 \in 1..n /\ k < n
      BY <1>3, <2>1
    <3>2. date \in C /\ st[k + 1] = VisitDate(s, w, l, state, date)
      BY <1>3, <1>6, <2>2, <3>1
    <3>3. QED
      BY <1>2, <3>1, <3>2
  <2>4. Good(s, w, l, state, Seen(k))
    BY <1>3, <1>8, <2>1, <2>2
  \* The days taken before this one are those before it.
  <2>5. ASSUME NEW e \in DaysOf(s)
        PROVE  /\ e \in C /\ e \in Nat
               /\ e \in Taken(k) <=> e < date
               /\ e \in Taken(k + 1) <=> e < date \/ e = date
    <3>1. e \in C /\ e \in Nat
      BY <1>2 DEF DaysOf
    <3>2. PICK i : i = Rank(C, e) /\ i \in 1..n /\ seq[i] = e
      BY <1>3, <3>1
    <3>3. (i < k + 1 => e < date) /\ (k + 1 < i => date < e) /\ (i = k + 1 => e = date)
      BY <1>3, <2>2, <2>3, <3>2
    <3>4. e < date <=> i < k + 1
      BY <1>3, <2>3, <3>1, <3>2, <3>3
    <3>5. e = date <=> i = k + 1
      BY <1>3, <2>3, <3>1, <3>2, <3>3
    <3>6. ASSUME NEW j \in 1..n, e = seq[j]
          PROVE  j = i
      <4>1. ~(j < i) /\ ~(i < j)
        BY <1>3, <3>1, <3>2, <3>6
      <4>2. QED
        BY <3>2, <4>1
    <3>7. ASSUME NEW m \in Nat, m <= n
          PROVE  e \in Taken(m) <=> i <= m
      <4>1. \A j \in 1..m : j \in 1..n
        BY <1>3, <3>7
      <4>2. i <= m => i \in 1..m
        BY <3>2, <3>7
      <4>3. QED
        BY <3>2, <3>6, <4>1, <4>2
    <3>8. e \in Taken(k) <=> i <= k
      BY <1>3, <2>1, <3>7
    <3>9. e \in Taken(k + 1) <=> i <= k + 1
      BY <1>3, <2>1, <3>7
    <3>10. QED
      BY <1>3, <3>1, <3>2, <3>4, <3>5, <3>8, <3>9
  <2>6. PICK seen : seen = Seen(k)
    OBVIOUS
  <2>7. CASE state.done \/ (s.endDate # None /\ date > s.endDate) \/ Counted(s, state.produced)
    <3>1. st[k + 1] = [state EXCEPT !.done = TRUE]
      BY <2>3, <2>7, VisitDateIs
    <3>2. PICK D, m, F : /\ state = [done |-> D, produced |-> m, found |-> F]
                         /\ D = state.done /\ m = state.produced /\ F = state.found
                         /\ D \in BOOLEAN /\ m \in Nat
      BY <2>4 DEF Good
    <3>3. st[k + 1] = [done |-> TRUE, produced |-> m, found |-> F]
      <4>1. state = [done |-> D, produced |-> m, found |-> F]
        BY <3>2
      <4>2. [state EXCEPT !.done = TRUE] = [done |-> TRUE, produced |-> m, found |-> F]
        BY ONLY <4>1, OverNow
      <4>3. QED
        BY ONLY <3>1, <4>2
    <3>4. PICK P : /\ FoundOf(s, w, l, P, F)
                   /\ D => Cardinality(P) = l \/ P = InWindow(s, w)
                   /\ ~D => Goes(s, w, l, m, P, seen)
      BY <2>4, <2>6, <3>2 DEF Good
    <3>5. ASSUME ~D
          PROVE  P = InWindow(s, w)
      <4>1. /\ P = seen \cap InWindow(s, w)
            /\ \/ seen \subseteq Series(s) /\ m = Cardinality(seen)
               \/ Series(s) \subseteq seen
        BY <3>4, <3>5 DEF Goes
      <4>2. CASE Series(s) \subseteq seen
        BY <4>1, <4>2, DueIs
      <4>3. CASE seen \subseteq Series(s) /\ m = Cardinality(seen) /\ Counted(s, m)
        <5>1. seen = Series(s)
          BY <4>3, SeriesIs
        <5>2. QED
          BY <4>2, <5>1
      <4>4. CASE s.endDate # None /\ date > s.endDate
        <5>1. ASSUME NEW y \in InWindow(s, w)
              PROVE  y \in seen
          <6>1. y \in AllOf(s)
            BY DueIs
          <6>2. PICK e \in DaysOf(s) : y \in OfDay(s, e)
            BY <6>1 DEF AllOf
          <6>3. e \in Nat /\ e <= s.endDate /\ s.endDate \in Nat
            <7>1. e \in Dates
              BY DEF DaysOf
            <7>2. e <= s.endDate
              BY <1>2, <4>4, <6>2, <7>1
            <7>3. s.endDate \in Dates
              BY <4>4 DEF IsSchedule
            <7>4. QED
              BY <1>2, <7>1, <7>2, <7>3
          <6>4. e < date
            BY <2>3, <4>4, <6>3
          <6>5. e \in Taken(k)
            BY <2>5, <6>4
          <6>6. QED
            BY <2>6, <6>2, <6>5
        <5>2. QED
          BY <4>1, <5>1
      <4>5. QED
        BY <2>7, <3>2, <3>5, <4>1, <4>2, <4>3, <4>4
    <3>6. Cardinality(P) = l \/ P = InWindow(s, w)
      BY <3>2, <3>4, <3>5
    <3>7. PICK later : later = Seen(k + 1)
      OBVIOUS
    <3>8. Good(s, w, l, [done |-> TRUE, produced |-> m, found |-> F], later)
      BY <3>2, <3>4, <3>6, GoodFrom
    <3>9. QED
      BY <3>3, <3>7, <3>8
  <2>8. CASE ~(state.done \/ (s.endDate # None /\ date > s.endDate) \/ Counted(s, state.produced))
    <3>1. st[k + 1] = OverInstants(s, w, l, state, DayInstants(s, date))
      BY <2>3, <2>8, VisitDateIs
    <3>2. date \in DaysOf(s)
      <4>1. s.endDate # None => s.endDate \in Nat
        BY <1>2 DEF IsSchedule
      <4>2. s.endDate = None \/ date <= s.endDate
        BY <2>3, <2>8, <4>1
      <4>3. QED
        BY <1>2, <2>3, <4>2
    <3>3. Seen(k) = Before(s, date)
      <4>1. Taken(k) = {e \in DaysOf(s) : e < date}
        BY <2>5
      <4>2. QED
        BY <4>1 DEF Before
    <3>4. Seen(k + 1) = Before(s, date) \cup OfDay(s, date)
      <4>1. Taken(k + 1) = {e \in DaysOf(s) : e < date} \cup {date}
        BY <2>5, <3>2
      <4>2. QED
        BY <4>1 DEF Before
    <3>5. Good(s, w, l, OverInstants(s, w, l, state, DayInstants(s, date)), Before(s, date) \cup OfDay(s, date))
      BY <2>4, <3>2, <3>3, VisitedDay
    <3>6. QED
      BY <3>1, <3>4, <3>5
  <2>9. QED
    BY <2>7, <2>8
<1> HIDE DEF S
<1>9. n \in S
  BY <1>3, <1>7, <1>8, Induction
<1>10. Good(s, w, l, st[n], Seen(n))
  BY <1>3, <1>9 DEF S
<1>11. InWindow(s, w) \subseteq Seen(n)
  <2>1. ASSUME NEW y \in InWindow(s, w)
        PROVE  y \in Seen(n)
    <3>1. PICK e \in DaysOf(s) : y \in OfDay(s, e)
      BY DueIs DEF AllOf
    <3>2. e \in C
      BY <1>2 DEF DaysOf
    <3>3. e \in Taken(n)
      BY <1>3, <3>2
    <3>4. QED
      BY <3>1, <3>3
  <2>2. QED
    BY <2>1
<1>12. PICK all : all = Seen(n)
  OBVIOUS
<1>13. PICK P : /\ FoundOf(s, w, l, P, st[n].found)
                /\ st[n].done => Cardinality(P) = l \/ P = InWindow(s, w)
                /\ ~st[n].done => P = all \cap InWindow(s, w)
  BY <1>10, <1>12 DEF Good, Goes
<1>14. P = all \cap InWindow(s, w) => P = InWindow(s, w)
  BY <1>11, <1>12
<1>15. PlacedOccurrences(s, w, l) = st[n].found
  BY <1>1, <1>4, <1>6, PlacedIs
<1>16. QED
  BY <1>13, <1>14, <1>15

-----------------------------------------------------------------------------
\* placedOccurrencesFor finds, of any schedule, in any window and up to any limit, the first
\* instants that are due there, each once, in order and with its place in its day, and as many
\* as were asked for.
THEOREM FirstDueFound ==
  ASSUME NEW s, IsSchedule(s), NEW w \in [from : Int, to : Int], NEW l \in Nat \ {0}
  PROVE  LET due == Ordered(InWindow(s, w))
         IN PlacedOccurrences(s, w, l) = [k \in 1..Min({l, Len(due)}) |-> PlaceOf(s, due[k])]
<1>1. PICK W, due, n, answers : /\ W = InWindow(s, w) /\ due = Ordered(W) /\ n = Cardinality(W)
                                /\ answers = PlacedOccurrences(s, w, l)
  OBVIOUS
<1>2. W \in SUBSET Int /\ IsFiniteSet(W) /\ n \in Nat /\ Len(due) = n
  <2>1. W \in SUBSET Int /\ IsFiniteSet(W) /\ n \in Nat
    BY <1>1, DueIs
  <2>2. QED
    BY <1>1, <2>1, OrderedRises
<1>3. PICK P : FoundOf(s, w, l, P, answers) /\ (Cardinality(P) = l \/ P = W)
  BY <1>1, Searched
<1>4. /\ P \in SUBSET W /\ \A p \in P, q \in W \ P : p < q
      /\ answers = [k \in 1..Cardinality(P) |-> PlaceOf(s, Ordered(P)[k])]
      /\ Cardinality(P) <= l
  BY <1>1, <1>3 DEF FoundOf, Places
<1>5. /\ Cardinality(P) \in Nat /\ Cardinality(P) <= n
      /\ \A i \in 1..Cardinality(P) : Ordered(P)[i] = due[i]
  BY <1>1, <1>2, <1>4, OrderedInitial
<1>6. Min({l, n}) = Cardinality(P)
  <2>1. Cardinality(P) = l \/ Cardinality(P) = n
    BY <1>1, <1>3
  <2>2. PICK c : c = Cardinality(P)
    OBVIOUS
  <2>3. c \in {l, n} /\ c <= l /\ c <= n /\ c \in Nat
    BY <1>4, <1>5, <2>1, <2>2
  <2>4. \A x \in {l, n} : (\A y \in {l, n} : x <= y) => x = c
    BY <1>2, <2>3
  <2>5. \A y \in {l, n} : c <= y
    BY <2>3
  <2>6. Min({l, n}) = c
    BY <2>3, <2>4, <2>5 DEF Min
  <2>7. QED
    BY <2>2, <2>6
<1>7. answers = [k \in 1..Min({l, n}) |-> PlaceOf(s, due[k])]
  BY ONLY <1>4, <1>5, <1>6
<1>8. QED
  BY <1>1, <1>2, <1>7

\* The instants of all that is found below the limit of a comparison.
InstantsOf(found) == [i \in DOMAIN found |-> found[i].at]

\* A comparison sees all that is due in its window.
LEMMA AllCompared ==
  ASSUME NEW s, IsSchedule(s), NEW w \in [from : Int, to : Int]
  PROVE  InstantsOf(PlacedOccurrences(s, w, ComparisonLimit)) = Ordered(InWindow(s, w))
<1>1. PICK W, l, n, found : /\ W = InWindow(s, w) /\ l = ComparisonLimit /\ n = Cardinality(W)
                            /\ found = PlacedOccurrences(s, w, l)
  OBVIOUS
<1>2. W \in SUBSET Int /\ IsFiniteSet(W) /\ n \in Nat /\ n < l /\ l \in Nat \ {0}
  <2>1. W \in SUBSET Int /\ IsFiniteSet(W) /\ n \in Nat /\ n < l
    BY <1>1, DueIs
  <2>2. QED
    BY <1>1, <2>1, InstantsFit
<1>3. PICK P : FoundOf(s, w, l, P, found) /\ (Cardinality(P) = l \/ P = W)
  BY <1>1, <1>2, Searched
<1>4. P \in SUBSET W /\ found = [k \in 1..Cardinality(P) |-> PlaceOf(s, Ordered(P)[k])]
  BY <1>1, <1>3 DEF FoundOf, Places
<1>5. Cardinality(P) # l
  <2>1. Cardinality(P) <= n /\ IsFiniteSet(P)
    BY <1>1, <1>2, <1>4, FS_Subset
  <2>2. Cardinality(P) \in Nat
    BY <2>1, FS_CardinalityType
  <2>3. QED
    BY <1>2, <2>1, <2>2
<1>6. found = [k \in 1..n |-> PlaceOf(s, Ordered(W)[k])]
  BY <1>1, <1>3, <1>4, <1>5
<1>7. \A i : PlaceOf(s, i).at = i
  BY DEF PlaceOf, PlaceIn
<1>8. DOMAIN found = 1..n /\ \A k \in 1..n : found[k].at = Ordered(W)[k]
  BY <1>6, <1>7
<1>9. InstantsOf(found) = [k \in 1..n |-> Ordered(W)[k]]
  BY <1>8 DEF InstantsOf
<1>10. Ordered(W) = [k \in 1..n |-> Ordered(W)[k]]
  <2>1. Ordered(W) \in [1..n -> W]
    BY <1>1, <1>2, OrderedIs
  <2>2. QED
    BY <2>1
<1>11. QED
  BY <1>1, <1>9, <1>10

\* collidingInstants of any two schedules, in any window, are the instants they share, in order:
\* the limit up to which each is searched (MAX_OCCURRENCES_PER_COMPARISON) cuts nothing off.
THEOREM SharedFound ==
  ASSUME NEW a, IsSchedule(a), NEW b, IsSchedule(b), NEW w \in [from : Int, to : Int]
  PROVE  /\ InWindow(a, w) \cap InWindow(b, w) \in SUBSET Int
         /\ IsFiniteSet(InWindow(a, w) \cap InWindow(b, w))
         /\ CollidingInstants(a, b, w) = Ordered(InWindow(a, w) \cap InWindow(b, w))
<1>1. PICK A, B, D : A = InWindow(a, w) /\ B = InWindow(b, w) /\ D = A \cap B
  OBVIOUS
<1>2. /\ A \in SUBSET Int /\ IsFiniteSet(A) /\ B \in SUBSET Int /\ IsFiniteSet(B)
      /\ D \in SUBSET Int /\ IsFiniteSet(D)
  <2>1. A \in SUBSET Int /\ IsFiniteSet(A) /\ B \in SUBSET Int /\ IsFiniteSet(B)
    BY <1>1, DueIs
  <2>2. D \in SUBSET A
    BY <1>1
  <2>3. QED
    BY <2>1, <2>2, FS_Subset
<1>3. PICK first, second : first = Ordered(A) /\ second = Ordered(B)
  OBVIOUS
<1>4. PICK at, places : /\ at = {i \in DOMAIN second : second[i] \in Range(first)}
                        /\ places = Ordered(at)
  OBVIOUS
<1>5. CollidingInstants(a, b, w) = [k \in DOMAIN places |-> second[places[k]]]
  <2>1. /\ first = [i \in DOMAIN PlacedOccurrences(a, w, ComparisonLimit) |->
                      PlacedOccurrences(a, w, ComparisonLimit)[i].at]
        /\ second = [i \in DOMAIN PlacedOccurrences(b, w, ComparisonLimit) |->
                      PlacedOccurrences(b, w, ComparisonLimit)[i].at]
    BY <1>1, <1>3, AllCompared DEF InstantsOf
  <2>2. QED
    BY <1>4, <2>1 DEF CollidingInstants
<1>6. PICK n : n = Cardinality(B)
  OBVIOUS
<1>7. /\ n \in Nat /\ DOMAIN second = 1..n
      /\ \A i, j \in 1..n : i < j => second[i] < second[j]
      /\ \A i \in 1..n : second[i] \in B
      /\ \A y \in B : Rank(B, y) \in 1..n /\ second[Rank(B, y)] = y
      /\ Range(first) = A
  BY <1>2, <1>3, <1>6, OrderedIs, OrderedRises
<1>8. at \in SUBSET (1..n) /\ at \in SUBSET Int /\ IsFiniteSet(at)
  <2>1. at \in SUBSET (1..n)
    BY <1>4, <1>7
  <2>2. IsFiniteSet(1..n)
    BY <1>7, FS_Interval
  <2>3. at \in SUBSET Int
    BY <2>1
  <2>4. QED
    BY <2>1, <2>2, <2>3, FS_Subset
<1>9. PICK m : m = Cardinality(at)
  OBVIOUS
<1>10. /\ m \in Nat /\ DOMAIN places = 1..m
       /\ \A i, j \in 1..m : i < j => places[i] < places[j]
       /\ \A i \in 1..m : places[i] \in at
       /\ \A y \in at : Rank(at, y) \in 1..m /\ places[Rank(at, y)] = y
  BY <1>4, <1>8, <1>9, OrderedIs, OrderedRises
<1>11. PICK f : f = [k \in 1..m |-> second[places[k]]]
  OBVIOUS
<1>12. f \in [1..m -> D]
  <2>1. \A i \in at : second[i] \in D
    BY <1>1, <1>4, <1>7
  <2>2. QED
    BY <1>10, <1>11, <2>1
<1>13. \A i, j \in 1..m : i < j => f[i] < f[j]
  BY <1>7, <1>8, <1>10, <1>11
<1>14. ASSUME NEW y \in D
       PROVE  \E i \in 1..m : f[i] = y
  <2>1. PICK j : j = Rank(B, y)
    OBVIOUS
  <2>2. j \in at /\ second[j] = y
    BY <1>1, <1>4, <1>7, <2>1
  <2>3. QED
    BY <1>10, <1>11, <2>2
<1>15. f = Ordered(D)
  BY <1>2, <1>10, <1>12, <1>13, <1>14, OrderedOnly
<1>16. QED
  BY <1>1, <1>2, <1>5, <1>10, <1>11, <1>15

LEMMA MinIs ==
  ASSUME NEW D \in SUBSET Int, IsFiniteSet(D), D # {}
  PROVE  Min(D) \in D /\ \A y \in D : Min(D) <= y
<1>1. Cardinality(D) \in Nat /\ Cardinality(D) # 0
  BY FS_CardinalityType, FS_EmptySet
<1>2. PICK x : x = Ordered(D)[1]
  OBVIOUS
<1>3. 1 \in 1..Cardinality(D)
  BY <1>1
<1>4. x \in D /\ Rank(D, x) = 1
  BY <1>2, <1>3, OrderedIs
<1>5. ASSUME NEW y \in D
      PROVE  x <= y
  <2>1. y < x => Rank(D, y) < Rank(D, x)
    BY <1>4, RanksRise
  <2>2. Rank(D, y) \in 1..Cardinality(D)
    BY RanksRise
  <2>3. ~(y < x)
    BY <1>1, <1>4, <2>1, <2>2
  <2>4. x \in Int /\ y \in Int
    BY <1>4
  <2>5. QED
    BY <2>3, <2>4
<1>6. \A z \in D : (\A y \in D : z <= y) => z = x
  <2>1. \A z \in D : z \in Int
    OBVIOUS
  <2>2. QED
    BY <1>4, <1>5, <2>1
<1>7. Min(D) = x
  BY <1>4, <1>5, <1>6 DEF Min
<1>8. QED
  BY <1>4, <1>5, <1>7

LEMMA FirstIs ==
  ASSUME NEW D \in SUBSET Int, IsFiniteSet(D)
  PROVE  /\ Ordered(D) = <<>> <=> D = {}
         /\ D # {} => Ordered(D)[1] = Min(D) /\ Min(D) \in Int
<1>1. PICK n, f : n = Cardinality(D) /\ f = Ordered(D)
  OBVIOUS
<1>2. n \in Nat /\ f \in [1..n -> D] /\ (n = 0 <=> D = {})
  BY <1>1, OrderedIs, FS_EmptySet
<1>3. f = <<>> <=> n = 0
  <2>1. n = 0 => f = <<>>
    <3>1. n = 0 => 1..n = {}
      BY <1>2
    <3>2. QED
      BY <1>2, <3>1
  <2>2. f = <<>> => n = 0
    <3>1. DOMAIN f = 1..n
      BY <1>2
    <3>2. f = <<>> => 1..n = {}
      BY <3>1
    <3>3. n # 0 => 1 \in 1..n
      BY <1>2
    <3>4. QED
      BY <3>2, <3>3
  <2>3. QED
    BY <2>1, <2>2
<1>4. ASSUME D # {}
      PROVE  f[1] = Min(D) /\ Min(D) \in Int
  <2>1. Min(D) \in D /\ \A y \in D : Min(D) <= y
    BY <1>4, MinIs
  <2>2. 1 \in 1..n
    <3>1. n \in Nat /\ n # 0
      BY <1>2, <1>4
    <3>2. QED
      BY ONLY <3>1
  <2>3. f[1] \in D /\ Rank(D, f[1]) = 1
    BY <1>1, <2>2, OrderedIs
  <2>4. Rank(D, Min(D)) \in 1..n
    BY <1>1, <2>1, RanksRise
  <2>5. ~(Min(D) < f[1])
    <3>1. Min(D) < f[1] => Rank(D, Min(D)) < 1
      BY <2>1, <2>3, RanksRise
    <3>2. QED
      BY <1>2, <2>4, <3>1
  <2>6. f[1] \in Int /\ Min(D) \in Int /\ Min(D) <= f[1]
    BY <2>1, <2>3
  <2>7. QED
    BY ONLY <2>5, <2>6
<1>5. QED
  BY <1>1, <1>2, <1>3, <1>4

\* findCollision, which refuses a write, and conflictsInFolder, which fills the panel, take two
\* paths to one result: in a group of any size the refusal names the sibling and the instant
\* that come first among the panel's pairs of that alarm, and there is none without a pair.
THEOREM RefusalIsOfThePanel ==
  ASSUME NEW g, IsFiniteSet(DOMAIN g), DOMAIN g \in SUBSET Nat, \A i \in DOMAIN g : IsSchedule(g[i]),
         NEW w \in [from : Int, to : Int], NEW id \in DOMAIN g
  PROVE  FindCollision(g[id], [s \in DOMAIN g \ {id} |-> g[s]], w) =
           RefusalBy(id, {p \in ConflictsInFolder(g, w) : id \in {p.a, p.b}})
<1>1. PICK sibs, D : /\ sibs = DOMAIN g \ {id}
                     /\ D = [j \in sibs |-> InWindow(g[id], w) \cap InWindow(g[j], w)]
  OBVIOUS
<1>2. ASSUME NEW j \in sibs
      PROVE  /\ D[j] \in SUBSET Int /\ IsFiniteSet(D[j])
             /\ CollidingInstants(g[id], g[j], w) = Ordered(D[j])
             /\ CollidingInstants(g[j], g[id], w) = Ordered(D[j])
  <2>1. D[j] = InWindow(g[id], w) \cap InWindow(g[j], w) /\ D[j] = InWindow(g[j], w) \cap InWindow(g[id], w)
    BY <1>1
  <2>2. PICK a, b : a = g[id] /\ b = g[j]
    OBVIOUS
  <2>3. IsSchedule(a) /\ IsSchedule(b)
    BY <1>1, <2>2
  <2>4. /\ InWindow(a, w) \cap InWindow(b, w) \in SUBSET Int
        /\ IsFiniteSet(InWindow(a, w) \cap InWindow(b, w))
        /\ CollidingInstants(a, b, w) = Ordered(InWindow(a, w) \cap InWindow(b, w))
    BY <2>3, SharedFound
  <2>5. CollidingInstants(b, a, w) = Ordered(InWindow(b, w) \cap InWindow(a, w))
    BY <2>3, SharedFound
  <2>6. QED
    BY ONLY <2>1, <2>2, <2>4, <2>5
<1>3. PICK J, t : J = {j \in sibs : D[j] # {}} /\ t = [j \in J |-> Min(D[j])]
  OBVIOUS
<1>4. \A j \in J : /\ j \in sibs /\ j \in Nat /\ j # id /\ t[j] \in Int
                   /\ Ordered(D[j]) # <<>> /\ Ordered(D[j])[1] = t[j]
  BY <1>1, <1>2, <1>3, FirstIs
<1>5. \A j \in sibs : j \in J <=> Ordered(D[j]) # <<>>
  BY <1>2, <1>3, FirstIs
<1>6. FindCollision(g[id], [s \in DOMAIN g \ {id} |-> g[s]], w) =
        EarliestOf({[id |-> j, at |-> t[j]] : j \in J})
  <2>1. PICK others, shared :
          /\ others = [s \in DOMAIN g \ {id} |-> g[s]]
          /\ shared = [j \in DOMAIN others |-> CollidingInstants(g[id], others[j], w)]
    OBVIOUS
  <2>2. DOMAIN others = sibs /\ DOMAIN shared = sibs /\ \A j \in sibs : shared[j] = Ordered(D[j])
    BY <1>1, <1>2, <2>1
  <2>3. {j \in DOMAIN others : shared[j] # <<>>} = J
    BY <1>3, <1>5, <2>2
  <2>4. \A j \in J : shared[j][1] = t[j]
    BY <1>4, <2>2
  <2>5. FindCollision(g[id], others, w) =
          EarliestOf({[id |-> j, at |-> shared[j][1]] : j \in {i \in DOMAIN others : shared[i] # <<>>}})
    BY <2>1 DEF FindCollision
  <2>6. {[id |-> j, at |-> shared[j][1]] : j \in J} = {[id |-> j, at |-> t[j]] : j \in J}
    BY <2>4
  <2>7. QED
    BY ONLY <2>1, <2>3, <2>5, <2>6
\* The pairs of the panel that the alarm is in, each told by the other alarm of the two.
<1>7. PICK pairs : pairs = {p \in ConflictsInFolder(g, w) : id \in {p.a, p.b}}
  OBVIOUS
<1>8. PICK both, shared : /\ both = {q \in (DOMAIN g) \X (DOMAIN g) : q[1] < q[2]}
                          /\ shared = [p \in both |-> CollidingInstants(g[p[1]], g[p[2]], w)]
  OBVIOUS
<1>9. ConflictsInFolder(g, w) =
        {[a |-> p[1], b |-> p[2], first |-> shared[p][1], count |-> Len(shared[p])] :
           p \in {q \in both : shared[q] # <<>>}}
  BY <1>8 DEF ConflictsInFolder, EntriesOf
<1>10. ASSUME NEW p \in pairs
       PROVE  \E j \in J : {p.a, p.b} = {id, j} /\ p.first = t[j]
  <2>1. PICK q \in both : /\ shared[q] # <<>> /\ p.a = q[1] /\ p.b = q[2]
                          /\ p.first = shared[q][1] /\ id \in {q[1], q[2]}
    <3>1. p \in ConflictsInFolder(g, w) /\ id \in {p.a, p.b}
      BY <1>7
    <3>2. PICK q \in both : /\ shared[q] # <<>>
                            /\ p = [a |-> q[1], b |-> q[2], first |-> shared[q][1], count |-> Len(shared[q])]
      BY <1>9, <3>1
    <3>3. QED
      BY <3>1, <3>2
  <2>2. q[1] \in DOMAIN g /\ q[2] \in DOMAIN g /\ q[1] < q[2] /\ shared[q] = CollidingInstants(g[q[1]], g[q[2]], w)
    BY <1>8
  <2>3. q[1] # q[2]
    <3>1. q[1] \in Nat /\ q[2] \in Nat
      BY <2>2
    <3>2. QED
      BY <2>2, <3>1
  <2>4. CASE q[1] = id
    <3>1. PICK j : j = q[2]
      OBVIOUS
    <3>2. j \in sibs /\ shared[q] = Ordered(D[j])
      BY <1>1, <1>2, <2>2, <2>3, <2>4, <3>1
    <3>3. j \in J
      BY <1>5, <2>1, <3>2
    <3>4. QED
      BY <1>4, <2>1, <2>4, <3>1, <3>2, <3>3
  <2>5. CASE q[2] = id
    <3>1. PICK j : j = q[1]
      OBVIOUS
    <3>2. j \in sibs /\ shared[q] = Ordered(D[j])
      BY <1>1, <1>2, <2>2, <2>3, <2>5, <3>1
    <3>3. j \in J
      BY <1>5, <2>1, <3>2
    <3>4. QED
      BY <1>4, <2>1, <2>5, <3>1, <3>2, <3>3
  <2>6. QED
    BY <2>1, <2>4, <2>5
<1>11. ASSUME NEW j \in J
       PROVE  \E p \in pairs : {p.a, p.b} = {id, j} /\ p.first = t[j]
  <2>1. PICK q : q = IF id < j THEN <<id, j>> ELSE <<j, id>>
    OBVIOUS
  <2>2. id \in Nat /\ j \in Nat /\ j # id /\ j \in sibs
    BY <1>4
  <2>3. q \in both /\ {q[1], q[2]} = {id, j} /\ shared[q] = Ordered(D[j])
    <3>1. CASE id < j
      <4>1. q = <<id, j>>
        BY <2>1, <3>1
      <4>2. q \in both
        BY <1>1, <1>8, <2>2, <3>1, <4>1
      <4>3. QED
        BY <1>2, <1>8, <2>2, <4>1, <4>2
    <3>2. CASE ~(id < j)
      <4>1. q = <<j, id>> /\ j < id
        BY <2>1, <2>2, <3>2
      <4>2. q \in both
        BY <1>1, <1>8, <2>2, <4>1
      <4>3. QED
        BY <1>2, <1>8, <2>2, <4>1, <4>2
    <3>3. QED
      BY <3>1, <3>2
  <2>4. PICK p : p = [a |-> q[1], b |-> q[2], first |-> shared[q][1], count |-> Len(shared[q])]
    OBVIOUS
  <2>5. p \in ConflictsInFolder(g, w)
    BY <1>4, <1>9, <2>3, <2>4
  <2>6. p.a = q[1] /\ p.b = q[2] /\ p.first = t[j]
    BY <1>4, <2>3, <2>4
  <2>7. id \in {p.a, p.b} /\ {p.a, p.b} = {id, j}
    BY <2>3, <2>6
  <2>8. QED
    BY <1>7, <2>5, <2>6, <2>7
<1>12. CASE J = {}
  <2>1. pairs = {}
    BY <1>10, <1>12
  <2>2. RefusalBy(id, pairs) = {}
    BY <2>1 DEF RefusalBy
  <2>3. EarliestOf({[id |-> j, at |-> t[j]] : j \in J}) = {}
    BY <1>12 DEF EarliestOf
  <2>4. QED
    BY <1>6, <1>7, <2>2, <2>3
<1>13. CASE J # {}
  <2>1. PICK times, M, least, j0 :
          /\ times = {t[j] : j \in J} /\ least = Min(times)
          /\ M = {j \in J : t[j] = least} /\ j0 = Min(M)
    OBVIOUS
  <2>2. J \in SUBSET (DOMAIN g) /\ IsFiniteSet(J) /\ J \in SUBSET Nat
    <3>1. J \in SUBSET (DOMAIN g)
      BY <1>1, <1>4
    <3>2. QED
      BY <3>1, FS_Subset
  <2>3. times \in SUBSET Int /\ IsFiniteSet(times) /\ times # {}
    <3>1. times \in SUBSET Int /\ times # {}
      BY <1>4, <1>13, <2>1
    <3>2. t \in Surjection(J, times)
      BY <1>3, <2>1 DEF Surjection
    <3>3. IsFiniteSet(times)
      BY <2>2, <3>2, FS_Surjection
    <3>4. QED
      BY <3>1, <3>3
  <2>4. least \in times /\ \A j \in J : least <= t[j]
    <3>1. Min(times) \in times /\ \A y \in times : Min(times) <= y
      BY <2>3, MinIs
    <3>2. \A j \in J : t[j] \in times
      BY <2>1
    <3>3. QED
      BY <2>1, <3>1, <3>2
  <2>5. M # {} /\ M \in SUBSET J /\ IsFiniteSet(M) /\ M \in SUBSET Int
    <3>1. M # {} /\ M \in SUBSET J
      BY <2>1, <2>4
    <3>2. IsFiniteSet(M)
      BY <2>2, <3>1, FS_Subset
    <3>3. M \in SUBSET Int
      BY <2>2, <3>1
    <3>4. QED
      BY <3>1, <3>2, <3>3
  <2>6. j0 \in M /\ \A k \in M : j0 <= k
    BY <2>1, <2>5, MinIs
  <2>7. j0 \in J /\ t[j0] = least /\ least \in Int /\ j0 \in Int
    BY <2>1, <2>3, <2>4, <2>5, <2>6
  <2>8. EarliestOf({[id |-> j, at |-> t[j]] : j \in J}) = {[id |-> j0, at |-> least]}
    <3>1. PICK found, c0 : found = {[id |-> j, at |-> t[j]] : j \in J} /\ c0 = [id |-> j0, at |-> least]
      OBVIOUS
    <3>2. c0 \in found /\ c0.id = j0 /\ c0.at = least
      BY <2>7, <3>1
    <3>3. ASSUME NEW d \in found \ {c0}
          PROVE  Earlier(c0, d) /\ ~Earlier(d, c0)
      <4>1. PICK k \in J : d = [id |-> k, at |-> t[k]]
        BY <3>1
      <4>2. d.id = k /\ d.at = t[k] /\ k \in Int /\ t[k] \in Int /\ least <= t[k]
        BY <1>4, <2>2, <2>4, <4>1
      <4>3. t[k] = least => k # j0 /\ j0 <= k
        BY <2>1, <2>6, <3>1, <4>1
      <4>4. QED
        BY <2>7, <3>2, <4>2, <4>3 DEF Earlier
    <3>4. EarliestOf(found) = {c \in found : \A d \in found \ {c} : Earlier(c, d)}
      BY DEF EarliestOf
    <3>5. c0 \in EarliestOf(found)
      BY <3>2, <3>3, <3>4
    <3>6. ASSUME NEW c \in EarliestOf(found)
          PROVE  c = c0
      BY <3>2, <3>3, <3>4
    <3>7. QED
      BY <3>1, <3>5, <3>6
  <2>9. PICK firsts, rivals : /\ firsts = {p \in pairs : \A q \in pairs : p.first <= q.first}
                              /\ rivals = (UNION {{p.a, p.b} : p \in firsts}) \ {id}
    OBVIOUS
  <2>10. ASSUME NEW p \in firsts
         PROVE  p.first = least /\ \E j \in M : {p.a, p.b} = {id, j}
    <3>1. PICK j \in J : {p.a, p.b} = {id, j} /\ p.first = t[j]
      BY <1>10, <2>9
    <3>2. PICK q \in pairs : q.first = t[j0]
      BY <1>11, <2>7
    <3>3. p.first <= q.first
      BY <2>9
    <3>4. t[j] \in Int /\ least <= t[j]
      BY <1>4, <2>4
    <3>5. t[j] = least
      BY <2>7, <3>1, <3>2, <3>3, <3>4
    <3>6. QED
      BY <2>1, <3>1, <3>5
  <2>11. ASSUME NEW j \in M
         PROVE  \E p \in firsts : {p.a, p.b} = {id, j}
    <3>1. PICK p \in pairs : {p.a, p.b} = {id, j} /\ p.first = t[j]
      BY <1>11, <2>5
    <3>2. ASSUME NEW q \in pairs
          PROVE  p.first <= q.first
      <4>1. PICK k \in J : q.first = t[k]
        BY <1>10
      <4>2. QED
        BY <2>1, <2>4, <3>1, <4>1
    <3>3. p \in firsts
      BY <2>9, <3>2
    <3>4. QED
      BY <3>1, <3>3
  <2>12. rivals = M
    <3>1. \A j \in M : j # id
      BY <1>4, <2>5
    <3>2. \A x \in rivals : x \in M
      BY <2>9, <2>10
    <3>3. \A j \in M : j \in rivals
      BY <2>9, <2>11, <3>1
    <3>4. QED
      BY <3>2, <3>3
  <2>13. firsts # {} /\ pairs # {}
    BY <2>6, <2>9, <2>11
  <2>14. (CHOOSE p \in firsts : TRUE).first = least
    <3>1. (CHOOSE p \in firsts : TRUE) \in firsts
      BY <2>13
    <3>2. QED
      BY <2>10, <3>1
  <2>15. RefusalBy(id, pairs) = {[id |-> j0, at |-> least]}
    BY <2>1, <2>9, <2>12, <2>13, <2>14 DEF RefusalBy
  <2>16. QED
    BY <1>6, <1>7, <2>8, <2>15
<1>14. QED
  BY <1>12, <1>13

-----------------------------------------------------------------------------
\* The week ahead, and the next of all.

\* No instant is behind the end of all windows.
LEMMA NothingBehind ==
  ASSUME NEW s, IsSchedule(s), NEW i \in AllOf(s)
  PROVE  i \in Int /\ Forever \in Nat \ {0} /\ i <= Forever
<1>1. PICK z, L, c : z = s.timezone /\ L = DayLength /\ c = Cardinality(Dates)
  OBVIOUS
<1>2. z \in Zones /\ SetInsideDay(z) /\ L \in Nat \ {0} /\ c \in Nat /\ Dates = 0..(c - 1)
  BY <1>1, RecurrenceAssumption, MCSchedulesAssumption, MonthIs DEF IsSchedule
<1>3. PICK d \in Dates : i \in OfDay(s, d)
  BY DEF AllOf, DaysOf
<1>4. d \in Nat /\ d < c
  BY <1>2, <1>3
<1>5. PICK t \in 0..(L - 1) : i = ResolveInstant(d, t, z)
  <2>1. i \in {ResolveInstant(d, t, z) : t \in Times(s)}
    BY <1>1, <1>3, <1>4, DayIs
  <2>2. Times(s) \in SUBSET (0..(L - 1))
    BY <1>1, TimesAre
  <2>3. QED
    BY <2>1, <2>2
<1>6. PICK o, h : o = z.offset /\ h = z.shift
  OBVIOUS
<1>7. o \in (1 - L)..(L - 1) /\ h \in (1 - L)..(L - 1)
  BY <1>1, <1>2, <1>6 DEF SetInsideDay
<1>8. PICK p, q : p = d * L /\ q = c * L
  OBVIOUS
<1>9. p \in Int /\ q \in Int /\ q >= 0 /\ p + L <= q
  <2>1. q \in Int /\ q >= 0
    BY <1>2, <1>8
  <2>2. p \in Int /\ p + L <= q
    BY <1>2, <1>4, <1>8, DayAfter
  <2>3. QED
    BY <2>1, <2>2
<1>10. Forever = q + L + L
  <2>1. Forever = (c + 2) * L
    BY <1>1 DEF Forever
  <2>2. (c + 2) * L = q + L + L
    BY <1>2, <1>8
  <2>3. QED
    BY <2>1, <2>2
<1>11. PICK local : local = p + t
  OBVIOUS
<1>12. i = local - o \/ i = local - h - o
  BY <1>1, <1>5, <1>6, <1>8, <1>11 DEF ResolveInstant, Resolve
<1>13. t \in Int /\ o \in Int /\ h \in Int /\ L \in Int /\ t <= L - 1 /\ -o <= L - 1 /\ -h <= L - 1
  BY <1>2, <1>5, <1>7
<1>14. i \in Int /\ i <= q + L + L
  BY ONLY <1>9, <1>11, <1>12, <1>13
<1>15. Forever \in Nat \ {0}
  BY ONLY <1>2, <1>9, <1>10
<1>16. QED
  BY <1>10, <1>14, <1>15

\* A week has fewer seconds than there are before the end of all windows.
LEMMA WeekFits ==
  ASSUME NEW s, IsSchedule(s), NEW now \in Int, NEW w, w = [from |-> now, to |-> now + WeekLength * DayLength]
  PROVE  /\ w \in [from : Int, to : Int] /\ Forever \in Nat \ {0}
         /\ Cardinality(InWindow(s, w)) \in Nat /\ Cardinality(InWindow(s, w)) <= Forever
<1>1. PICK L, W, c, span, D, n :
        /\ L = DayLength /\ W = WeekLength /\ c = Cardinality(Dates) /\ span = W * L
        /\ D = InWindow(s, w) /\ n = Cardinality(D)
  OBVIOUS
<1>2. L \in Nat \ {0} /\ W \in Nat \ {0} /\ c \in Nat /\ Dates = 0..(c - 1)
  BY <1>1, RecurrenceAssumption, MonthIs
<1>3. W - 1 < c
  <2>1. PICK a : a = MonthLengths[1]
    OBVIOUS
  <2>2. 1 \in Months /\ a \in Nat \ {0} /\ FirstOf[1] = 0 /\ a >= W
    <3>1. 1 \in Months
      BY MonthsFollow
    <3>2. \A m \in DOMAIN MonthLengths : MonthLengths[m] >= WeekLength
      BY RecurrenceAssumption
    <3>3. QED
      BY <1>1, <2>1, <3>1, <3>2, MonthsFollow DEF Months
  <2>3. FirstOf[1] + a - 1 \in Dates
    <3>1. a \in 1..MonthLengths[1]
      BY <2>1, <2>2
    <3>2. QED
      BY <2>2, <3>1, MonthIs
  <2>4. a - 1 \in 0..(c - 1)
    BY <1>2, <2>2, <2>3
  <2>5. QED
    BY <1>2, <2>2, <2>4
<1>4. span \in Int /\ span <= c * L /\ c * L \in Int /\ c * L >= 0
  <2>1. (W - 1) * L + L <= c * L /\ c * L \in Int /\ (W - 1) * L \in Int
    BY <1>2, <1>3, DayAfter
  <2>2. span = (W - 1) * L + L
    BY <1>1, <1>2
  <2>3. c * L >= 0
    BY <1>2
  <2>4. QED
    BY <1>2, <2>1, <2>2, <2>3
<1>5. Forever = c * L + L + L
  <2>1. Forever = (c + 2) * L
    BY <1>1 DEF Forever
  <2>2. (c + 2) * L = c * L + L + L
    BY <1>2
  <2>3. QED
    BY <2>1, <2>2
<1>6. PICK last : last = now + span
  OBVIOUS
<1>7. last \in Int /\ w = [from |-> now, to |-> last]
  BY <1>1, <1>4, <1>6
<1>8. D \in SUBSET (now..last) /\ IsFiniteSet(D) /\ n \in Nat
  <2>1. D = {i \in Series(s) : now <= i /\ i <= last}
    BY <1>1, <1>7, DueIs
  <2>2. D \in SUBSET Int /\ IsFiniteSet(D) /\ n \in Nat
    BY <1>1, DueIs
  <2>3. QED
    BY <1>7, <2>1, <2>2
<1>9. n <= span + 1
  <2>1. span >= 0
    BY <1>1, <1>2
  <2>2. IsFiniteSet(now..last) /\ Cardinality(now..last) = last - now + 1
    <3>1. ~(now > last)
      BY <1>4, <1>6, <2>1
    <3>2. QED
      BY <1>7, <3>1, FS_Interval
  <2>3. Cardinality(D) <= Cardinality(now..last)
    BY <1>8, <2>2, FS_Subset
  <2>4. QED
    BY <1>1, <1>4, <1>6, <2>2, <2>3
<1>10. n <= Forever /\ Forever \in Nat \ {0}
  BY ONLY <1>2, <1>4, <1>5, <1>8, <1>9
<1>11. QED
  BY <1>1, <1>7, <1>8, <1>10

\* All of it is found, with no limit that the code could reach.
LEMMA WeekFound ==
  ASSUME NEW s, IsSchedule(s), NEW now \in Int, NEW w, w = [from |-> now, to |-> now + WeekLength * DayLength]
  PROVE  DOMAIN PlacedOccurrences(s, w, Forever) = 1..Cardinality(InWindow(s, w))
<1>1. PICK l, found, D, n : /\ l = Forever /\ found = PlacedOccurrences(s, w, l)
                            /\ D = InWindow(s, w) /\ n = Cardinality(D)
  OBVIOUS
<1>2. w \in [from : Int, to : Int] /\ l \in Nat \ {0} /\ n \in Nat /\ n <= l
  BY <1>1, WeekFits
<1>3. PICK P : FoundOf(s, w, l, P, found) /\ (Cardinality(P) = l \/ P = D)
  BY <1>1, <1>2, Searched
<1>4. P \in SUBSET D /\ DOMAIN found = 1..Cardinality(P)
  BY <1>1, <1>3 DEF FoundOf, Places
<1>5. Cardinality(P) = n
  <2>1. IsFiniteSet(D)
    BY <1>1, DueIs
  <2>2. IsFiniteSet(P) /\ Cardinality(P) <= n /\ Cardinality(P) \in Nat
    BY <1>1, <1>4, <2>1, FS_Subset, FS_CardinalityType
  <2>3. QED
    BY <1>1, <1>2, <1>3, <2>2
<1>6. QED
  BY <1>1, <1>4, <1>5

\* All that is still to come.
ToCome(s, now) == {i \in Series(s) : now <= i}

\* The next is the first of all that is still to come.
LEMMA NextIs ==
  ASSUME NEW s, IsSchedule(s), NEW now \in Int
  PROVE  /\ ToCome(s, now) \in SUBSET Int /\ IsFiniteSet(ToCome(s, now))
         /\ {o.at : o \in Range(NextOccurrence(s, now))} =
              IF ToCome(s, now) = {} THEN {} ELSE {Min(ToCome(s, now))}
<1>1. PICK w, due, D : w = [from |-> now, to |-> Forever] /\ D = InWindow(s, w) /\ due = Ordered(D)
  OBVIOUS
<1>2. D = ToCome(s, now)
  <2>1. D = {i \in Series(s) : now <= i /\ i <= Forever}
    BY <1>1, DueIs
  <2>2. \A i \in Series(s) : i <= Forever
    BY DueIs, NothingBehind
  <2>3. QED
    BY <2>1, <2>2 DEF ToCome
<1>3. D \in SUBSET Int /\ IsFiniteSet(D)
  BY <1>1, DueIs
<1>4. PICK next : next = NextOccurrence(s, now)
  OBVIOUS
<1>5. CASE D = {}
  <2>1. Len(due) = 0
    <3>1. Len(due) = Cardinality(D)
      BY <1>1, <1>3, OrderedRises
    <3>2. QED
      BY <1>5, <3>1, FS_EmptySet
  <2>2. next = <<>>
    <3>1. CASE Forever \in Int
      <4>1. w \in [from : Int, to : Int]
        BY <1>1, <3>1
      <4>2. PICK P : FoundOf(s, w, 1, P, next)
        BY <1>1, <1>4, <4>1, Searched DEF NextOccurrence
      <4>3. P = {} /\ next = Places(s, P)
        BY <1>1, <1>5, <4>2 DEF FoundOf
      <4>4. Cardinality(P) = 0
        BY <4>3, FS_EmptySet
      <4>5. next = [k \in 1..0 |-> PlaceOf(s, Ordered(P)[k])]
        BY <4>3, <4>4 DEF Places
      <4>6. QED
        BY <4>5
    <3>2. Forever \in Int
      BY MonthIs, RecurrenceAssumption DEF Forever
    <3>3. QED
      BY <3>1, <3>2
  <2>3. Range(next) = {}
    BY <2>2 DEF Range
  <2>4. QED
    BY <1>2, <1>3, <1>4, <1>5, <2>3
<1>6. CASE D # {}
  <2>1. w \in [from : Int, to : Int]
    <3>1. Forever \in Int
      BY MonthIs, RecurrenceAssumption DEF Forever
    <3>2. QED
      BY <1>1, <3>1
  <2>2. PICK P : FoundOf(s, w, 1, P, next) /\ (Cardinality(P) = 1 \/ P = D)
    BY <1>1, <1>4, <2>1, Searched DEF NextOccurrence
  <2>3. /\ P \in SUBSET D /\ \A p \in P, q \in D \ P : p < q
        /\ next = Places(s, P) /\ Cardinality(P) <= 1
    BY <1>1, <2>2 DEF FoundOf
  <2>4. IsFiniteSet(P) /\ Cardinality(P) \in Nat /\ (Cardinality(P) = 0 <=> P = {})
    BY <1>3, <2>3, FS_Subset, FS_CardinalityType, FS_EmptySet
  <2>5. Cardinality(P) = 1
    BY <1>6, <2>2, <2>3, <2>4
  <2>6. next = [k \in 1..1 |-> PlaceOf(s, Ordered(P)[k])]
    BY <2>3, <2>5 DEF Places
  <2>7. PlaceOf(s, Ordered(P)[1]).at = Ordered(P)[1]
    BY DEF PlaceOf, PlaceIn
  <2>8. Ordered(P)[1] = due[1]
    <3>1. \A i \in 1..Cardinality(P) : Ordered(P)[i] = Ordered(D)[i]
      BY <1>3, <2>3, OrderedInitial
    <3>2. QED
      BY <1>1, <2>5, <3>1
  <2>9. due[1] = Min(D)
    BY <1>1, <1>3, <1>6, FirstIs
  <2>10. Range(next) = {next[1]} /\ next[1].at = Min(D)
    <3>1. DOMAIN next = {1} /\ next[1] = PlaceOf(s, Ordered(P)[1])
      BY <2>6
    <3>2. QED
      BY <2>7, <2>8, <2>9, <3>1 DEF Range
  <2>11. QED
    BY <1>2, <1>3, <1>4, <1>6, <2>10
<1>7. QED
  BY <1>5, <1>6

LEMMA UnionFinite ==
  ASSUME NEW D, IsFiniteSet(D), NEW F, DOMAIN F = D, \A d \in D : IsFiniteSet(F[d])
  PROVE  IsFiniteSet(UNION {F[d] : d \in D})
<1>1. PICK R, f : R = {F[d] : d \in D} /\ f = [d \in D |-> F[d]]
  OBVIOUS
<1>2. f \in Surjection(D, R)
  BY <1>1 DEF Surjection
<1>3. IsFiniteSet(R)
  BY <1>2, FS_Surjection
<1>4. QED
  BY <1>1, <1>3, FS_UNION

\* Sets of numbers, each numbered, hold as many pairs as they have numbers.
LEMMA PairsAsMany ==
  ASSUME NEW ids, IsFiniteSet(ids), NEW A, DOMAIN A = ids,
         \A id \in ids : A[id] \in SUBSET Int /\ IsFiniteSet(A[id])
  PROVE  Cardinality(UNION {{id} \X (1..Cardinality(A[id])) : id \in ids}) =
           Cardinality(UNION {{id} \X A[id] : id \in ids})
<1>a. PICK n, q, V : /\ n = [id \in ids |-> Cardinality(A[id])]
                     /\ q = [id \in ids |-> Ordered(A[id])]
                     /\ V = UNION {{id} \X A[id] : id \in ids}
  OBVIOUS
<1>b. PICK X : X = [id \in ids |-> {id} \X (1..n[id])]
  OBVIOUS
<1>c. PICK U : U = UNION {X[id] : id \in ids}
  OBVIOUS
<1>1. /\ n = [id \in ids |-> Cardinality(A[id])]
      /\ q = [id \in ids |-> Ordered(A[id])]
      /\ V = UNION {{id} \X A[id] : id \in ids}
      /\ X = [id \in ids |-> {id} \X (1..n[id])]
      /\ U = UNION {X[id] : id \in ids}
  BY <1>a, <1>b, <1>c
<1>2. ASSUME NEW id \in ids
      PROVE  /\ n[id] \in Nat /\ q[id] \in [1..n[id] -> A[id]]
             /\ \A a \in A[id] : \E k \in 1..n[id] : q[id][k] = a
             /\ \A k, l \in 1..n[id] : q[id][k] = q[id][l] => k = l
  <2>1. PICK D : D = A[id]
    OBVIOUS
  <2>2. D \in SUBSET Int /\ IsFiniteSet(D) /\ n[id] = Cardinality(D) /\ q[id] = Ordered(D)
    BY <1>1, <2>1
  <2>3. /\ Cardinality(D) \in Nat /\ Ordered(D) \in [1..Cardinality(D) -> D]
        /\ \A i \in 1..Cardinality(D) : Rank(D, Ordered(D)[i]) = i
        /\ \A d \in D : Rank(D, d) \in 1..Cardinality(D) /\ Ordered(D)[Rank(D, d)] = d
    BY <2>2, OrderedIs
  <2>4. \A k, l \in 1..Cardinality(D) : Ordered(D)[k] = Ordered(D)[l] => k = l
    BY <2>3
  <2>5. QED
    BY <2>1, <2>2, <2>3, <2>4
<1>3. \A u : u \in U <=> \E id \in ids : \E k \in 1..n[id] : u = <<id, k>>
  BY <1>1
<1>4. \A v : v \in V <=> \E id \in ids : \E a \in A[id] : v = <<id, a>>
  BY <1>1
<1>5. IsFiniteSet(U)
  <2>1. \A id \in ids : IsFiniteSet(X[id])
    <3>1. ASSUME NEW id \in ids
          PROVE  IsFiniteSet({id} \X (1..n[id]))
      <4>1. n[id] \in Int /\ 1 \in Int
        BY <1>2
      <4>2. IsFiniteSet(1..n[id])
        BY <4>1, FS_Interval
      <4>3. QED
        BY <4>2, FS_Singleton, FS_Product
    <3>2. QED
      BY <1>1, <3>1
  <2>2. DOMAIN X = ids
    BY <1>1
  <2>3. QED
    BY <1>1, <2>1, <2>2, UnionFinite
<1>6. PICK f : f = [u \in U |-> <<u[1], q[u[1]][u[2]]>>]
  OBVIOUS
<1>7. \A id \in ids : \A k \in 1..n[id] : <<id, k>> \in U /\ f[<<id, k>>] = <<id, q[id][k]>>
  BY <1>3, <1>6
<1>8. f \in [U -> V]
  <2>1. ASSUME NEW u \in U
        PROVE  f[u] \in V
    <3>1. PICK id : id \in ids /\ \E k \in 1..n[id] : u = <<id, k>>
      BY <1>3
    <3>2. PICK k \in 1..n[id] : u = <<id, k>>
      BY <3>1
    <3>3. f[u] = <<id, q[id][k]>> /\ q[id][k] \in A[id]
      BY <1>2, <1>7, <3>1, <3>2
    <3>4. QED
      BY <1>4, <3>1, <3>3
  <2>2. QED
    BY <1>6, <2>1
<1>9. f \in Surjection(U, V)
  <2>1. ASSUME NEW v \in V
        PROVE  \E u \in U : f[u] = v
    <3>1. PICK id : id \in ids /\ \E a \in A[id] : v = <<id, a>>
      BY <1>4
    <3>2. PICK a \in A[id] : v = <<id, a>>
      BY <3>1
    <3>3. PICK k \in 1..n[id] : q[id][k] = a
      BY <1>2, <3>1
    <3>4. <<id, k>> \in U /\ f[<<id, k>>] = v
      BY <1>7, <3>1, <3>2, <3>3
    <3>5. QED
      BY <3>4
  <2>2. QED
    BY <1>8, <2>1 DEF Surjection
<1>10. f \in Injection(U, V)
  <2>1. ASSUME NEW u \in U, NEW v \in U, f[u] = f[v]
        PROVE  u = v
    <3>1. PICK id : id \in ids /\ \E k \in 1..n[id] : u = <<id, k>>
      BY <1>3
    <3>2. PICK k \in 1..n[id] : u = <<id, k>>
      BY <3>1
    <3>3. PICK jd : jd \in ids /\ \E l \in 1..n[jd] : v = <<jd, l>>
      BY <1>3
    <3>4. PICK l \in 1..n[jd] : v = <<jd, l>>
      BY <3>3
    <3>5. <<id, q[id][k]>> = <<jd, q[jd][l]>>
      BY <1>7, <2>1, <3>1, <3>2, <3>3, <3>4
    <3>6. id = jd /\ q[id][k] = q[jd][l]
      BY <3>5
    <3>7. k = l
      BY <1>2, <3>1, <3>6
    <3>8. QED
      BY <3>2, <3>4, <3>6, <3>7
  <2>2. QED
    BY <1>8, <2>1 DEF Injection, IsInjective
<1>11. Cardinality(V) = Cardinality(U)
  BY <1>5, <1>9, <1>10, FS_Surjection
<1>12. {X[id] : id \in ids} = {{id} \X (1..Cardinality(A[id])) : id \in ids}
  BY <1>1
<1>13. QED
  BY <1>1, <1>11, <1>12

\* The summary of a group of any size counts all that its alarms have in the week ahead, both ends
\* of it included, and the next it names, for which it searches on without an end, is the first
\* that any of them has still to come.
THEOREM SummaryOfTheWeek ==
  ASSUME NEW g, IsFiniteSet(DOMAIN g), \A id \in DOMAIN g : IsSchedule(g[id]), NEW now \in Int
  PROVE  LET week  == [from |-> now, to |-> now + WeekLength * DayLength]
             due   == UNION {{id} \X InWindow(g[id], week) : id \in DOMAIN g}
             ahead == UNION {{i \in Series(g[id]) : now <= i} : id \in DOMAIN g}
         IN FolderSummary(g, now) = [inWeek |-> Cardinality(due), next |-> SoonestOf(ahead)]
<1>1. PICK ids, week, A, N, summary :
        /\ ids = DOMAIN g
        /\ week = [from |-> now, to |-> now + WeekLength * DayLength]
        /\ A = [id \in ids |-> InWindow(g[id], week)]
        /\ N = [id \in ids |-> ToCome(g[id], now)]
        /\ summary = FolderSummary(g, now)
  OBVIOUS
<1>2. ASSUME NEW id \in ids
      PROVE  /\ N[id] \in SUBSET Int /\ IsFiniteSet(N[id])
             /\ A[id] \in SUBSET Int /\ IsFiniteSet(A[id])
             /\ DOMAIN PlacedOccurrences(g[id], week, Forever) = 1..Cardinality(A[id])
             /\ {o.at : o \in Range(NextOccurrence(g[id], now))} = IF N[id] = {} THEN {} ELSE {Min(N[id])}
  <2>1. PICK s : s = g[id]
    OBVIOUS
  <2>2. IsSchedule(s) /\ N[id] = ToCome(s, now) /\ A[id] = InWindow(s, week)
    BY <1>1, <2>1
  <2>3. /\ N[id] \in SUBSET Int /\ IsFiniteSet(N[id])
        /\ {o.at : o \in Range(NextOccurrence(s, now))} = IF N[id] = {} THEN {} ELSE {Min(N[id])}
    BY <2>2, NextIs
  <2>4. A[id] \in SUBSET Int /\ IsFiniteSet(A[id])
    BY <2>2, DueIs
  <2>5. DOMAIN PlacedOccurrences(s, week, Forever) = 1..Cardinality(A[id])
    BY <1>1, <2>2, WeekFound
  <2>6. QED
    BY <2>1, <2>3, <2>4, <2>5
\* How many.
<1>3. PICK due : due = UNION {{id} \X A[id] : id \in ids}
  OBVIOUS
<1>4. summary.inWeek = Cardinality(due)
  <2>1. summary.inWeek =
          Cardinality(UNION {{id} \X (DOMAIN PlacedOccurrences(g[id], week, Forever)) : id \in ids})
    BY <1>1 DEF FolderSummary, WeekAhead
  <2>2. {{id} \X (DOMAIN PlacedOccurrences(g[id], week, Forever)) : id \in ids} =
          {{id} \X (1..Cardinality(A[id])) : id \in ids}
    BY <1>2
  <2>3. Cardinality(UNION {{id} \X (1..Cardinality(A[id])) : id \in ids}) =
          Cardinality(UNION {{id} \X A[id] : id \in ids})
    <3>1. DOMAIN A = ids /\ IsFiniteSet(ids)
      BY <1>1
    <3>2. QED
      BY <1>2, <3>1, PairsAsMany
  <2>4. QED
    BY <1>3, <2>1, <2>2, <2>3
\* Which is next: the first of the first of each.
<1>5. PICK heads : heads = UNION {{o.at : o \in Range(NextOccurrence(g[id], now))} : id \in ids}
  OBVIOUS
<1>6. summary.next = SoonestOf(heads)
  BY <1>1, <1>5 DEF FolderSummary
<1>7. PICK all : all = UNION {N[id] : id \in ids}
  OBVIOUS
<1>8. all \in SUBSET Int /\ IsFiniteSet(all)
  <2>1. all \in SUBSET Int
    BY <1>2, <1>7
  <2>2. DOMAIN N = ids
    BY <1>1
  <2>3. IsFiniteSet(all)
    BY <1>1, <1>2, <1>7, <2>2, UnionFinite
  <2>4. QED
    BY <2>1, <2>3
<1>9. \A id \in ids : N[id] # {} => /\ Min(N[id]) \in N[id] /\ Min(N[id]) \in heads
                                    /\ \A i \in N[id] : Min(N[id]) <= i
  <2>1. ASSUME NEW id \in ids, N[id] # {}
        PROVE  Min(N[id]) \in N[id] /\ \A i \in N[id] : Min(N[id]) <= i
    <3>1. PICK D : D = N[id]
      OBVIOUS
    <3>2. D \in SUBSET Int /\ IsFiniteSet(D) /\ D # {}
      BY <1>2, <2>1, <3>1
    <3>3. QED
      BY <3>1, <3>2, MinIs
  <2>2. ASSUME NEW id \in ids, N[id] # {}
        PROVE  Min(N[id]) \in heads
    BY <1>2, <1>5, <2>2
  <2>3. QED
    BY <2>1, <2>2
<1>10. \A i \in heads : \E id \in ids : N[id] # {} /\ i = Min(N[id])
  <2>1. ASSUME NEW i \in heads
        PROVE  \E id \in ids : N[id] # {} /\ i = Min(N[id])
    <3>1. PICK id \in ids : i \in {o.at : o \in Range(NextOccurrence(g[id], now))}
      BY <1>5
    <3>2. i \in IF N[id] = {} THEN {} ELSE {Min(N[id])}
      BY <1>2, <3>1
    <3>3. QED
      BY <3>2
  <2>2. QED
    BY <2>1
<1>11. heads \in SUBSET all
  BY <1>7, <1>9, <1>10
<1>12. SoonestOf(heads) = SoonestOf(all)
  <2>1. CASE all = {}
    BY <1>11, <2>1
  <2>2. CASE all # {}
    <3>1. PICK m : m = Min(all)
      OBVIOUS
    <3>2. m \in all /\ m \in Int /\ \A i \in all : m <= i
      BY <1>8, <2>2, <3>1, MinIs
    <3>3. PICK id \in ids : m \in N[id]
      BY <1>7, <3>2
    <3>4. PICK h : h = Min(N[id])
      OBVIOUS
    <3>5. h \in heads /\ h <= m
      BY <1>9, <3>3, <3>4
    <3>6. heads \in SUBSET Int /\ IsFiniteSet(heads) /\ heads # {}
      BY <1>8, <1>11, <3>5, FS_Subset
    <3>7. PICK n : n = Min(heads)
      OBVIOUS
    <3>8. n \in heads /\ \A i \in heads : n <= i
      BY <3>6, <3>7, MinIs
    <3>9. n \in Int /\ h \in Int /\ n <= h /\ m <= n
      BY <1>11, <3>2, <3>5, <3>6, <3>8
    <3>10. n = m
      BY ONLY <3>2, <3>5, <3>9
    <3>11. QED
      BY <2>2, <3>1, <3>6, <3>7, <3>10 DEF SoonestOf
  <2>3. QED
    BY <2>1, <2>2
<1>13. UNION {{id} \X InWindow(g[id], week) : id \in DOMAIN g} = due
  <2>1. {{id} \X InWindow(g[id], week) : id \in DOMAIN g} = {{id} \X A[id] : id \in ids}
    BY <1>1
  <2>2. QED
    BY <1>3, <2>1
<1>14. UNION {{i \in Series(g[id]) : now <= i} : id \in DOMAIN g} = all
  <2>1. {{i \in Series(g[id]) : now <= i} : id \in DOMAIN g} = {N[id] : id \in ids}
    BY <1>1 DEF ToCome
  <2>2. QED
    BY <1>7, <2>1
<1>15. summary = [inWeek |-> summary.inWeek, next |-> summary.next]
  BY <1>1 DEF FolderSummary
<1>16. summary = [inWeek |-> Cardinality(due), next |-> SoonestOf(all)]
  BY <1>4, <1>6, <1>12, <1>15
<1>17. QED
  BY <1>1, <1>13, <1>14, <1>16

\* The server puts a rule in order once and for all.
LEMMA NormalisedOnce ==
  ASSUME NEW rule, Fitting(rule)
  PROVE  Fitting(NormaliseRule(rule)) /\ NormaliseRule(NormaliseRule(rule)) = NormaliseRule(rule)
<1>1. CASE rule.type # "weekly"
  BY <1>1 DEF NormaliseRule
<1>2. CASE rule.type = "weekly"
  <2> DEFINE days == Range(rule.byWeekday) \cap 1..WeekLength
             put  == [type |-> "weekly", byWeekday |-> Ordered(days)]
  <2>1. rule = [type |-> "weekly", byWeekday |-> rule.byWeekday]
    BY <1>2 DEF Fitting
  <2>2. NormaliseRule(rule) = put
    BY <1>2, <2>1 DEF NormaliseRule
  <2>3. WeekLength \in Nat
    BY RecurrenceAssumption
  <2>4. days \in SUBSET Int /\ IsFiniteSet(days)
    <3>1. 1..WeekLength \in SUBSET Int /\ IsFiniteSet(1..WeekLength)
      BY <2>3, FS_Interval
    <3>2. days \in SUBSET (1..WeekLength)
      OBVIOUS
    <3> HIDE DEF days
    <3>3. QED
      BY <3>1, <3>2, FS_Subset
  <2>5. Range(Ordered(days)) = days
    BY <2>4, OrderedRises
  <2>6. NormaliseRule(put) = put
    BY <2>5 DEF NormaliseRule
  <2>7. QED
    BY <2>2, <2>6 DEF Fitting
<1>3. QED
  BY <1>1, <1>2

-----------------------------------------------------------------------------
\* The form.
LEMMA StartsFilled == Init /\ form # None => Filled(form)
<1>1. QED
  BY DEF Init, Filled, Whole, Fitting, EmptyForm

\* A field of a form can be changed for another value of its kind.
LEMMA FieldsChange ==
  ASSUME NEW f, Filled(f), NEW v
  PROVE  /\ Filled([f EXCEPT !.name = v])
         /\ Filled([f EXCEPT !.speechText = v])
         /\ Filled([f EXCEPT !.speechFinalText = v])
         /\ v \in {"male", "female"} => Filled([f EXCEPT !.speechVoice = v])
         /\ Filled([f EXCEPT !.timezone = v])
         /\ Filled([f EXCEPT !.timeOfDay = v])
         /\ Filled([f EXCEPT !.startDate = v])
         /\ Filled([f EXCEPT !.endMode = v])
         /\ Filled([f EXCEPT !.endDate = v])
         /\ Filled([f EXCEPT !.endTime = v])
         /\ Filled([f EXCEPT !.endAfterOccurrences = v])
         /\ Filled([f EXCEPT !.repeatWithinDay = v])
         /\ Filled([f EXCEPT !.endTimeOfDay = v])
         /\ Filled([f EXCEPT !.repeatEvery = v])
         /\ Filled([f EXCEPT !.repeatUnit = v])
         /\ Fitting(v) => Filled([f EXCEPT !.rule = v])
<1>1. Whole(f)
  BY DEF Filled
<1>2. Filled([f EXCEPT !.name = v])
  BY <1>1 DEF Filled, Whole
<1>3. Filled([f EXCEPT !.speechText = v])
  BY <1>1 DEF Filled, Whole
<1>4. Filled([f EXCEPT !.speechFinalText = v])
  BY <1>1 DEF Filled, Whole
<1>5. v \in {"male", "female"} => Filled([f EXCEPT !.speechVoice = v])
  BY <1>1 DEF Filled, Whole
<1>6. Filled([f EXCEPT !.timezone = v])
  BY <1>1 DEF Filled, Whole
<1>7. Filled([f EXCEPT !.timeOfDay = v])
  BY <1>1 DEF Filled, Whole
<1>8. Filled([f EXCEPT !.startDate = v])
  BY <1>1 DEF Filled, Whole
<1>9. Filled([f EXCEPT !.endMode = v])
  BY <1>1 DEF Filled, Whole
<1>10. Filled([f EXCEPT !.endDate = v])
  BY <1>1 DEF Filled, Whole
<1>11. Filled([f EXCEPT !.endTime = v])
  BY <1>1 DEF Filled, Whole
<1>12. Filled([f EXCEPT !.endAfterOccurrences = v])
  BY <1>1 DEF Filled, Whole
<1>13. Filled([f EXCEPT !.repeatWithinDay = v])
  BY <1>1 DEF Filled, Whole
<1>14. Filled([f EXCEPT !.endTimeOfDay = v])
  BY <1>1 DEF Filled, Whole
<1>15. Filled([f EXCEPT !.repeatEvery = v])
  BY <1>1 DEF Filled, Whole
<1>16. Filled([f EXCEPT !.repeatUnit = v])
  BY <1>1 DEF Filled, Whole
<1>17. Fitting(v) => Filled([f EXCEPT !.rule = v])
  BY <1>1 DEF Filled, Whole
<1>18. QED
  BY <1>2, <1>3, <1>4, <1>5, <1>6, <1>7, <1>8, <1>9, <1>10, <1>11,
     <1>12, <1>13, <1>14, <1>15, <1>16, <1>17

LEMMA RulesFit ==
  ASSUME NEW rule, Fitting(rule), NEW r \in RulesFrom(rule)
  PROVE  Fitting(r)
<1>1. CASE \E type \in RuleTypes : r = RuleOf(type)
  BY <1>1 DEF RuleTypes, RuleOf, Fitting
<1>2. CASE rule.type = "weekly" /\ \E d \in FormDays : r = [rule EXCEPT !.byWeekday = Tick(@, d)]
  BY <1>2 DEF Fitting
<1>3. CASE /\ rule.type = "monthly_day"
          /\ \E n \in FormNumbers : r = [rule EXCEPT !.dayOfMonth = OrElse(Number(n), 1)]
  BY <1>3 DEF Fitting
<1>4. CASE rule.type = "monthly_nth" /\ \E n \in FormNths : r = [rule EXCEPT !.nth = n]
  BY <1>4 DEF Fitting
<1>5. CASE rule.type = "monthly_nth" /\ \E d \in FormDays : r = [rule EXCEPT !.weekday = d]
  BY <1>5 DEF Fitting
<1>6. CASE /\ rule.type = "interval"
          /\ \E n \in FormNumbers : r = [rule EXCEPT !.every = OrElse(Number(n), 1)]
  BY <1>6 DEF Fitting
<1>7. CASE /\ rule.type = "interval"
          /\ \E u \in {"days", "weeks", "months"} : r = [rule EXCEPT !.unit = u]
  BY <1>7 DEF Fitting
<1>8. rule.type \in RuleTypes
  BY DEF Fitting, RuleTypes
<1>9. QED
  BY <1>1, <1>2, <1>3, <1>4, <1>5, <1>6, <1>7, <1>8 DEF RulesFrom, RuleTypes

\* What the first two steps look at.
SameName(f, g) == g.name = f.name
SameDates(f, g) ==
  /\ g.timeOfDay = f.timeOfDay /\ g.startDate = f.startDate
  /\ g.endMode = f.endMode /\ g.endDate = f.endDate
  /\ g.endAfterOccurrences = f.endAfterOccurrences

LEMMA ProblemsStay ==
  ASSUME NEW f, NEW g, SameName(f, g)
  PROVE  /\ ProblemsWithStep(g, 1) = ProblemsWithStep(f, 1)
         /\ SameDates(f, g) => ProblemsWithStep(g, 2) = ProblemsWithStep(f, 2)
<1>1. ProblemsWithStep(g, 1) = ProblemsWithStep(f, 1)
  BY DEF ProblemsWithStep, SameName
<1>2. ASSUME SameDates(f, g)
      PROVE  ProblemsWithStep(g, 2) = ProblemsWithStep(f, 2)
  BY <1>2 DEF ProblemsWithStep, SameDates
<1>3. QED
  BY <1>1, <1>2

\* The second step changes nothing of the first.
LEMMA ScheduleStep ==
  ASSUME form # None, Filled(form), Schedule
  PROVE  Filled(form') /\ SameName(form, form') /\ step = 2 /\ step' = step
<1>1. PICK v : \/ form' = [form EXCEPT !.timezone = v]
               \/ form' = [form EXCEPT !.timeOfDay = v]
               \/ form' = [form EXCEPT !.startDate = v]
               \/ form' = [form EXCEPT !.endMode = v]
               \/ form' = [form EXCEPT !.endDate = v]
               \/ form' = [form EXCEPT !.endTime = v]
               \/ form' = [form EXCEPT !.endAfterOccurrences = v]
  BY DEF Schedule, Update
<1>2. Filled(form')
  <2>1. Whole(form)
    BY DEF Filled
  <2>2. QED
    BY <1>1, <2>1 DEF Filled, Whole
<1>3. SameName(form, form')
  BY <1>1 DEF SameName, Filled, Whole
<1>4. step = 2 /\ step' = step
  BY DEF Schedule, Update
<1>5. QED
  BY <1>2, <1>3, <1>4

\* The third step changes nothing of the first two.
LEMMA RepetitionKeeps ==
  ASSUME form # None, Filled(form), RepetitionStep
  PROVE  Filled(form') /\ SameName(form, form') /\ SameDates(form, form') /\ step = 3 /\ step' = step
<1>1. PICK v : \/ v \in RulesFrom(form.rule) /\ form' = [form EXCEPT !.rule = v]
               \/ form' = [form EXCEPT !.repeatWithinDay = v]
               \/ form' = [form EXCEPT !.repeatWithinDay = TRUE, !.repeatUnit = v]
               \/ form' = [form EXCEPT !.repeatEvery = v]
               \/ form' = [form EXCEPT !.endTimeOfDay = v]
  BY DEF RepetitionStep, Update
<1>2. Filled(form')
  <2>1. CASE v \in RulesFrom(form.rule) /\ form' = [form EXCEPT !.rule = v]
    BY <2>1, FieldsChange, RulesFit DEF Filled
  <2>2. CASE form' = [form EXCEPT !.repeatWithinDay = TRUE, !.repeatUnit = v]
    <3>1. Whole(form)
      BY DEF Filled
    <3>2. QED
      BY <2>2, <3>1 DEF Filled, Whole
  <2>3. CASE form' = [form EXCEPT !.repeatWithinDay = v]
    BY <2>3, FieldsChange
  <2>4. CASE form' = [form EXCEPT !.repeatEvery = v]
    BY <2>4, FieldsChange
  <2>5. CASE form' = [form EXCEPT !.endTimeOfDay = v]
    BY <2>5, FieldsChange
  <2>6. QED
    BY <1>1, <2>1, <2>2, <2>3, <2>4, <2>5
<1>3. SameName(form, form') /\ SameDates(form, form')
  BY <1>1 DEF SameName, SameDates, Filled, Whole
<1>4. step = 3 /\ step' = step
  BY DEF RepetitionStep, Update
<1>5. QED
  BY <1>2, <1>3, <1>4

LEMMA BasicsStep ==
  ASSUME form # None, Filled(form), Basics
  PROVE  Filled(form') /\ step = 1 /\ step' = step
<1>1. PICK v : \/ form' = [form EXCEPT !.name = v]
               \/ form' = [form EXCEPT !.speechText = v]
               \/ form' = [form EXCEPT !.speechFinalText = v]
               \/ v \in {"male", "female"} /\ form' = [form EXCEPT !.speechVoice = v]
  BY DEF Basics, Update
<1>2. Whole(form)
  BY DEF Filled
<1>3. Filled(form')
  BY <1>1, <1>2 DEF Filled, Whole
<1>4. QED
  BY <1>3 DEF Basics, Update

\* A step is left forwards only without problems.
LEMMA GoToStep ==
  ASSUME Passed, NEW next \in {step - 1, step + 1}, GoTo(next)
  PROVE  Passed'
<1>1. form # None /\ form' = form /\ step' = next /\ next \in 1..4 /\ step \in 1..4
  BY DEF GoTo, Passed
<1>2. \A passed \in 1..(next - 1) : ProblemsWithStep(form, passed) = {}
  <2>1. CASE next = step - 1
    BY <1>1, <2>1 DEF Passed
  <2>2. CASE next = step + 1
    BY <1>1, <2>2 DEF Passed, GoTo, Blocks
  <2>3. QED
    BY <2>1, <2>2
<1>3. \A passed \in 1..(step' - 1) : ProblemsWithStep(form', passed) = {}
  BY <1>1, <1>2
<1>4. Filled(form') /\ step' \in 1..4
  BY <1>1 DEF Passed
<1>5. QED
  BY <1>3, <1>4 DEF Passed

LEMMA FormStepKeeps ==
  ASSUME Passed, FormNext
  PROVE  Passed'
<1>1. CASE Basics
  <2>1. form # None
    BY <1>1 DEF Basics
  <2>2. Filled(form') /\ step = 1 /\ step' = 1
    BY <1>1, <2>1, BasicsStep DEF Passed
  <2>3. QED
    BY <2>2 DEF Passed
<1>2. CASE Schedule
  <2>1. form # None
    BY <1>2 DEF Schedule
  <2>2. Filled(form') /\ SameName(form, form') /\ step = 2 /\ step' = 2
    BY <1>2, <2>1, ScheduleStep DEF Passed
  <2>3. ProblemsWithStep(form, 1) = {}
    BY <2>1, <2>2 DEF Passed
  <2>4. ProblemsWithStep(form', 1) = {}
    BY <2>2, <2>3, ProblemsStay
  <2>5. QED
    BY <2>2, <2>4 DEF Passed
<1>3. CASE RepetitionStep
  <2>1. form # None
    BY <1>3 DEF RepetitionStep
  <2>2. /\ Filled(form') /\ SameName(form, form') /\ SameDates(form, form')
        /\ step = 3 /\ step' = 3
    BY <1>3, <2>1, RepetitionKeeps DEF Passed
  <2>3. ProblemsWithStep(form, 1) = {} /\ ProblemsWithStep(form, 2) = {}
    BY <2>1, <2>2 DEF Passed
  <2>4. ProblemsWithStep(form', 1) = {} /\ ProblemsWithStep(form', 2) = {}
    BY <2>2, <2>3, ProblemsStay
  <2>5. QED
    BY <2>2, <2>4 DEF Passed
<1>4. CASE GoTo(step - 1) \/ GoTo(step + 1)
  BY <1>4, GoToStep
<1>5. QED
  BY <1>1, <1>2, <1>3, <1>4 DEF FormNext

\* It holds of what a user begins with.
LEMMA InitIInv == Init => IInv
<1> SUFFICES ASSUME Init
             PROVE  IInv
  OBVIOUS
<1>1. spec \in Saved \cup {None} /\ step = 1
  BY DEF Init
<1>2. form # None => Filled(form)
  BY StartsFilled
<1>3. Asked
  BY DEF Init, Idle, Asked
<1>4. QED
  BY <1>1, <1>2, <1>3 DEF IInv, Passed

\* What was asked and what is compared, after a step.
LEMMA StepAsked ==
  ASSUME IInv, [Next]_vars
  PROVE  Asked'
<1>1. CASE Ask
  <2>1. window' \in [from : Nat, to : Nat] /\ limit' \in Nat /\ spec # None /\ spec' = spec /\ group' = <<>>
    BY <1>1, MCSchedulesAssumption DEF Ask
  <2>2. answer' = PlacedOccurrences(spec', window', limit')
    BY <1>1 DEF Ask
  <2>3. QED
    BY <2>1, <2>2 DEF Asked
<1>2. CASE Compare
  <2>1. PICK i \in 1..3 : group' = <<Companions[i], spec, Companions[i + 1]>>
    BY <1>2 DEF Compare
  <2>2. IsSchedule(spec)
    BY <1>2, MCSchedulesAssumption DEF Compare, IInv
  <2>3. \A k \in 1..4 : IsSchedule(Companions[k])
    <3>1. DOMAIN Companions = 1..4
      BY DEF Companions
    <3>2. \A k \in 1..4 : Companions[k] \in Range(Companions)
      BY <3>1 DEF Range
    <3>3. QED
      BY <3>2, MCSchedulesAssumption
  <2>4. i \in 1..4 /\ i + 1 \in 1..4
    OBVIOUS
  <2>5. DOMAIN group' = 1..3 /\ \A id \in DOMAIN group' : IsSchedule(group'[id])
    <3>1. PICK a, b : a = Companions[i] /\ b = Companions[i + 1]
      OBVIOUS
    <3>2. IsSchedule(a) /\ IsSchedule(b)
      BY <2>3, <2>4, <3>1
    <3>3. group' = <<a, spec, b>>
      BY <2>1, <3>1
    <3>4. DOMAIN group' = 1..3 /\ \A id \in 1..3 : group'[id] \in {a, spec, b}
      BY <3>3
    <3>5. QED
      BY <2>2, <3>2, <3>4
  <2>6. window' \in [from : Nat, to : Nat] /\ limit' = 0
    <3>1. PICK k \in 1..3 : \E now \in Nows[k] : window' = [from |-> now, to |-> now + 34]
      BY <1>2 DEF Compare
    <3>2. PICK now \in Nows[k] : window' = [from |-> now, to |-> now + 34]
      BY <3>1
    <3>3. now \in Nat
      BY <3>2, MCSchedulesAssumption
    <3>4. QED
      BY <1>2, <3>2, <3>3 DEF Compare
  <2>7. QED
    BY <2>5, <2>6 DEF Asked
<1>3. CASE UNCHANGED asked
  BY <1>3 DEF asked, Asked, IInv
<1>4. QED
  BY <1>1, <1>2, <1>3 DEF Next, FillIn, vars

\* And every step keeps it.
LEMMA StepIInv == IInv /\ [Next]_vars => IInv'
<1> SUFFICES ASSUME IInv, [Next]_vars
             PROVE  IInv'
  OBVIOUS
<1>1. spec' = spec
  BY DEF Next, Ask, Compare, FillIn, vars, asked
<1>2. Passed'
  <2>1. CASE FormNext
    BY <2>1, FormStepKeeps DEF IInv
  <2>2. CASE UNCHANGED <<form, step>>
    BY <2>2 DEF IInv, Passed
  <2>3. QED
    BY <2>1, <2>2 DEF Next, Ask, Compare, FillIn, vars
<1>3. Asked'
  BY StepAsked
<1>4. QED
  BY <1>1, <1>2, <1>3 DEF IInv

\* What the wizard shows is a whole form, and every step passed is without problems; what came
\* back is what the engine found for what was asked.
THEOREM SchedulesInvariant == Spec => []IInv
<1>1. QED
  BY InitIInv, StepIInv, PTL DEF Spec

\* What is not refused fits the schema and passes the check behind it.
LEMMA NotRefused ==
  ASSUME NEW p, Refusals(p) = {}
  PROVE  SchemaErrors(p) = {} /\ Complaints(p) = {}
  BY DEF Refusals

\* What a submit sends of a form whose steps are without problems.
LEMMA ReviewedRefusals ==
  ASSUME NEW f, Filled(f), \A which \in 1..3 : ProblemsWithStep(f, which) = {}
  PROVE  Refusals(ToPayload(f)) \subseteq Unlooked(f)
<1>1. PICK p : p = ToPayload(f)
  OBVIOUS
<1>2. /\ Trimmed(f.name) # None /\ f.timeOfDay # None /\ f.startDate # None
      /\ f.repeatWithinDay => f.endTimeOfDay # None /\ ~(f.endTimeOfDay <= f.timeOfDay)
  <2>1. ProblemsWithStep(f, 1) = {} /\ ProblemsWithStep(f, 2) = {} /\ ProblemsWithStep(f, 3) = {}
    OBVIOUS
  <2>2. Trimmed(f.name) # None
    BY <2>1 DEF ProblemsWithStep
  <2>3. f.timeOfDay # None /\ f.startDate # None
    BY <2>1 DEF ProblemsWithStep
  <2>4. f.repeatWithinDay => f.endTimeOfDay # None /\ ~(f.endTimeOfDay <= f.timeOfDay)
    BY <2>1, <2>3 DEF ProblemsWithStep
  <2>5. QED
    BY <2>2, <2>3, <2>4
<1>3. p.name # None /\ p.timeOfDay # None /\ p.startDate # None
  BY <1>1, <1>2 DEF ToPayload
<1>4. /\ p.endTime # None => p.endDate # None
      /\ p.endDate # None => f.endMode = "date" /\ p.endAfterOccurrences = None
      /\ p.endAfterOccurrences # None => f.endMode = "count"
  BY <1>1 DEF ToPayload
<1>5. /\ p.speechText # Blank
      /\ p.speechText = None => p.speechVoice = None /\ p.speechFinalText = None
  BY <1>1, AlarmFormAssumption DEF ToPayload, Trimmed
<1>6. f.repeatWithinDay \/ (WindowParts(p) = {} /\ p.repeatEvery = None)
  <2>1. ASSUME ~f.repeatWithinDay
        PROVE  p.endTimeOfDay = None /\ p.repeatEvery = None /\ p.repeatUnit = None
    BY <1>1, <2>1 DEF ToPayload
  <2>2. QED
    BY <2>1 DEF WindowParts
<1>7. SchemaErrors(p) \subseteq Unlooked(f)
  <2>1. SchemaErrors(p) \subseteq {"endAfterOccurrences", "repeatEvery", "rule"}
    BY <1>3 DEF SchemaErrors
  <2>2. "endAfterOccurrences" \in SchemaErrors(p) => f.endMode = "count"
    BY <1>3, <1>4 DEF SchemaErrors
  <2>3. "repeatEvery" \in SchemaErrors(p) => f.repeatWithinDay
    BY <1>3, <1>6 DEF SchemaErrors
  <2>4. QED
    BY <2>1, <2>2, <2>3 DEF Unlooked
<1>8. Complaints(p) \subseteq Unlooked(f)
  <2>1. Complaints(p) \subseteq {"timezone", "startDate", "endDate", "repeatEvery", "endTimeOfDay"}
    BY <1>4, <1>5 DEF Complaints, HasText
  <2>2. "endDate" \in Complaints(p) => f.endMode = "date"
    BY <1>4 DEF Complaints
  <2>3. "repeatEvery" \in Complaints(p) \/ "endTimeOfDay" \in Complaints(p) => f.repeatWithinDay
    <3>1. ASSUME ~f.repeatWithinDay
          PROVE  Cardinality(WindowParts(p)) = 0
      BY <1>6, <3>1, FS_EmptySet
    <3>2. ASSUME Cardinality(WindowParts(p)) = 0
          PROVE  "repeatEvery" \notin Complaints(p) /\ "endTimeOfDay" \notin Complaints(p)
      BY <3>2 DEF Complaints
    <3>3. QED
      BY <3>1, <3>2
  <2>4. "endTimeOfDay" \in Complaints(p) => ~(f.endTimeOfDay <= f.timeOfDay)
    BY <1>2, <2>3
  <2>5. QED
    BY <2>1, <2>2, <2>3, <2>4 DEF Unlooked
<1>9. QED
  BY <1>1, <1>7, <1>8 DEF Refusals

\* However the user went back and forth, the steps he has passed have no
\* problems, and what he reviews the server refuses for nothing that the wizard
\* has looked at and for nothing that a mode hides.
THEOREM ReviewStaysSound == Spec => []ReviewedHasNoProblems
<1>1. IInv => ReviewedHasNoProblems
  <2> SUFFICES ASSUME IInv, form # None
               PROVE  /\ \A passed \in 1..(step - 1) : ProblemsWithStep(form, passed) = {}
                      /\ step = 4 => Refusals(ToPayload(form)) \subseteq Unlooked(form)
    BY DEF ReviewedHasNoProblems
  <2>1. \A passed \in 1..(step - 1) : ProblemsWithStep(form, passed) = {}
    BY DEF IInv, Passed
  <2>2. ASSUME step = 4
        PROVE  Refusals(ToPayload(form)) \subseteq Unlooked(form)
    <3>1. \A which \in 1..3 : ProblemsWithStep(form, which) = {}
      BY <2>1, <2>2
    <3>2. QED
      BY <3>1, ReviewedRefusals DEF IInv, Passed
  <2>3. QED
    BY <2>1, <2>2
<1>2. QED
  BY <1>1, SchedulesInvariant, PTL

-----------------------------------------------------------------------------
\* What the review shows is computed from the very schedule that a submit saves, for
\* whatever fields are hidden by the mode of the end and by the window.
THEOREM PreviewShowsWhatIsSaved == Spec => []PreviewIsWhatIsSaved
<1>1. PreviewIsWhatIsSaved
  <2>1. PICK p : p = ToPayload(form)
    OBVIOUS
  <2>2. PICK q : q = PreviewRequest(form)
    OBVIOUS
  <2>3. DOMAIN q = {"timeOfDay", "timezone", "startDate", "rule", "endDate", "endTime",
                    "endAfterOccurrences", "endTimeOfDay", "repeatEvery", "repeatUnit"}
    BY <2>2 DEF PreviewRequest
  <2>4. /\ q.timeOfDay = p.timeOfDay /\ q.timezone = p.timezone
        /\ q.startDate = p.startDate /\ q.rule = p.rule
        /\ q.endAfterOccurrences = p.endAfterOccurrences
        /\ q.endTimeOfDay = p.endTimeOfDay /\ q.repeatEvery = p.repeatEvery
        /\ q.repeatUnit = p.repeatUnit
    BY <2>1, <2>2 DEF PreviewRequest, ToPayload
  <2>5. q.endDate = p.endDate /\ q.endTime = p.endTime
    BY <2>1, <2>2 DEF PreviewRequest, ToPayload, EndTimeShown
  <2>6. q = [field \in DOMAIN q |-> p[field]]
    <3>1. \A field \in DOMAIN q : q[field] = p[field]
      BY <2>3, <2>4, <2>5
    <3>2. q = [field \in DOMAIN q |-> q[field]]
      BY <2>2 DEF PreviewRequest
    <3>3. QED
      BY <3>1, <3>2
  <2>7. QED
    BY <2>1, <2>2, <2>6 DEF PreviewIsWhatIsSaved
<1>2. QED
  BY <1>1, PTL

-----------------------------------------------------------------------------
\* An alarm that is opened and saved again.

\* What is sent for an alarm.
Payload(p) ==
  p = [name |-> p.name, speechText |-> p.speechText, speechFinalText |-> p.speechFinalText,
       speechVoice |-> p.speechVoice, timeOfDay |-> p.timeOfDay, timezone |-> p.timezone,
       startDate |-> p.startDate, endDate |-> p.endDate, endTime |-> p.endTime,
       endAfterOccurrences |-> p.endAfterOccurrences, endTimeOfDay |-> p.endTimeOfDay,
       repeatEvery |-> p.repeatEvery, repeatUnit |-> p.repeatUnit, rule |-> p.rule]

\* What the wizard sends whatever is typed: no blanks, a voice where there is something to
\* say and a rule that is whole.
Sendable(p) ==
  /\ Payload(p) /\ Fitting(p.rule)
  /\ p.name # Blank /\ p.speechFinalText # Blank
  /\ p.speechText # None => p.speechVoice # None
  /\ p.repeatEvery # 0

\* A window has all of its parts or none.
LEMMA WindowWhole ==
  ASSUME NEW p, Payload(p), Refusals(p) = {}
  PROVE  \/ p.endTimeOfDay = None /\ p.repeatEvery = None /\ p.repeatUnit = None
         \/ p.endTimeOfDay # None /\ p.repeatEvery # None /\ p.repeatUnit # None
<1> DEFINE parts == {"endTimeOfDay", "repeatEvery", "repeatUnit"}
<1>1. IsFiniteSet(parts) /\ Cardinality(parts) = 3
  <2>1. IsFiniteSet({}) /\ Cardinality({}) = 0
    BY FS_EmptySet
  <2>2. IsFiniteSet({"endTimeOfDay"}) /\ Cardinality({"endTimeOfDay"}) = 1
    BY FS_Singleton
  <2>3. /\ IsFiniteSet({"endTimeOfDay"} \cup {"repeatEvery"})
        /\ Cardinality({"endTimeOfDay"} \cup {"repeatEvery"}) = 2
    BY <2>2, FS_AddElement
  <2> DEFINE two == {"endTimeOfDay"} \cup {"repeatEvery"}
  <2>4. "repeatUnit" \notin two /\ parts = two \cup {"repeatUnit"}
    OBVIOUS
  <2> HIDE DEF two, parts
  <2>5. IsFiniteSet(two) /\ Cardinality(two) = 2
    BY <2>3 DEF two
  <2>6. QED
    BY <2>4, <2>5, FS_AddElement
<1>2. WindowParts(p) \subseteq parts
  BY DEF WindowParts
<1>3. Cardinality(WindowParts(p)) \notin 1..2
  BY NotRefused DEF Complaints, Payload
<1>4. /\ IsFiniteSet(WindowParts(p)) /\ Cardinality(WindowParts(p)) <= 3
      /\ Cardinality(WindowParts(p)) = 3 => WindowParts(p) = parts
  BY <1>1, <1>2, FS_Subset
<1>5. Cardinality(WindowParts(p)) \in Nat /\ (Cardinality(WindowParts(p)) = 0 => WindowParts(p) = {})
  BY <1>4, FS_CardinalityType, FS_EmptySet
<1>6. WindowParts(p) = {} \/ WindowParts(p) = parts
  BY <1>3, <1>4, <1>5
<1>7. QED
  BY <1>6 DEF WindowParts

\* An alarm the server let through is the same after it was opened and saved.
LEMMA KeptByEdit ==
  ASSUME NEW p, Sendable(p), Refusals(p) = {}
  PROVE  Stored(ToPayload(FormFromAlarm(Stored(p)))) = Stored(p)
<1> DEFINE a == Stored(p)
           f == FormFromAlarm(a)
           q == ToPayload(f)
<1>1. /\ p.endTime # None => p.endDate # None
      /\ p.endDate # None => p.endAfterOccurrences = None
      /\ p.endAfterOccurrences # 0
  <2>1. /\ p.endTime # None => p.endDate # None
        /\ p.endDate # None => p.endAfterOccurrences = None
    BY NotRefused DEF Sendable, Complaints, Payload
  <2>2. p.endAfterOccurrences # 0
    BY NotRefused, AlarmFormAssumption DEF Sendable, SchemaErrors, Payload
  <2>3. QED
    BY <2>1, <2>2
<1>2. /\ p.speechText # Blank
      /\ p.speechText = None => p.speechVoice = None /\ p.speechFinalText = None
  BY NotRefused DEF Sendable, Complaints, Payload, HasText
<1>3. \/ p.endTimeOfDay = None /\ p.repeatEvery = None /\ p.repeatUnit = None
      \/ p.endTimeOfDay # None /\ p.repeatEvery # None /\ p.repeatUnit # None
  BY WindowWhole DEF Sendable
<1>4. Payload(a) /\ a = [p EXCEPT !.rule = NormaliseRule(p.rule)]
  BY DEF Stored, Sendable, Payload
<1>5. /\ a.name = p.name /\ a.speechText = p.speechText /\ a.speechFinalText = p.speechFinalText
      /\ a.speechVoice = p.speechVoice /\ a.endDate = p.endDate /\ a.endTime = p.endTime
      /\ a.endAfterOccurrences = p.endAfterOccurrences /\ a.endTimeOfDay = p.endTimeOfDay
      /\ a.repeatEvery = p.repeatEvery /\ a.repeatUnit = p.repeatUnit
      /\ a.rule = NormaliseRule(p.rule)
  BY <1>4 DEF Sendable, Payload
<1> HIDE DEF a
<1>6. q.name = a.name
  BY <1>5 DEF ToPayload, FormFromAlarm, Trimmed, Sendable
<1>7. /\ q.speechText = a.speechText /\ q.speechFinalText = a.speechFinalText
      /\ q.speechVoice = a.speechVoice
  BY <1>2, <1>5 DEF ToPayload, FormFromAlarm, Trimmed, OrElse, Sendable
<1>8. q.timeOfDay = a.timeOfDay /\ q.timezone = a.timezone /\ q.startDate = a.startDate
  BY DEF ToPayload, FormFromAlarm
<1>9. /\ q.endDate = a.endDate /\ q.endTime = a.endTime
      /\ q.endAfterOccurrences = a.endAfterOccurrences
  BY <1>1, <1>5 DEF ToPayload, FormFromAlarm, EndMode, Number
<1>10. /\ q.endTimeOfDay = a.endTimeOfDay /\ q.repeatEvery = a.repeatEvery
       /\ q.repeatUnit = a.repeatUnit
  <2>1. CASE a.endTimeOfDay = None /\ a.repeatEvery = None /\ a.repeatUnit = None
    <3>1. ~f.repeatWithinDay
      BY <2>1 DEF FormFromAlarm, WindowParts
    <3>2. QED
      BY <2>1, <3>1 DEF ToPayload
  <2>2. CASE a.endTimeOfDay # None /\ a.repeatEvery # None /\ a.repeatUnit # None
    <3>1. /\ f.repeatWithinDay /\ f.endTimeOfDay = a.endTimeOfDay
          /\ f.repeatEvery = a.repeatEvery /\ f.repeatUnit = a.repeatUnit
      BY <2>2 DEF FormFromAlarm, WindowParts, OrElse
    <3>2. a.repeatEvery # 0
      BY <1>5 DEF Sendable
    <3>3. QED
      BY <3>1, <3>2 DEF ToPayload, Number
  <2>3. QED
    BY <1>3, <1>5, <2>1, <2>2
<1>11. q.rule = a.rule
  BY DEF ToPayload, FormFromAlarm
<1>12. Payload(q)
  BY DEF ToPayload, Payload
<1> HIDE DEF q
<1>13. q = a
  BY <1>4, <1>6, <1>7, <1>8, <1>9, <1>10, <1>11, <1>12 DEF Payload
<1>14. NormaliseRule(a.rule) = a.rule
  BY <1>5, NormalisedOnce DEF Sendable
<1>15. [a EXCEPT !.rule = NormaliseRule(@)] = a
  BY <1>4, <1>14 DEF Payload
<1>16. Stored(q) = a
  BY <1>13, <1>15 DEF Stored
<1>17. QED
  BY <1>16 DEF a, q

LEMMA SavedSendable ==
  ASSUME NEW a \in Saved
  PROVE  \E p : Sendable(p) /\ Refusals(p) = {} /\ a = Stored(p)
<1>1. PICK p \in Inputs : Refusals(p) = {} /\ a = Stored(p)
  BY DEF Saved
<1>2. PICK r \in Rules, t \in {0, 1}, z \in MCZones, d \in StartDates, e \in Ends, w \in DayWindows :
        p = [name |-> "a", speechText |-> None, speechFinalText |-> None, speechVoice |-> None,
             rule |-> r, timeOfDay |-> t, timezone |-> z, startDate |-> d,
             endDate |-> e[1], endTime |-> e[2], endAfterOccurrences |-> e[3],
             endTimeOfDay |-> w[1], repeatEvery |-> w[2], repeatUnit |-> w[3]]
  BY DEF Inputs
<1>3. Payload(p)
  BY <1>2 DEF Payload
<1>4. Fitting(r)
  BY DEF Rules, Fitting
<1>5. w[2] # 0
  BY AlarmFormAssumption DEF DayWindows
<1>6. p.name # Blank /\ p.speechText = None /\ p.speechFinalText # Blank
  BY <1>2, MCSchedulesAssumption, AlarmFormAssumption
<1>7. p.repeatEvery # 0 /\ Fitting(p.rule)
  BY <1>2, <1>4, <1>5
<1>8. Sendable(p)
  BY <1>3, <1>6, <1>7 DEF Sendable
<1>9. QED
  BY <1>1, <1>8

LEMMA ReviewedSendable ==
  ASSUME NEW f, Filled(f)
  PROVE  Sendable(ToPayload(f))
<1>1. Payload(ToPayload(f))
  BY DEF Payload, ToPayload
<1>2. Fitting(ToPayload(f).rule)
  BY DEF ToPayload, Filled
<1>3. ToPayload(f).name # Blank /\ ToPayload(f).speechFinalText # Blank
  BY AlarmFormAssumption DEF ToPayload, Trimmed
<1>4. ToPayload(f).speechText # None => ToPayload(f).speechVoice # None
  BY AlarmFormAssumption DEF ToPayload, Filled
<1>5. ToPayload(f).repeatEvery # 0
  BY AlarmFormAssumption DEF ToPayload, Number
<1>6. QED
  BY <1>1, <1>2, <1>3, <1>4, <1>5 DEF Sendable

\* Opening what the wizard can have saved and saving it again changes nothing, whatever
\* its modes hide and whatever weekdays were ticked in whatever order.
THEOREM EditsKeepAlarms == Spec => []EditKeepsAlarm
<1>1. IInv => EditKeepsAlarm
  <2> SUFFICES ASSUME IInv
               PROVE  EditKeepsAlarm
    OBVIOUS
  <2> DEFINE Kept(alarm) == Stored(ToPayload(FormFromAlarm(alarm))) = alarm
  <2>1. ASSUME spec # None
        PROVE  Kept(spec)
    <3>1. spec \in Saved
      BY <2>1 DEF IInv
    <3>2. PICK p : Sendable(p) /\ Refusals(p) = {} /\ spec = Stored(p)
      BY <3>1, SavedSendable
    <3>3. Kept(Stored(p))
      BY <3>2, KeptByEdit
    <3>4. QED
      BY <3>2, <3>3
  <2>2. ASSUME form # None, Refusals(ToPayload(form)) = {}
        PROVE  Kept(Stored(ToPayload(form)))
    <3>1. Sendable(ToPayload(form))
      BY <2>2, ReviewedSendable DEF IInv, Passed
    <3>2. QED
      BY <2>2, <3>1, KeptByEdit
  <2>3. QED
    BY <2>1, <2>2 DEF EditKeepsAlarm
<1>2. QED
  BY <1>1, SchedulesInvariant, PTL

-----------------------------------------------------------------------------
\* The engine of the specification.

\* An answer to a window holds the first instants that are due in it, each once and in order,
\* as many as were asked for, and each with its place in its day; whatever the rule, the clock,
\* the end of the series and the window within the day.
THEOREM AnswersAreTheSchedules == Spec => []AnswersTheSchedule
<1>1. IInv => AnswersTheSchedule
  <2> SUFFICES ASSUME IInv, limit > 0
               PROVE  LET due == Ordered(InWindow(spec, window))
                      IN answer = [k \in 1..Min({limit, Len(due)}) |-> PlaceOf(spec, due[k])]
    BY DEF AnswersTheSchedule
  <2>1. /\ spec # None /\ spec \in Saved \cup {None} /\ limit \in Nat \ {0}
        /\ window \in [from : Nat, to : Nat] /\ answer = PlacedOccurrences(spec, window, limit)
    BY DEF IInv, Asked
  <2>2. IsSchedule(spec)
    BY <2>1, MCSchedulesAssumption
  <2>3. window \in [from : Int, to : Int]
    BY <2>1
  <2>4. PICK s, w, l : s = spec /\ w = window /\ l = limit
    OBVIOUS
  <2>5. IsSchedule(s) /\ w \in [from : Int, to : Int] /\ l \in Nat \ {0}
    BY <2>1, <2>2, <2>3, <2>4
  <2>6. LET due == Ordered(InWindow(s, w))
        IN PlacedOccurrences(s, w, l) = [k \in 1..Min({l, Len(due)}) |-> PlaceOf(s, due[k])]
    BY <2>5, FirstDueFound
  <2>7. QED
    BY <2>1, <2>4, <2>6
<1>2. QED
  BY <1>1, SchedulesInvariant, PTL

\* R-08: no instant that two of a group share is missed, and it does not matter which of the
\* two is the candidate.
THEOREM CollisionsAreComplete == Spec => []CollisionsComplete
<1>1. IInv => CollisionsComplete
  <2> SUFFICES ASSUME IInv, NEW a \in DOMAIN group, NEW b \in DOMAIN group
               PROVE  LET shared == CollidingInstants(group[a], group[b], window) IN
                      /\ Range(shared) = InWindow(group[a], window) \cap InWindow(group[b], window)
                      /\ shared = CollidingInstants(group[b], group[a], window)
    BY DEF CollisionsComplete
  <2>1. group # <<>>
    OBVIOUS
  <2>2. PICK s, t, w : s = group[a] /\ t = group[b] /\ w = window
    OBVIOUS
  <2>3. IsSchedule(s) /\ IsSchedule(t) /\ w \in [from : Int, to : Int]
    BY <2>1, <2>2 DEF IInv, Asked
  <2>4. PICK A, B : A = InWindow(s, w) \cap InWindow(t, w) /\ B = InWindow(t, w) \cap InWindow(s, w)
    OBVIOUS
  <2>5. A \in SUBSET Int /\ IsFiniteSet(A) /\ CollidingInstants(s, t, w) = Ordered(A)
    BY <2>3, <2>4, SharedFound
  <2>6. CollidingInstants(t, s, w) = Ordered(B) /\ B = A
    BY <2>3, <2>4, SharedFound
  <2>7. Range(Ordered(A)) = A
    BY <2>5, OrderedRises
  <2>8. QED
    BY ONLY <2>2, <2>4, <2>5, <2>6, <2>7
<1>2. QED
  BY <1>1, SchedulesInvariant, PTL

\* The panel of conflicts of a group and the check that refuses a write tell of the same alarm
\* and the same instant.
THEOREM PanelsAgreeWithRefusals == Spec => []PanelAgreesWithRefusal
<1>1. IInv => PanelAgreesWithRefusal
  <2> SUFFICES ASSUME IInv, NEW id \in DOMAIN group
               PROVE  FindCollision(group[id], [s \in DOMAIN group \ {id} |-> group[s]], window) =
                        RefusalBy(id, {p \in ConflictsInFolder(group, window) : id \in {p.a, p.b}})
    BY DEF PanelAgreesWithRefusal
  <2>1. group # <<>>
    OBVIOUS
  <2>2. PICK g, w : g = group /\ w = window
    OBVIOUS
  <2>3. DOMAIN g = 1..3 /\ (\A i \in DOMAIN g : IsSchedule(g[i])) /\ w \in [from : Int, to : Int]
    BY <2>1, <2>2 DEF IInv, Asked
  <2>4. IsFiniteSet(1..3) /\ 1..3 \in SUBSET Nat
    <3>1. 1 \in Int /\ 3 \in Int
      OBVIOUS
    <3>2. IsFiniteSet(1..3)
      BY <3>1, FS_Interval
    <3>3. QED
      BY <3>2
  <2>5. FindCollision(g[id], [s \in DOMAIN g \ {id} |-> g[s]], w) =
          RefusalBy(id, {p \in ConflictsInFolder(g, w) : id \in {p.a, p.b}})
    <3>1. id \in DOMAIN g
      BY <2>2
    <3>2. IsFiniteSet(DOMAIN g) /\ DOMAIN g \in SUBSET Nat
      BY <2>3, <2>4
    <3>3. QED
      BY <2>3, <3>1, <3>2, RefusalIsOfThePanel
  <2>6. QED
    BY <2>2, <2>5
<1>2. QED
  BY <1>1, SchedulesInvariant, PTL

\* A summary counts all of the week ahead, both ends of it included, and names the first of all
\* that is still to come.
THEOREM SummariesAreExact == Spec => []SummaryIsExact
<1>1. IInv => SummaryIsExact
  <2> SUFFICES ASSUME IInv, group # <<>>
               PROVE  LET week  == [from |-> window.from, to |-> window.from + WeekLength * DayLength]
                          due   == UNION {{id} \X InWindow(group[id], week) : id \in DOMAIN group}
                          ahead == UNION {{i \in Series(group[id]) : window.from <= i} : id \in DOMAIN group}
                      IN FolderSummary(group, window.from) =
                           [inWeek |-> Cardinality(due), next |-> SoonestOf(ahead)]
    BY DEF SummaryIsExact
  <2>1. PICK g, now : g = group /\ now = window.from
    OBVIOUS
  <2>2. DOMAIN g = 1..3 /\ (\A id \in DOMAIN g : IsSchedule(g[id])) /\ now \in Int
    BY <2>1 DEF IInv, Asked
  <2>3. IsFiniteSet(1..3)
    <3>1. 1 \in Int /\ 3 \in Int
      OBVIOUS
    <3>2. QED
      BY <3>1, FS_Interval
  <2>4. LET week  == [from |-> now, to |-> now + WeekLength * DayLength]
            due   == UNION {{id} \X InWindow(g[id], week) : id \in DOMAIN g}
            ahead == UNION {{i \in Series(g[id]) : now <= i} : id \in DOMAIN g}
        IN FolderSummary(g, now) = [inWeek |-> Cardinality(due), next |-> SoonestOf(ahead)]
    BY <2>2, <2>3, SummaryOfTheWeek
  <2>5. QED
    BY <2>1, <2>4
<1>2. QED
  BY <1>1, SchedulesInvariant, PTL
=============================================================================
