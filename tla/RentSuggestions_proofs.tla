----------------------- MODULE RentSuggestions_proofs -----------------------
(* Months are reckoned monotonically, days can be sorted, and neighbours in a *)
(* sorted list decide what the statutes say of any period: the increase rules *)
(* find what the statutes say. A rent survives its conversions, and an audit *)
(* that reads section by section is an audit at once. The range of a         *)
(* suggestion is never empty, whatever the statistics hold, every suggestion  *)
(* respects it, and one that raises the rent breaks no limit in force.       *)
EXTENDS RentSuggestions, FiniteSetTheorems, WellFoundedInduction, TLAPS

-----------------------------------------------------------------------------
(* Dates.                                                                   *)

\* Every month has 28 to 31 days.
LEMMA MonthLengthRange == ASSUME NEW m \in Nat PROVE MonthLength(m) \in 28..31
BY DEF MonthLength

\* A date moved by months is a date.
LEMMA AddMonthsType ==
  ASSUME NEW d \in Date, NEW n \in Nat
  PROVE  AddMonths(d, n) \in Date
<1>1. d.month + n \in Nat /\ d.day \in 1..31
  BY DEF Date
<1>2. MonthLength(d.month + n) \in 28..31
  BY <1>1, MonthLengthRange
<1> QED
  BY <1>1, <1>2 DEF AddMonths, Date

\* Later dates stay later by the corresponding-date rule, ends of months
\* included (add_months, base.py 58-79).
THEOREM AddMonthsMonotone ==
  ASSUME NEW d \in Date, NEW e \in Date, NEW n \in Nat, NoLater(d, e)
  PROVE  NoLater(AddMonths(d, n), AddMonths(e, n))
<1>1. d.month \in Nat /\ e.month \in Nat /\ d.day \in Nat /\ e.day \in Nat
  BY DEF Date
<1>2. CASE d = e
  BY <1>2 DEF NoLater
<1>3. CASE d.month < e.month
  BY <1>1, <1>3 DEF NoLater, Before, AddMonths
<1>4. CASE d.month = e.month /\ d.day < e.day
  <2>1. MonthLength(d.month + n) \in Nat
    BY <1>1, MonthLengthRange
  <2> QED
    BY <1>1, <1>4, <2>1 DEF NoLater, Before, AddMonths
<1> QED
  BY <1>2, <1>3, <1>4 DEF NoLater, Before

\* Dates are in order.
LEMMA BeforeChain ==
  ASSUME NEW a \in Date, NEW b \in Date, NEW c \in Date, NEW d \in Date,
         NoLater(a, b), Before(b, c), NoLater(c, d)
  PROVE  Before(a, d)
BY DEF NoLater, Before, Date

Sorted(days) == \A i, j \in 1..Len(days) : i < j => NoLater(days[i], days[j])

\* Days i and j are both in the twelve months from p.
Two(days, p, i, j) ==
    /\ i < j
    /\ NoLater(p, days[i]) /\ NoLater(p, days[j])
    /\ Before(days[i], AddMonths(p, 12)) /\ Before(days[j], AddMonths(p, 12))

\* A short gap is two increases in the twelve months from the first of them.
LEMMA ShortGapIsPeriod ==
  ASSUME NEW days \in Seq(Date), Sorted(days), ShortGap(days)
  PROVE  \E i \in 1..Len(days) : \E j \in 1..Len(days) : Two(days, days[i], i, j)
<1>0. Len(days) \in Nat /\ \A i \in 1..Len(days) : days[i] \in Date
  OBVIOUS
<1>1. PICK i \in 1..(Len(days) - 1) : Before(days[i + 1], AddMonths(days[i], 12))
  BY DEF ShortGap
<1>2. i \in 1..Len(days) /\ i + 1 \in 1..Len(days) /\ i < i + 1
  BY <1>0, <1>1
<1>3. days[i] \in Date /\ days[i + 1] \in Date
  BY <1>0, <1>2
<1>4. NoLater(days[i], days[i + 1])
  BY <1>2 DEF Sorted
<1>5. AddMonths(days[i], 12) \in Date
  BY <1>3, AddMonthsType
<1>6. NoLater(AddMonths(days[i], 12), AddMonths(days[i], 12)) /\ NoLater(days[i], days[i])
  BY DEF NoLater
<1>7. Before(days[i], AddMonths(days[i], 12))
  BY <1>1, <1>3, <1>4, <1>5, <1>6, BeforeChain
<1> QED
  BY <1>1, <1>2, <1>3, <1>4, <1>6, <1>7 DEF Two

\* Comparing neighbours in the sorted list finds two increases within twelve
\* months of any day exactly when there are two (nsw.py 101-127, vic.py 108-144).
THEOREM NeighboursDecideAnyPeriod ==
  ASSUME NEW days \in Seq(Date), Sorted(days)
  PROVE  ShortGap(days) <=>
            \E p \in Date : \E i \in 1..Len(days) : \E j \in 1..Len(days) : Two(days, p, i, j)
<1>0. Len(days) \in Nat /\ \A i \in 1..Len(days) : days[i] \in Date
  OBVIOUS
<1>1. ASSUME ShortGap(days)
      PROVE  \E p \in Date : \E i \in 1..Len(days) : \E j \in 1..Len(days) : Two(days, p, i, j)
  BY <1>0, <1>1, ShortGapIsPeriod
<1>2. ASSUME NEW p \in Date, NEW i \in 1..Len(days), NEW j \in 1..Len(days), Two(days, p, i, j)
      PROVE  ShortGap(days)
  <2>1. i \in 1..(Len(days) - 1) /\ i + 1 \in 1..Len(days)
    BY <1>0, <1>2 DEF Two
  <2>2. days[i] \in Date /\ days[j] \in Date /\ days[i + 1] \in Date
    BY <1>0, <2>1
  <2>3. NoLater(days[i + 1], days[j])
    <3>1. CASE i + 1 = j
      BY <3>1 DEF NoLater
    <3>2. CASE i + 1 < j
      BY <2>1, <3>2 DEF Sorted
    <3> QED
      BY <1>0, <1>2, <3>1, <3>2 DEF Two
  <2>4. AddMonths(p, 12) \in Date /\ AddMonths(days[i], 12) \in Date
    BY <2>2, AddMonthsType
  <2>5. NoLater(AddMonths(p, 12), AddMonths(days[i], 12))
    BY <1>2, <2>2, AddMonthsMonotone DEF Two
  <2>6. Before(days[i + 1], AddMonths(days[i], 12))
    BY <1>2, <2>2, <2>3, <2>4, <2>5, BeforeChain DEF Two
  <2> QED
    BY <2>1, <2>6 DEF ShortGap
<1> QED
  BY <1>1, <1>2

-----------------------------------------------------------------------------
(* Sorting.                                                                 *)

\* The order of the natural numbers as a relation.
LEMMA LessIsARelation == OpToRel(<, Nat) = {p \in Nat \X Nat : p[1] < p[2]}
  BY Zenon DEF OpToRel

\* A nonempty set of natural numbers has a least element.
LEMMA LeastElement ==
  ASSUME NEW S \in SUBSET Nat, S # {}
  PROVE  \E n \in S : \A m \in S : n <= m
<1> DEFINE Less == {p \in Nat \X Nat : p[1] < p[2]}
<1>1. PICK n \in S : \A m \in S : <<m, n>> \notin Less
  <2>1. IsWellFoundedOn(Less, Nat)
    BY NatLessThanWellFounded, LessIsARelation, Zenon
  <2> HIDE DEF Less
  <2> QED
    BY <2>1, WFMin
<1>2. ASSUME NEW m \in S PROVE n <= m
  <2>1. <<m, n>> \in Nat \X Nat
    OBVIOUS
  <2>2. <<m, n>> \in Less <=> m < n
    BY <2>1
  <2> QED
    BY <1>1, <2>2
<1> QED
  BY <1>2

\* A set with 0 and the successor of each of its numbers holds every number.
LEMMA InductionOnNat ==
  ASSUME NEW S \in SUBSET Nat, 0 \in S, \A n \in S : n + 1 \in S
  PROVE  Nat \subseteq S
<1> SUFFICES ASSUME Nat \ S # {} PROVE FALSE
  OBVIOUS
<1>1. PICK n \in Nat \ S : \A m \in Nat \ S : n <= m
  BY LeastElement
<1>2. n - 1 \in Nat /\ n - 1 + 1 = n
  BY <1>1
<1>3. n - 1 \in S
  BY <1>1, <1>2
<1> QED
  BY <1>1, <1>2, <1>3

\* f lists the first n of the days in order, each once.
Orders(days, n, f) ==
    /\ f \in [1..n -> 1..n]
    /\ \A i, j \in 1..n : f[i] = f[j] => i = j
    /\ \A k \in 1..n : \E i \in 1..n : f[i] = k
    /\ \A i, j \in 1..n : i < j => NoLater(days[f[i]], days[f[j]])

\* The next day finds its place before the first one that is later.
LEMMA Insertion ==
  ASSUME NEW days, NEW n \in Nat, \A i \in 1..(n + 1) : days[i] \in Date,
         NEW f, Orders(days, n, f)
  PROVE  \E g : Orders(days, n + 1, g)
<1> DEFINE new == days[n + 1]
           P == {k \in 1..(n + 1) : k \in 1..n => Before(new, days[f[k]])}
<1>1. PICK p \in P : \A k \in P : p <= k
  <2>1. P \in SUBSET Nat /\ n + 1 \in P
    OBVIOUS
  <2> HIDE DEF P
  <2> QED
    BY <2>1, LeastElement
<1>2. /\ f \in [1..n -> 1..n]
      /\ \A i, j \in 1..n : f[i] = f[j] => i = j
      /\ \A k \in 1..n : \E i \in 1..n : f[i] = k
      /\ \A i, j \in 1..n : i < j => NoLater(days[f[i]], days[f[j]])
  BY DEF Orders
<1>3. p \in 1..(n + 1)
  OBVIOUS
<1>4. new \in Date /\ \A k \in 1..n : days[f[k]] \in Date
  <2>1. n + 1 \in 1..(n + 1) /\ \A k \in 1..n : f[k] \in 1..(n + 1)
    BY <1>2
  <2> QED
    BY <2>1
<1>5. ASSUME NEW k \in 1..n, k < p
      PROVE  NoLater(days[f[k]], new)
  <2>1. k \notin P
    BY <1>1, <1>3, <1>5
  <2>2. ~Before(new, days[f[k]])
    BY <2>1
  <2>3. days[f[k]] \in Date /\ new \in Date
    BY <1>4
  <2> HIDE DEF new
  <2> QED
    BY <2>2, <2>3 DEF NoLater, Before, Date
<1>6. ASSUME NEW k \in 1..n, p <= k
      PROVE  NoLater(new, days[f[k]])
  <2>1. p \in 1..n /\ Before(new, days[f[p]])
    BY <1>3, <1>6
  <2>2. p = k \/ NoLater(days[f[p]], days[f[k]])
    BY <1>2, <1>6, <2>1
  <2>3. days[f[k]] \in Date /\ new \in Date /\ days[f[p]] \in Date
    BY <1>4, <2>1
  <2> HIDE DEF new
  <2> QED
    BY <2>1, <2>2, <2>3 DEF NoLater, Before, Date
<1> HIDE DEF new, P
<1> DEFINE g == [i \in 1..(n + 1) |-> IF i < p THEN f[i] ELSE IF i = p THEN n + 1 ELSE f[i - 1]]
<1>7. /\ \A i \in 1..(n + 1) : i < p => i \in 1..n /\ g[i] = f[i]
      /\ g[p] = n + 1
      /\ \A i \in 1..(n + 1) : p < i => i - 1 \in 1..n /\ g[i] = f[i - 1]
  BY <1>3
<1>8. g \in [1..(n + 1) -> 1..(n + 1)]
  <2>1. \A k \in 1..n : f[k] \in 1..(n + 1)
    BY <1>2
  <2>2. \A i \in 1..(n + 1) :
            (IF i < p THEN f[i] ELSE IF i = p THEN n + 1 ELSE f[i - 1]) \in 1..(n + 1)
    <3> SUFFICES ASSUME NEW i \in 1..(n + 1)
                 PROVE  (IF i < p THEN f[i] ELSE IF i = p THEN n + 1 ELSE f[i - 1]) \in 1..(n + 1)
      OBVIOUS
    <3>1. CASE i < p
      <4>1. i \in 1..n
        BY <1>3, <3>1
      <4> QED
        BY <2>1, <3>1, <4>1
    <3>2. CASE i = p
      BY <3>2
    <3>3. CASE p < i
      <4>1. i - 1 \in 1..n
        BY <1>3, <3>3
      <4>2. f[i - 1] \in 1..(n + 1)
        BY <2>1, <4>1
      <4> QED
        BY <1>3, <3>3, <4>2
    <3> QED
      BY <1>3, <3>1, <3>2, <3>3
  <2> QED
    BY <2>2
<1> HIDE DEF g
<1>9. \A i, j \in 1..(n + 1) : g[i] = g[j] => i = j
  <2> SUFFICES ASSUME NEW i \in 1..(n + 1), NEW j \in 1..(n + 1), g[i] = g[j]
               PROVE  i = j
    OBVIOUS
  <2>1. \A k \in 1..n : f[k] # n + 1
    BY <1>2
  <2>2. (i < p \/ i = p \/ p < i) /\ (j < p \/ j = p \/ p < j)
    BY <1>3
  <2>3. CASE i = p
    BY <1>7, <2>1, <2>2, <2>3
  <2>4. CASE j = p
    BY <1>7, <2>1, <2>2, <2>4
  <2>5. CASE i < p /\ j < p
    BY <1>2, <1>7, <2>5
  <2>6. CASE p < i /\ p < j
    BY <1>2, <1>7, <2>6
  <2>7. CASE i < p /\ p < j
    BY <1>2, <1>3, <1>7, <2>7
  <2>8. CASE p < i /\ j < p
    BY <1>2, <1>3, <1>7, <2>8
  <2> QED
    BY <2>2, <2>3, <2>4, <2>5, <2>6, <2>7, <2>8
<1>10. \A k \in 1..(n + 1) : \E i \in 1..(n + 1) : g[i] = k
  <2> SUFFICES ASSUME NEW k \in 1..(n + 1)
               PROVE  \E i \in 1..(n + 1) : g[i] = k
    OBVIOUS
  <2>1. CASE k = n + 1
    BY <1>3, <1>7, <2>1
  <2>2. CASE k \in 1..n
    <3>1. PICK i \in 1..n : f[i] = k
      BY <1>2, <2>2
    <3>2. CASE i < p
      BY <1>7, <3>1, <3>2
    <3>3. CASE p <= i
      <4>1. i + 1 \in 1..(n + 1) /\ p < i + 1 /\ (i + 1) - 1 = i
        BY <1>3, <3>3
      <4> QED
        BY <1>7, <3>1, <4>1
    <3> QED
      BY <1>3, <3>2, <3>3
  <2> QED
    BY <2>1, <2>2
<1>11. \A i, j \in 1..(n + 1) : i < j => NoLater(days[g[i]], days[g[j]])
  <2> SUFFICES ASSUME NEW i \in 1..(n + 1), NEW j \in 1..(n + 1), i < j
               PROVE  NoLater(days[g[i]], days[g[j]])
    OBVIOUS
  <2>1. CASE j < p
    <3>1. i \in 1..n /\ j \in 1..n /\ g[i] = f[i] /\ g[j] = f[j]
      BY <1>3, <1>7, <2>1
    <3> QED
      BY <1>2, <3>1
  <2>2. CASE j = p
    BY <1>5, <1>7, <2>2, <1>3 DEF new
  <2>3. CASE i < p /\ p < j
    <3>1. i \in 1..n /\ j - 1 \in 1..n /\ g[i] = f[i] /\ g[j] = f[j - 1] /\ p <= j - 1 /\ i < j - 1
      BY <1>3, <1>7, <2>3
    <3> QED
      BY <1>2, <3>1
  <2>4. CASE i = p
    <3>1. j - 1 \in 1..n /\ g[i] = n + 1 /\ g[j] = f[j - 1] /\ p <= j - 1
      BY <1>3, <1>7, <2>4
    <3> QED
      BY <1>6, <3>1 DEF new
  <2>5. CASE p < i
    <3>1. i - 1 \in 1..n /\ j - 1 \in 1..n /\ g[i] = f[i - 1] /\ g[j] = f[j - 1] /\ i - 1 < j - 1
      BY <1>3, <1>7, <2>5
    <3> QED
      BY <1>2, <3>1
  <2> QED
    BY <1>3, <2>1, <2>2, <2>3, <2>4, <2>5
<1> QED
  BY <1>8, <1>9, <1>10, <1>11 DEF Orders

\* Days can be put in order.
LEMMA OrderExists ==
  ASSUME NEW days, NEW n \in Nat, \A i \in 1..n : days[i] \in Date
  PROVE  \E f : Orders(days, n, f)
<1> DEFINE S == {k \in Nat : k <= n => \E f : Orders(days, k, f)}
<1>1. 0 \in S
  <2>1. Orders(days, 0, [i \in 1..0 |-> i])
    BY DEF Orders
  <2> QED
    BY <2>1
<1>2. \A k \in S : k + 1 \in S
  <2> SUFFICES ASSUME NEW k \in S, k + 1 <= n
               PROVE  \E f : Orders(days, k + 1, f)
    OBVIOUS
  <2>1. PICK f : Orders(days, k, f)
    OBVIOUS
  <2>2. k \in Nat /\ \A i \in 1..(k + 1) : days[i] \in Date
    OBVIOUS
  <2> HIDE DEF S
  <2> QED
    BY <2>1, <2>2, Insertion
<1>3. S \in SUBSET Nat
  OBVIOUS
<1> HIDE DEF S
<1>4. n \in S
  BY <1>1, <1>2, <1>3, InductionOnNat
<1> QED
  BY <1>4 DEF S

-----------------------------------------------------------------------------
(* What the increase rules say of a lease.                                  *)

HasIncreases(l) == l \in LeaseInput /\ l.rent_increases # None

EffectiveDays(l) == [i \in DOMAIN l.rent_increases |-> l.rent_increases[i].effective_on]

\* The increases of a lease are as many dates.
LEMMA EffectiveDates ==
  ASSUME NEW l, HasIncreases(l)
  PROVE  /\ l.rent_increases \in Seq(RentIncrease)
         /\ Len(l.rent_increases) \in Nat
         /\ DOMAIN l.rent_increases = 1..Len(l.rent_increases)
         /\ \A i \in DOMAIN l.rent_increases :
                /\ l.rent_increases[i] \in RentIncrease
                /\ EffectiveDays(l)[i] = l.rent_increases[i].effective_on
                /\ EffectiveDays(l)[i] \in Date
<1>0. l.rent_increases \in Seq(RentIncrease)
  BY DEF HasIncreases, LeaseInput, Optional
<1>1. /\ Len(l.rent_increases) \in Nat
      /\ DOMAIN l.rent_increases = 1..Len(l.rent_increases)
      /\ \A i \in DOMAIN l.rent_increases : l.rent_increases[i] \in RentIncrease
  BY <1>0
<1>2. \A i \in DOMAIN l.rent_increases : l.rent_increases[i].effective_on \in Date
  BY <1>1 DEF RentIncrease
<1> QED
  BY <1>0, <1>1, <1>2 DEF EffectiveDays

\* sorted() lists every increase once, in the order of the days.
LEMMA EarliestSorted ==
  ASSUME NEW l, HasIncreases(l)
  PROVE  /\ Earliest(l) \in Seq(Date) /\ Len(Earliest(l)) = Len(l.rent_increases)
         /\ Sorted(Earliest(l))
         /\ \E f : /\ Orders(EffectiveDays(l), Len(l.rent_increases), f)
                   /\ \A i \in 1..Len(l.rent_increases) :
                        Earliest(l)[i] = EffectiveDays(l)[f[i]]
<1> DEFINE days == EffectiveDays(l)
           n == Len(l.rent_increases)
           listed == DOMAIN l.rent_increases
           InOrder(f) == \A i, j \in listed : i < j =>
                            NoLater(l.rent_increases[f[i]].effective_on,
                                    l.rent_increases[f[j]].effective_on)
           order == CHOOSE f \in Bijection(listed, listed) : InOrder(f)
<1>1. /\ n \in Nat /\ listed = 1..n
      /\ \A i \in 1..n : days[i] = l.rent_increases[i].effective_on /\ days[i] \in Date
  BY EffectiveDates
<1>2. Earliest(l) = [i \in listed |-> l.rent_increases[order[i]].effective_on]
  BY DEF Earliest
<1> HIDE DEF days, n, listed
<1>3. \A f : Orders(days, n, f) <=> f \in Bijection(listed, listed) /\ InOrder(f)
  <2> SUFFICES ASSUME NEW f
               PROVE  Orders(days, n, f) <=> f \in Bijection(listed, listed) /\ InOrder(f)
    OBVIOUS
  <2>1. f \in Bijection(listed, listed)
          <=> /\ f \in [1..n -> 1..n]
              /\ \A i, j \in 1..n : f[i] = f[j] => i = j
              /\ \A k \in 1..n : \E i \in 1..n : f[i] = k
    BY <1>1 DEF Bijection, Injection, Surjection, IsInjective
  <2>2. f \in [1..n -> 1..n] =>
            (InOrder(f) <=> \A i, j \in 1..n : i < j => NoLater(days[f[i]], days[f[j]]))
    BY <1>1
  <2> HIDE DEF InOrder
  <2> QED
    BY <2>1, <2>2 DEF Orders
<1>4. order \in Bijection(listed, listed) /\ InOrder(order)
  <2>1. \E f \in Bijection(listed, listed) : InOrder(f)
    BY <1>1, <1>3, OrderExists
  <2> HIDE DEF InOrder
  <2> QED
    BY <2>1
<1> HIDE DEF order, InOrder
<1>5. Orders(days, n, order)
  BY <1>3, <1>4
<1>6. order \in [1..n -> 1..n] /\ \A i \in 1..n : order[i] \in 1..n
  BY <1>5 DEF Orders
<1>7. Earliest(l) = [i \in 1..n |-> days[order[i]]]
  BY <1>1, <1>2, <1>6
<1>8. \A i \in 1..n : days[order[i]] \in Date
  BY <1>1, <1>6
<1>9. Earliest(l) \in [1..n -> Date]
  BY <1>7, <1>8
<1>10. Earliest(l) \in Seq(Date) /\ Len(Earliest(l)) = n
  BY <1>1, <1>9
<1>11. \A i \in 1..n : Earliest(l)[i] = days[order[i]]
  BY <1>7
<1>12. Sorted(Earliest(l))
  <2>1. \A i, j \in 1..n : i < j => NoLater(days[order[i]], days[order[j]])
    BY <1>5 DEF Orders
  <2> QED
    BY <1>10, <1>11, <2>1 DEF Sorted
<1> QED
  BY <1>5, <1>10, <1>11, <1>12 DEF days, n

\* The days of a year with two increases are a finite set with two of them.
LEMMA TwoInAYear ==
  ASSUME NEW l, HasIncreases(l), NEW p
  PROVE  /\ Cardinality(WithinYear(l, p)) \in Nat
         /\ Cardinality(WithinYear(l, p)) > 1
                <=> \E e, f \in WithinYear(l, p) : e # f
<1> DEFINE W == WithinYear(l, p)
           n == Len(l.rent_increases)
           pair == [i \in 1..n |-> <<i, l.rent_increases[i].effective_on>>]
<1>1. n \in Nat /\ DOMAIN l.rent_increases = 1..n
  BY EffectiveDates
<1>2. IsFiniteSet(W)
  <2>1. IsFiniteSet(1..n)
    BY <1>1, FS_Interval, 1 \in Int, n \in Int
  <2>2. Effective(l) = {<<i, l.rent_increases[i].effective_on>> : i \in 1..n}
    BY <1>1 DEF Effective
  <2>3. pair \in Surjection(1..n, Effective(l))
    BY <2>2 DEF Surjection
  <2> HIDE DEF pair, n
  <2>4. IsFiniteSet(Effective(l))
    BY <2>1, <2>3, FS_Surjection
  <2>5. W \subseteq Effective(l)
    BY DEF WithinYear
  <2> HIDE DEF W
  <2> QED
    BY <2>4, <2>5, FS_Subset
<1> HIDE DEF W
<1>3. /\ Cardinality(W) \in Nat
      /\ Cardinality(W) = 0 <=> W = {}
      /\ Cardinality(W) = 1 <=> \E x : W = {x}
  BY <1>2, FS_CardinalityType, FS_EmptySet, FS_Singleton
<1>4. Cardinality(W) > 1 <=> (W # {} /\ ~\E x : W = {x})
  BY <1>3
<1>5. (W # {} /\ ~\E x : W = {x}) <=> \E e, f \in W : e # f
  OBVIOUS
<1> QED
  BY <1>3, <1>4, <1>5 DEF W

\* "may not be increased more than once in any period of 12 months".
LEMMA FrequencyAsStatute ==
  ASSUME NEW l \in Leases, HasIncreases(l)
  PROVE  ShortGap(Earliest(l)) <=> \E p \in Days : Cardinality(WithinYear(l, p)) > 1
<1> DEFINE days == EffectiveDays(l)
           n == Len(l.rent_increases)
           in(p, i) == NoLater(p, days[i]) /\ Before(days[i], AddMonths(p, 12))
<1>1. /\ n \in Nat /\ DOMAIN l.rent_increases = 1..n
      /\ \A i \in 1..n : days[i] = l.rent_increases[i].effective_on /\ days[i] \in Date
  BY EffectiveDates
<1>2. \A i \in 1..n : days[i] \in Days
  <2>1. l.rent_increases # None
    BY DEF HasIncreases
  <2> QED
    BY <1>1, <2>1, IncreaseDaysAssumption
<1>3. \A p : (\E e, f \in WithinYear(l, p) : e # f)
                <=> \E i, j \in 1..n : i # j /\ in(p, i) /\ in(p, j)
  <2> SUFFICES ASSUME NEW p
               PROVE  (\E e, f \in WithinYear(l, p) : e # f)
                        <=> \E i, j \in 1..n : i # j /\ in(p, i) /\ in(p, j)
    OBVIOUS
  <2>1. Effective(l) = {<<i, days[i]>> : i \in 1..n}
    BY <1>1 DEF Effective
  <2> HIDE DEF days, n
  <2>2. ASSUME NEW e \in WithinYear(l, p), NEW f \in WithinYear(l, p), e # f
        PROVE  \E i, j \in 1..n : i # j /\ in(p, i) /\ in(p, j)
    <3>1. PICK i \in 1..n : e = <<i, days[i]>>
      BY <2>1 DEF WithinYear
    <3>2. PICK j \in 1..n : f = <<j, days[j]>>
      BY <2>1 DEF WithinYear
    <3>3. in(p, i) /\ in(p, j)
      BY <3>1, <3>2 DEF WithinYear
    <3>4. i # j
      BY <2>2, <3>1, <3>2
    <3> QED
      BY <3>3, <3>4
  <2>3. ASSUME NEW i \in 1..n, NEW j \in 1..n, i # j, in(p, i), in(p, j)
        PROVE  \E e, f \in WithinYear(l, p) : e # f
    <3>1. <<i, days[i]>> \in WithinYear(l, p) /\ <<j, days[j]>> \in WithinYear(l, p)
      BY <2>1, <2>3 DEF WithinYear
    <3>2. <<i, days[i]>> # <<j, days[j]>>
      BY <2>3
    <3> QED
      BY <3>1, <3>2
  <2> QED
    BY <2>2, <2>3
<1>4. /\ Earliest(l) \in Seq(Date) /\ Len(Earliest(l)) = n /\ Sorted(Earliest(l))
  BY EarliestSorted
<1>5. PICK f : Orders(days, n, f) /\ \A i \in 1..n : Earliest(l)[i] = days[f[i]]
  BY EarliestSorted
<1> HIDE DEF days, n
<1>6. /\ \A i \in 1..n : f[i] \in 1..n
      /\ \A i, j \in 1..n : f[i] = f[j] => i = j
      /\ \A k \in 1..n : \E i \in 1..n : f[i] = k
  BY <1>5 DEF Orders
<1>7. ASSUME ShortGap(Earliest(l))
      PROVE  \E p \in Days : \E i, j \in 1..n : i # j /\ in(p, i) /\ in(p, j)
  <2>1. \E i \in 1..n : \E j \in 1..n : Two(Earliest(l), Earliest(l)[i], i, j)
    BY <1>4, <1>7, ShortGapIsPeriod
  <2>2. PICK i \in 1..n : \E j \in 1..n : Two(Earliest(l), Earliest(l)[i], i, j)
    BY <2>1
  <2>3. PICK j \in 1..n : Two(Earliest(l), Earliest(l)[i], i, j)
    BY <2>2
  <2>4. Earliest(l)[i] = days[f[i]] /\ Earliest(l)[j] = days[f[j]] /\ days[f[i]] \in Days
    BY <1>2, <1>5, <1>6 DEF days, n
  <2>5. i # j
    BY <1>1, <2>3 DEF Two, n
  <2>6. f[i] \in 1..n /\ f[j] \in 1..n /\ f[i] # f[j]
    BY <1>6, <2>5
  <2>7. in(days[f[i]], f[i]) /\ in(days[f[i]], f[j])
    BY <2>3, <2>4 DEF Two
  <2> QED
    BY <2>4, <2>6, <2>7
<1>8. ASSUME NEW p \in Days, NEW a \in 1..n, NEW b \in 1..n, a # b, in(p, a), in(p, b)
      PROVE  ShortGap(Earliest(l))
  <2>1. PICK i \in 1..n : f[i] = a
    BY <1>6
  <2>2. PICK j \in 1..n : f[j] = b
    BY <1>6
  <2>3. Earliest(l)[i] = days[a] /\ Earliest(l)[j] = days[b] /\ i # j
    BY <1>5, <1>8, <2>1, <2>2
  <2>4. Two(Earliest(l), p, i, j) \/ Two(Earliest(l), p, j, i)
    <3>1. i < j \/ j < i
      BY <1>1, <2>3 DEF n
    <3> QED
      BY <1>8, <2>3, <3>1 DEF Two
  <2>5. p \in Date
    BY DaysAssumption
  <2> QED
    BY <1>4, <2>4, <2>5, NeighboursDecideAnyPeriod
<1> HIDE DEF in
<1>9. \A p : Cardinality(WithinYear(l, p)) > 1
                <=> \E i, j \in 1..n : i # j /\ in(p, i) /\ in(p, j)
  BY <1>3, TwoInAYear
<1> QED
  BY <1>7, <1>8, <1>9

\* Not "within 12 months after the start of the tenancy".
LEMMA FirstYearAsStatute ==
  ASSUME NEW l, HasIncreases(l)
  PROVE  FirstYear(l) = "green"
            <=> \A e \in Effective(l) : NoLater(AddMonths(l.start_date, 12), e[2])
<1> DEFINE days == EffectiveDays(l)
           n == Len(l.rent_increases)
           limit == AddMonths(l.start_date, 12)
<1>1. /\ n \in Nat /\ DOMAIN l.rent_increases = 1..n
      /\ \A i \in 1..n : days[i] = l.rent_increases[i].effective_on /\ days[i] \in Date
  BY EffectiveDates
<1>2. limit \in Date
  <2>1. l.start_date \in Date
    BY DEF HasIncreases, LeaseInput
  <2> QED
    BY <2>1, AddMonthsType
<1>3. (\A e \in Effective(l) : NoLater(limit, e[2])) <=> \A i \in 1..n : NoLater(limit, days[i])
  <2>1. Effective(l) = {<<i, days[i]>> : i \in 1..n}
    BY <1>1 DEF Effective
  <2> HIDE DEF days, n, limit
  <2>2. \A e \in Effective(l) : \E i \in 1..n : e[2] = days[i]
    BY <2>1
  <2>3. \A i \in 1..n : \E e \in Effective(l) : e[2] = days[i]
    <3> SUFFICES ASSUME NEW i \in 1..n
                 PROVE  \E e \in Effective(l) : e[2] = days[i]
      OBVIOUS
    <3>1. <<i, days[i]>> \in Effective(l) /\ <<i, days[i]>>[2] = days[i]
      BY <2>1
    <3> QED
      BY <3>1
  <2> QED
    BY <2>2, <2>3
<1>4. Earliest(l) \in Seq(Date) /\ Len(Earliest(l)) = n /\ Sorted(Earliest(l))
  BY EarliestSorted
<1>5. PICK f : Orders(days, n, f) /\ \A i \in 1..n : Earliest(l)[i] = days[f[i]]
  BY EarliestSorted
<1>6. FirstYear(l) = "green" <=> (l.rent_increases = <<>> \/ ~Before(Earliest(l)[1], limit))
  BY DEF FirstYear, RedIf
<1>7. l.rent_increases = <<>> <=> n = 0
  BY EffectiveDates
<1> HIDE DEF days, n, limit
<1>8. CASE n = 0
  <2>1. 1..n = {}
    BY <1>8
  <2> QED
    BY <1>3, <1>6, <1>7, <1>8, <2>1 DEF limit
<1>9. CASE n # 0
  <2>1. 1 \in 1..n
    BY <1>1, <1>9 DEF n
  <2>2. Earliest(l)[1] \in Date /\ f[1] \in 1..n /\ Earliest(l)[1] = days[f[1]]
    BY <1>4, <1>5, <2>1 DEF Orders
  <2>3. ASSUME ~Before(Earliest(l)[1], limit), NEW k \in 1..n
        PROVE  NoLater(limit, days[k])
    <3>1. PICK i \in 1..n : f[i] = k
      BY <1>5 DEF Orders
    <3>2. Earliest(l)[i] = days[k] /\ days[k] \in Date
      BY <1>1, <1>5, <3>1 DEF days, n
    <3>3. i = 1 \/ NoLater(Earliest(l)[1], Earliest(l)[i])
      BY <1>1, <1>4, <2>1 DEF Sorted, n
    <3> QED
      BY <1>2, <2>2, <2>3, <3>2, <3>3 DEF NoLater, Before, Date
  <2>4. ASSUME \A i \in 1..n : NoLater(limit, days[i])
        PROVE  ~Before(Earliest(l)[1], limit)
    <3>1. NoLater(limit, Earliest(l)[1])
      BY <2>2, <2>4
    <3> QED
      BY <1>2, <2>2, <3>1 DEF NoLater, Before, Date
  <2> QED
    BY <1>3, <1>6, <1>7, <1>9, <2>3, <2>4 DEF limit
<1> QED
  BY <1>8, <1>9

\* Dates are whole days apart.
LEMMA DaysBetweenType ==
  ASSUME NEW d \in Date, NEW e \in Date
  PROVE  DaysBetween(d, e) \in Int
<1>1. ASSUME NEW c \in Date
      PROVE  DayNumber(c) \in Int
  <2>1. c.month \in Nat /\ c.day \in Int
    BY DEF Date
  <2>2. c.month \div 12 \in Int /\ c.month % 12 \in 0..11
    BY <2>1
  <2>3. \A y \in Int : LeapYearsBefore(y) \in Int
    BY DEF LeapYearsBefore
  <2>4. DaysBeforeMonth[(c.month % 12) + 1] \in Int
    <3>1. \A k \in 1..12 : DaysBeforeMonth[k] \in Int
      BY DEF DaysBeforeMonth
    <3>2. (c.month % 12) + 1 \in 1..12
      BY <2>2
    <3> QED
      BY <3>1, <3>2
  <2>5. LeapYearsBefore(c.month \div 12) \in Int
    BY <2>2, <2>3
  <2> DEFINE y == c.month \div 12
             lb == LeapYearsBefore(y)
             db == DaysBeforeMonth[(c.month % 12) + 1]
             leap == IF c.month % 12 > 1 /\ IsLeap(y) THEN 1 ELSE 0
  <2>6. DayNumber(c) = 365 * y + lb + db + c.day + leap
    BY DEF DayNumber
  <2>7. y \in Int /\ lb \in Int /\ db \in Int /\ leap \in Int
    BY <2>2, <2>4, <2>5
  <2> HIDE DEF y, lb, db, leap
  <2> QED
    BY <2>1, <2>6, <2>7
<1> QED
  BY <1>1 DEF DaysBetween

\* At least 60 days notice, where each increase has a day of its own.
LEMMA NoticeAsStatute ==
  ASSUME NEW l, HasIncreases(l), \A e, f \in Effective(l) : e[2] = f[2] => e = f
  PROVE  Notice(l) = "green"
            <=> \A j \in DOMAIN l.rent_increases :
                    LET inc == l.rent_increases[j]
                    IN  inc.notice_given_on # None =>
                            DaysBetween(inc.notice_given_on, inc.effective_on) >= 60
<1> DEFINE incs == l.rent_increases
           Noticed == {i \in DOMAIN incs : incs[i].notice_given_on # None}
           apart(i) == DaysBetween(incs[i].notice_given_on, incs[i].effective_on)
<1>1. \A i \in DOMAIN incs : incs[i] \in RentIncrease
  BY EffectiveDates
<1>2. \A i, j \in DOMAIN incs : incs[i].effective_on = incs[j].effective_on => i = j
  <2> SUFFICES ASSUME NEW i \in DOMAIN incs, NEW j \in DOMAIN incs,
                      incs[i].effective_on = incs[j].effective_on
               PROVE  i = j
    OBVIOUS
  <2> DEFINE e == <<i, incs[i].effective_on>>
             f == <<j, incs[j].effective_on>>
  <2>1. e \in Effective(l) /\ f \in Effective(l) /\ e[2] = f[2]
    BY DEF Effective
  <2>2. e = f
    BY <2>1
  <2> QED
    BY <2>2
<1>3. \A i \in Noticed : apart(i) \in Int
  <2> SUFFICES ASSUME NEW i \in Noticed
               PROVE  apart(i) \in Int
    OBVIOUS
  <2>1. incs[i].notice_given_on \in Date /\ incs[i].effective_on \in Date
    BY <1>1 DEF RentIncrease, Optional
  <2> QED
    BY <2>1, DaysBetweenType
<1>4. DOMAIN incs \subseteq Int
  BY EffectiveDates
<1>5. NoticedOn(l) = {incs[i] : i \in {i \in Noticed :
            \A j \in Noticed : incs[j].effective_on = incs[i].effective_on => j <= i}}
  BY DEF NoticedOn
<1>6. {i \in Noticed : \A j \in Noticed : incs[j].effective_on = incs[i].effective_on => j <= i}
        = Noticed
  BY <1>2, <1>4
<1>7. NoticedOn(l) = {incs[i] : i \in Noticed}
  BY <1>5, <1>6, Zenon
<1>8. Notice(l) = "green" <=> ~\E i \in Noticed : apart(i) < 60
  BY <1>7 DEF Notice, RedIf
<1> HIDE DEF apart
<1>9. (~\E i \in Noticed : apart(i) < 60) <=> \A i \in Noticed : apart(i) >= 60
  BY <1>3
<1>10. Notice(l) = "green" <=> \A i \in DOMAIN incs :
                                 incs[i].notice_given_on # None => apart(i) >= 60
  BY <1>8, <1>9
<1> QED
  BY <1>10 DEF apart

-----------------------------------------------------------------------------
(* Amounts.                                                                 *)

\* A weekly rent stated by the month and read back is the same to the cent: the
\* frequency a caller states the rent in does not move a cap (to_weekly_rent,
\* base.py 47-55; _monthly_rent, vic.py 15-28).
THEOREM WeeklySurvivesMonthly ==
  ASSUME NEW w \in Nat
  PROVE  to_weekly_rent(to_monthly_rent(w, "weekly"), "monthly") = w
<1> DEFINE M == (104 * w + 12) \div 24
<1>1. M \in Nat /\ 24 * M <= 104 * w + 12 /\ 104 * w + 12 < 24 * M + 24
  OBVIOUS
<1>2. to_monthly_rent(w, "weekly") = M
  BY DEF to_monthly_rent, RoundHalfUp
<1> HIDE DEF M
<1>3. (24 * M + 52) \div 104 = w
  BY <1>1
<1>4. to_weekly_rent(M, "monthly") = (24 * M + 52) \div 104
  BY <1>1 DEF to_weekly_rent, RoundHalfUp
<1> QED
  BY <1>2, <1>3, <1>4

-----------------------------------------------------------------------------
(* The registered rules.                                                    *)

RuleIds == {"bond_max_4_weeks", "rent_in_advance_max", "holding_fee_max_1_week",
            "rent_increase_frequency", "rent_increase_first_year", "rent_increase_notice",
            "fixed_term_increase_disclosure", "no_other_security", "break_fee_cap",
            "bond_max_1_month", "advance_max_1_month", "fixed_term_increase_provision"}

\* The rules of a jurisdiction are a list.
LEMMA RulesLen == ASSUME NEW j \in Jurisdictions PROVE Len(RULES(j)) \in Nat
BY DEF RULES, NSW_RULES, VIC_RULES, Rule

\* Every registered rule has a check and cites known sections.
LEMMA RulesKnown ==
  ASSUME NEW j \in Jurisdictions, NEW i \in 1..Len(RULES(j))
  PROVE  RULES(j)[i].id \in RuleIds /\ RULES(j)[i].citations \in Seq(Refs)
<1>1. CASE j = "NSW"
  <2>1. RULES(j) = NSW_RULES /\ i \in 1..9
    BY <1>1 DEF RULES, NSW_RULES
  <2>2. \A k \in 1..9 : RULES(j)[k].id \in RuleIds
    BY <2>1 DEF NSW_RULES, Rule, RuleIds
  <2>3. \A k \in 1..9 : RULES(j)[k].citations \in Seq(Refs)
    <3>1. /\ RULES(j)[1].citations = <<"s159">>
          /\ RULES(j)[2].citations = <<"s33">>
          /\ RULES(j)[3].citations = <<"s24">>
          /\ RULES(j)[4].citations = <<"s41">>
          /\ RULES(j)[5].citations = <<"s41">>
          /\ RULES(j)[6].citations = <<"s41">>
          /\ RULES(j)[7].citations = <<"s42">>
          /\ RULES(j)[8].citations = <<"s160">>
          /\ RULES(j)[9].citations = <<"s107">>
      BY <2>1 DEF NSW_RULES, Rule
    <3>2. /\ <<"s159">> \in Seq(Refs)
          /\ <<"s33">> \in Seq(Refs)
          /\ <<"s24">> \in Seq(Refs)
          /\ <<"s41">> \in Seq(Refs)
          /\ <<"s42">> \in Seq(Refs)
          /\ <<"s160">> \in Seq(Refs)
          /\ <<"s107">> \in Seq(Refs)
      BY DEF Refs
    <3>3. \A k \in 1..9 : k \in {1, 2, 3, 4, 5, 6, 7, 8, 9}
      OBVIOUS
    <3> QED
      BY <3>1, <3>2, <3>3
  <2> QED
    BY <2>1, <2>2, <2>3
<1>2. CASE j # "NSW"
  <2>1. RULES(j) = VIC_RULES /\ i \in 1..4
    BY <1>2 DEF RULES, VIC_RULES
  <2>2. \A k \in 1..4 : RULES(j)[k].id \in RuleIds
    BY <2>1 DEF VIC_RULES, Rule, RuleIds
  <2>3. \A k \in 1..4 : RULES(j)[k].citations \in Seq(Refs)
    <3>1. /\ RULES(j)[1].citations = <<"s31", "reg17">>
          /\ RULES(j)[2].citations = <<"s40", "reg17">>
          /\ RULES(j)[3].citations = <<"s44">>
          /\ RULES(j)[4].citations = <<"s44">>
      BY <2>1 DEF VIC_RULES, Rule
    <3>2. /\ <<"s31", "reg17">> \in Seq(Refs)
          /\ <<"s40", "reg17">> \in Seq(Refs)
          /\ <<"s44">> \in Seq(Refs)
      BY DEF Refs
    <3>3. \A k \in 1..4 : k \in {1, 2, 3, 4}
      OBVIOUS
    <3> QED
      BY <3>1, <3>2, <3>3
  <2> QED
    BY <2>1, <2>2, <2>3
<1> QED
  BY <1>1, <1>2

\* A check ends in one of the verdicts.
LEMMA CheckDecides ==
  ASSUME NEW id \in RuleIds, NEW l
  PROVE  check(id, l) \in Verdicts
<1>1. \A c : RedIf(c) \in Verdicts
  BY DEF RedIf, Verdicts
<1>2. \A amount, weeks : AtMostWeeks(amount, weeks, l) \in Verdicts
  BY <1>1 DEF AtMostWeeks
<1>3. \A amount : AtMostOneMonth(amount, l) \in Verdicts
  BY <1>1 DEF AtMostOneMonth, Verdicts
<1>4. /\ Frequency(l) \in Verdicts /\ FirstYear(l) \in Verdicts /\ Notice(l) \in Verdicts
      /\ Disclosure(l) \in Verdicts /\ FixedTerm(l) \in Verdicts /\ BreakFee(l) \in Verdicts
  BY <1>1 DEF Frequency, FirstYear, Notice, Disclosure, FixedTerm, BreakFee
<1>5. RedIf(l.other_security_amount > 0) \in Verdicts
  BY <1>1
<1> QED
  BY <1>2, <1>3, <1>4, <1>5 DEF check, RuleIds

-----------------------------------------------------------------------------
(* The store and its rows.                                                  *)

LawType == [Refs -> SUBSET Row]

\* At most one row of a section holds a date.
LEMMA OneRow ==
  ASSUME NEW L \in LawType, Disjoint(L), NEW ref \in Refs, NEW d \in Date,
         NEW r \in SectionAt(L, ref, d), NEW q \in SectionAt(L, ref, d)
  PROVE  r = q
<1>1. r \in L[ref] /\ q \in L[ref] /\ r \in Row /\ q \in Row
  BY DEF SectionAt, LawType
<1>2. /\ NoLater(r.from, d) /\ (r.to # None => Before(d, r.to))
      /\ NoLater(q.from, d) /\ (q.to # None => Before(d, q.to))
  BY DEF SectionAt
<1>3. r.from \in Date /\ q.from \in Date /\ r.to \in Optional(Date) /\ q.to \in Optional(Date)
  BY <1>1 DEF Row
<1>4. ~(r.to # None /\ NoLater(r.to, q.from))
  <2> SUFFICES ASSUME r.to # None, NoLater(r.to, q.from) PROVE FALSE
    OBVIOUS
  <2>1. r.to \in Date
    BY <1>3 DEF Optional
  <2> QED
    BY <2>1, <1>2, <1>3 DEF NoLater, Before, Date
<1>5. ~(q.to # None /\ NoLater(q.to, r.from))
  <2> SUFFICES ASSUME q.to # None, NoLater(q.to, r.from) PROVE FALSE
    OBVIOUS
  <2>1. q.to \in Date
    BY <1>3 DEF Optional
  <2> QED
    BY <2>1, <1>2, <1>3 DEF NoLater, Before, Date
<1> QED
  BY <1>1, <1>4, <1>5 DEF Disjoint

\* The days on which the rows that hold d begin: what a citation names.
Ids(L, ref, d) == {r.from : r \in SectionAt(L, ref, d)}

ClosedRow(r, v) == [r EXCEPT !.to = IF r.to = None THEN v ELSE r.to]

\* What a version that takes effect on v does to one section.
LEMMA RefreshedRows ==
  ASSUME NEW ref \in RefreshedRefs, NEW v \in RefreshDays, law \in LawType,
         Refresh(ref, v)
  PROVE  /\ law' \in LawType
         /\ \A o \in Refs : o # ref => law'[o] = law[o]
         /\ \A r \in law[ref] : ClosedRow(r, v) \in law'[ref]
         /\ \A q \in law'[ref] : \/ q = [from |-> v, to |-> None]
                                 \/ \E r \in law[ref] : q = ClosedRow(r, v)
         /\ \A r \in law[ref] : Before(r.from, v) /\ (r.to # None => NoLater(r.to, v))
<1> DEFINE closed == {ClosedRow(r, v) : r \in law[ref]}
<1>1. ref \in Refs /\ v \in Date
  BY LawAssumption, DaysAssumption
<1>2. \/ law' = [law EXCEPT ![ref] = closed \cup {[from |-> v, to |-> None]}]
      \/ law' = [law EXCEPT ![ref] = closed]
  BY DEF Refresh, ClosedRow
<1>3. [from |-> v, to |-> None] \in Row
  BY <1>1 DEF Row, Optional
<1>4. \A r \in law[ref] : ClosedRow(r, v) \in Row
  BY <1>1 DEF ClosedRow, Row, Optional, LawType
<1>5. closed \subseteq Row
  BY <1>4
<1>6. law' \in LawType /\ \A o \in Refs : o # ref => law'[o] = law[o]
  BY <1>1, <1>2, <1>3, <1>5 DEF LawType
<1>7. law'[ref] = closed \cup {[from |-> v, to |-> None]} \/ law'[ref] = closed
  BY <1>1, <1>2 DEF LawType
<1>8. \A r \in law[ref] : Before(r.from, v) /\ (r.to # None => NoLater(r.to, v))
  BY DEF Refresh
<1> QED
  BY <1>6, <1>7, <1>8

\* A version closes the open row on the day its own begins: no overlap.
LEMMA RefreshKeepsDisjoint ==
  ASSUME NEW ref \in RefreshedRefs, NEW v \in RefreshDays, law \in LawType,
         Disjoint(law), Refresh(ref, v)
  PROVE  Disjoint(law)'
<1> DEFINE Apart(r, q) == \/ r.to # None /\ NoLater(r.to, q.from)
                          \/ q.to # None /\ NoLater(q.to, r.from)
<1>0. ref \in Refs /\ v \in Date
  BY LawAssumption, DaysAssumption
<1>v. v # None
  BY <1>0, NoneAssumption
<1> SUFFICES ASSUME NEW o \in Refs, NEW r \in law'[o], NEW q \in law'[o], r # q
             PROVE  Apart(r, q)
  BY DEF Disjoint
<1>1. CASE o # ref
  BY <1>1, RefreshedRows DEF Disjoint
<1>2. CASE o = ref
  <2>1. \A x \in law[ref] : x \in Row
    BY <1>0 DEF LawType
  <2>2. \A x \in law[ref] : /\ ClosedRow(x, v).from = x.from
                            /\ ClosedRow(x, v).to = IF x.to = None THEN v ELSE x.to
                            /\ NoLater(ClosedRow(x, v).to, v)
    BY <2>1, RefreshedRows DEF ClosedRow, Row, NoLater
  <2>3. \A x \in law[ref] : x.to # None => ClosedRow(x, v) = x
    BY <2>1 DEF ClosedRow, Row
  <2>4. \A x \in law[ref] : ClosedRow(x, v).to # None
    BY <1>v, <2>2
  <2>5. ASSUME NEW x \in law[ref], NEW y \in law[ref],
               r = ClosedRow(x, v), q = ClosedRow(y, v)
        PROVE  Apart(r, q)
    <3>1. x # y
      BY <2>5
    <3>2. Apart(x, y)
      BY <1>0, <3>1 DEF Disjoint
    <3>3. CASE x.to # None /\ NoLater(x.to, y.from)
      BY <2>2, <2>3, <2>5, <3>3
    <3>4. CASE y.to # None /\ NoLater(y.to, x.from)
      BY <2>2, <2>3, <2>5, <3>4
    <3> QED
      BY <3>2, <3>3, <3>4
  <2>6. ASSUME NEW x \in law[ref], r = ClosedRow(x, v), q = [from |-> v, to |-> None]
        PROVE  Apart(r, q)
    BY <2>2, <2>4, <2>6
  <2>7. ASSUME NEW y \in law[ref], q = ClosedRow(y, v), r = [from |-> v, to |-> None]
        PROVE  Apart(r, q)
    BY <2>2, <2>4, <2>7
  <2>8. \A z \in law'[ref] : \/ z = [from |-> v, to |-> None]
                               \/ \E x \in law[ref] : z = ClosedRow(x, v)
    BY RefreshedRows
  <2> QED
    BY <1>2, <2>5, <2>6, <2>7, <2>8
<1> QED
  BY <1>1, <1>2

\* A version that takes effect after d leaves the rows that hold d.
LEMMA RefreshKeepsDay ==
  ASSUME NEW ref \in RefreshedRefs, NEW v \in RefreshDays, law \in LawType,
         Refresh(ref, v), NEW d \in Date, Before(d, v), NEW o \in Refs
  PROVE  Ids(law', o, d) = Ids(law, o, d)
<1>0. ref \in Refs /\ v \in Date /\ v # None
  BY LawAssumption, DaysAssumption, NoneAssumption
<1>1. CASE o # ref
  BY <1>1, RefreshedRows DEF Ids, SectionAt
<1>2. CASE o = ref
  <2>1. \A x \in law[ref] : x \in Row
    BY <1>0 DEF LawType
  <2>2. \A x \in law[ref] : /\ ClosedRow(x, v).from = x.from
                            /\ ClosedRow(x, v).to = IF x.to = None THEN v ELSE x.to
    BY <2>1 DEF ClosedRow, Row
  <2>3. ASSUME NEW x \in law[ref]
        PROVE  x \in SectionAt(law, ref, d) <=> ClosedRow(x, v) \in SectionAt(law', ref, d)
    <3>1. ClosedRow(x, v) \in law'[ref]
      BY RefreshedRows
    <3> QED
      BY <1>0, <2>2, <3>1 DEF SectionAt
  <2>4. [from |-> v, to |-> None] \notin SectionAt(law', ref, d)
    BY <1>0 DEF SectionAt, NoLater, Before, Date
  <2>5. \A q \in SectionAt(law', ref, d) :
            \E x \in law[ref] : x \in SectionAt(law, ref, d) /\ q.from = x.from
    <3>1. \A q \in SectionAt(law', ref, d) : q \in law'[ref]
      BY DEF SectionAt
    <3> QED
      BY <3>1, <2>2, <2>3, <2>4, RefreshedRows
  <2>6. \A x \in SectionAt(law, ref, d) : x \in law[ref]
    BY DEF SectionAt
  <2>7. Ids(law', ref, d) \subseteq Ids(law, ref, d)
    BY <2>5 DEF Ids
  <2>8. Ids(law, ref, d) \subseteq Ids(law', ref, d)
    BY <2>2, <2>3, <2>6 DEF Ids
  <2>9. Ids(law', ref, d) = Ids(law, ref, d)
    BY <2>7, <2>8
  <2> QED
    BY <1>2, <2>9
<1> QED
  BY <1>1, <1>2

-----------------------------------------------------------------------------
(* The audit.                                                               *)

CitationType == [section_no : Refs, section : Date]
Whys == {"not active", "not in force", "missing input", "not applicable", "checked"}
FindingType == [rule_id : RuleIds, verdict : Verdicts, why : Whys,
                citations : Seq(CitationType)]

\* The store may change during the audit but not for its day.
Unmoved ==
    running /\ ~touched =>
        \A ref \in Refs : Ids(law, ref, asAt) = Ids(lawAtStart, ref, asAt)

\* What was cited so far is what the store of the start gives.
CitedSoFar ==
    /\ citations \in Seq(CitationType)
    /\ citations # <<>> => Active(rule, asAt)
    /\ ~touched => \A i \in 1..Len(citations) :
            /\ SectionAt(lawAtStart, rule.citations[i], asAt) # {}
            /\ citations[i] = CitationAt(lawAtStart, rule.citations[i], asAt)

IInv ==
    /\ TypeOK
    /\ Disjoint(law) /\ Disjoint(lawAtStart)
    /\ findings \in Seq(FindingType)
    /\ Unmoved
    /\ CitedSoFar
    /\ AuditAsAtOnce

\* The rule in hand is one of the registered rules.
LEMMA RuleInHand ==
  ASSUME IInv, InHand
  PROVE  /\ rule.id \in RuleIds /\ rule.citations \in Seq(Refs)
         /\ Len(Rules) \in Nat /\ Len(findings) + 1 \in 1..Len(Rules)
         /\ rule = Rules[Len(findings) + 1]
<1>1. jurisdiction \in Jurisdictions /\ Len(findings) \in Nat
  BY DEF IInv, TypeOK
<1>2. Len(Rules) \in Nat
  BY <1>1, RulesLen DEF Rules
<1>3. Len(findings) + 1 \in 1..Len(Rules)
  BY <1>1, <1>2 DEF InHand
<1> QED
  BY <1>1, <1>2, <1>3, RulesKnown DEF rule, Rules

\* A finding that is what an audit at once would find keeps the invariant.
LEMMA ReportKeeps ==
  ASSUME IInv, InHand, NEW v \in Verdicts, NEW w \in Whys, NEW c \in Seq(CitationType),
         Len(c) \in {0, Len(rule.citations)}, Report(v, w, c),
         ~touched => Outcome(rule, lease, asAt, lawAtStart) = Finding(rule, v, w, c)
  PROVE  IInv'
<1> DEFINE f == Finding(rule, v, w, c)
<1>0. /\ rule.id \in RuleIds /\ Len(Rules) \in Nat
      /\ Len(findings) + 1 \in 1..Len(Rules) /\ rule = Rules[Len(findings) + 1]
  BY RuleInHand
<1>1. f \in FindingType
  BY <1>0 DEF Finding, FindingType
<1>2. /\ findings' = Append(findings, f) /\ citations' = <<>>
      /\ UNCHANGED <<law, running, jurisdiction, lease, asAt, refreshes, lawAtStart, touched>>
  BY DEF Report, audit
<1>3. /\ findings \in Seq(FindingType) /\ findings' \in Seq(FindingType)
      /\ Len(findings) \in Nat /\ Len(findings') = Len(findings) + 1
      /\ \A i \in 1..Len(findings) : findings'[i] = findings[i]
      /\ findings'[Len(findings) + 1] = f
  BY <1>1, <1>2 DEF IInv
<1>4. Rules' = Rules
  BY <1>2 DEF Rules
<1>5. \A i \in 1..Len(findings') : i \in 1..Len(findings) \/ i = Len(findings) + 1
  BY <1>3
<1>6. TypeOK'
  <2>1. f.rule_id = rule.id /\ f.verdict \in Verdicts
        /\ Len(f.citations) \in {0, Len(rule.citations)}
    BY DEF Finding
  <2>2. \A i \in 1..Len(findings') :
            /\ findings'[i].rule_id = Rules[i].id
            /\ findings'[i].verdict \in Verdicts
            /\ Len(findings'[i].citations) \in {0, Len(Rules[i].citations)}
    BY <1>0, <1>3, <1>5, <2>1 DEF IInv, TypeOK
  <2>3. Len(findings') <= Len(Rules)
    BY <1>0, <1>3
  <2>4. 1..Len(citations') = {}
    BY <1>2
  <2> QED
    BY <1>2, <1>4, <2>2, <2>3, <2>4 DEF IInv, TypeOK
<1>7. CitedSoFar'
  BY <1>2 DEF CitedSoFar
<1>8. AuditAsAtOnce'
  <2>1. ~touched => \A i \in 1..Len(findings) :
                        findings[i] = Outcome(Rules[i], lease, asAt, lawAtStart)
    BY DEF IInv, AuditAsAtOnce
  <2>2. ~touched => \A i \in 1..Len(findings') :
                        findings'[i] = Outcome(Rules[i], lease, asAt, lawAtStart)
    BY <1>0, <1>3, <1>5, <2>1
  <2> QED
    BY <1>2, <1>4, <2>2 DEF AuditAsAtOnce
<1> QED
  BY <1>2, <1>3, <1>6, <1>7, <1>8 DEF IInv, Unmoved, Disjoint, Ids

\* Citing the next section keeps the invariant: the store is as it was for the day.
LEMMA CiteKeeps ==
  ASSUME IInv, Cite
  PROVE  IInv'
<1>0. /\ InHand /\ Active(rule, asAt) /\ Len(citations) < Len(rule.citations)
      /\ UNCHANGED <<law, running, jurisdiction, lease, asAt, findings, refreshes,
                     lawAtStart, touched>>
  BY DEF Cite, Uncited, audit
<1>1. /\ rule.citations \in Seq(Refs) /\ citations \in Seq(CitationType)
      /\ law \in LawType /\ lawAtStart \in LawType /\ asAt \in Date
  BY <1>0, RuleInHand, DaysAssumption DEF IInv, TypeOK, CitedSoFar, LawType
<1>2. /\ Len(citations) \in Nat /\ Len(rule.citations) \in Nat
      /\ Len(citations) + 1 \in 1..Len(rule.citations)
  BY <1>0, <1>1
<1>3. NextRef \in Refs /\ NextRef = rule.citations[Len(citations) + 1]
  BY <1>1, <1>2 DEF NextRef
<1>4. PICK r \in SectionAt(law, NextRef, asAt) :
            citations' = Append(citations, Citation(NextRef, r))
  BY DEF Cite
<1>5. r \in Row /\ Citation(NextRef, r) \in CitationType
  BY <1>1, <1>3 DEF SectionAt, LawType, Row, Citation, CitationType
<1>6. /\ citations' \in Seq(CitationType) /\ Len(citations') = Len(citations) + 1
      /\ \A i \in 1..Len(citations) : citations'[i] = citations[i]
      /\ citations'[Len(citations) + 1] = Citation(NextRef, r)
  BY <1>1, <1>4, <1>5
<1>7. \A i \in 1..Len(citations') : i \in 1..Len(citations) \/ i = Len(citations) + 1
  BY <1>2, <1>6
<1>8. rule' = rule /\ Rules' = Rules /\ InHand' = InHand
  BY <1>0 DEF rule, Rules, InHand
<1>9. TypeOK'
  <2>1. Citation(NextRef, r).section_no = rule.citations[Len(citations) + 1]
        /\ Citation(NextRef, r).section \in Date
    BY <1>3, <1>5 DEF Citation, Row
  <2>2. \A i \in 1..Len(citations') :
            citations'[i].section_no = rule.citations[i] /\ citations'[i].section \in Date
    BY <1>6, <1>7, <2>1 DEF IInv, TypeOK
  <2>3. Len(citations') <= Len(rule.citations)
    BY <1>2, <1>6
  <2> QED
    BY <1>0, <1>8, <2>2, <2>3 DEF IInv, TypeOK
<1>10. ASSUME ~touched
       PROVE  /\ SectionAt(lawAtStart, NextRef, asAt) # {}
              /\ Citation(NextRef, r) = CitationAt(lawAtStart, NextRef, asAt)
  <2>1. running
    BY <1>0 DEF InHand
  <2>2. Ids(law, NextRef, asAt) = Ids(lawAtStart, NextRef, asAt)
    BY <1>3, <1>10, <2>1 DEF IInv, Unmoved
  <2>3. r.from \in Ids(lawAtStart, NextRef, asAt)
    BY <1>4, <2>2 DEF Ids
  <2>4. PICK q \in SectionAt(lawAtStart, NextRef, asAt) : q.from = r.from
    BY <2>3 DEF Ids
  <2>5. \A p \in SectionAt(lawAtStart, NextRef, asAt) : p = q
    BY <1>1, <1>3, <2>4, OneRow DEF IInv
  <2>6. (CHOOSE p \in SectionAt(lawAtStart, NextRef, asAt) : TRUE) = q
    BY <2>4, <2>5
  <2> QED
    BY <2>4, <2>6 DEF Citation, CitationAt
<1>11. CitedSoFar'
  <2>1. ~touched => \A i \in 1..Len(citations') :
            /\ SectionAt(lawAtStart, rule.citations[i], asAt) # {}
            /\ citations'[i] = CitationAt(lawAtStart, rule.citations[i], asAt)
    BY <1>3, <1>6, <1>7, <1>10 DEF IInv, CitedSoFar
  <2> QED
    BY <1>0, <1>6, <1>8, <2>1 DEF CitedSoFar
<1>12. AuditAsAtOnce' /\ Unmoved' /\ Disjoint(law)' /\ Disjoint(lawAtStart)'
  BY <1>0, <1>8 DEF IInv, AuditAsAtOnce, Unmoved, Disjoint, Ids
<1>13. findings' \in Seq(FindingType)
  BY <1>0 DEF IInv
<1> QED
  BY <1>9, <1>11, <1>12, <1>13 DEF IInv

\* A section that is not there now was not there at the start, for the day.
LEMMA SkipNotInForceKeeps ==
  ASSUME IInv, SkipNotInForce
  PROVE  IInv'
<1>1. /\ InHand /\ Active(rule, asAt) /\ Len(citations) < Len(rule.citations)
      /\ SectionAt(law, NextRef, asAt) = {} /\ Report("skipped", "not in force", <<>>)
  BY DEF SkipNotInForce, Uncited
<1>2. rule.citations \in Seq(Refs) /\ citations \in Seq(CitationType)
  BY <1>1, RuleInHand DEF IInv, CitedSoFar
<1>n. Len(citations) \in Nat /\ Len(rule.citations) \in Nat
  BY <1>2
<1>m. Len(citations) < Len(rule.citations)
  BY <1>1
<1>3. Len(citations) + 1 \in 1..Len(rule.citations)
  BY <1>m, <1>n
<1>4. NextRef \in Refs /\ NextRef = rule.citations[Len(citations) + 1]
  BY <1>2, <1>3 DEF NextRef
<1>5. ~touched => SectionAt(lawAtStart, NextRef, asAt) = {}
  <2> SUFFICES ASSUME ~touched PROVE SectionAt(lawAtStart, NextRef, asAt) = {}
    OBVIOUS
  <2>1. Ids(law, NextRef, asAt) = Ids(lawAtStart, NextRef, asAt)
    BY <1>1, <1>4 DEF IInv, Unmoved, InHand
  <2> QED
    BY <1>1, <2>1 DEF Ids
<1>6. ~touched => Outcome(rule, lease, asAt, lawAtStart)
                    = Finding(rule, "skipped", "not in force", <<>>)
  BY <1>1, <1>3, <1>4, <1>5 DEF Outcome
<1>7. "skipped" \in Verdicts /\ "not in force" \in Whys /\ <<>> \in Seq(CitationType)
      /\ Len(<<>>) \in {0, Len(rule.citations)}
  BY DEF Verdicts, Whys
<1> QED
  BY <1>1, <1>6, <1>7, ReportKeeps

\* Once all sections are cited, the citations are those of an audit at once.
LEMMA AllCited ==
  ASSUME IInv, Cited, ~touched
  PROVE  /\ citations = [i \in 1..Len(rule.citations) |->
                            CitationAt(lawAtStart, rule.citations[i], asAt)]
         /\ \A i \in 1..Len(rule.citations) :
                SectionAt(lawAtStart, rule.citations[i], asAt) # {}
<1>1. citations \in Seq(CitationType) /\ Len(citations) = Len(rule.citations)
  BY DEF IInv, CitedSoFar, Cited
<1>2. citations = [i \in 1..Len(citations) |-> citations[i]]
  BY <1>1
<1>3. \A i \in 1..Len(citations) :
            /\ SectionAt(lawAtStart, rule.citations[i], asAt) # {}
            /\ citations[i] = CitationAt(lawAtStart, rule.citations[i], asAt)
  BY DEF IInv, CitedSoFar
<1> QED
  BY <1>1, <1>2, <1>3

\* A rule with all its sections ends as it would in an audit at once.
LEMMA ConcludeKeeps ==
  ASSUME IInv, SkipMissingInput \/ Check
  PROVE  IInv'
<1>1. InHand /\ Cited /\ Active(rule, asAt)
  BY DEF SkipMissingInput, Check, Cited
<1>2. /\ citations \in Seq(CitationType) /\ Len(citations) \in {0, Len(rule.citations)}
      /\ rule.id \in RuleIds
  BY <1>1, RuleInHand DEF IInv, CitedSoFar, Cited
<1>3. ~touched =>
        /\ citations = [i \in 1..Len(rule.citations) |->
                            CitationAt(lawAtStart, rule.citations[i], asAt)]
        /\ \A i \in 1..Len(rule.citations) :
                SectionAt(lawAtStart, rule.citations[i], asAt) # {}
  BY <1>1, AllCited
<1>4. CASE SkipMissingInput
  <2>1. Absent(rule, lease) # {} /\ Report("skipped", "missing input", citations)
    BY <1>4 DEF SkipMissingInput
  <2>2. ~touched => Outcome(rule, lease, asAt, lawAtStart)
                      = Finding(rule, "skipped", "missing input", citations)
    BY <1>1, <1>3, <2>1 DEF Outcome
  <2>3. "skipped" \in Verdicts /\ "missing input" \in Whys
    BY DEF Verdicts, Whys
  <2> QED
    BY <1>1, <1>2, <2>1, <2>2, <2>3, ReportKeeps
<1>5. CASE Check
  <2> DEFINE v == check(rule.id, lease)
  <2>1. Absent(rule, lease) = {} /\ Report(v, Reason(v), citations)
    BY <1>5 DEF Check
  <2>2. ~touched => Outcome(rule, lease, asAt, lawAtStart)
                      = Finding(rule, v, Reason(v), citations)
    BY <1>1, <1>3, <2>1 DEF Outcome
  <2>3. v \in Verdicts /\ Reason(v) \in Whys
    BY <1>2, CheckDecides DEF Reason, Whys
  <2> QED
    BY <1>1, <1>2, <2>1, <2>2, <2>3, ReportKeeps
<1> QED
  BY <1>4, <1>5

\* A version that comes in keeps the invariant, whatever day it takes effect.
LEMMA RefreshKeeps ==
  ASSUME IInv, NEW ref \in RefreshedRefs, NEW v \in RefreshDays, Refresh(ref, v)
  PROVE  IInv'
<1>1. /\ UNCHANGED <<running, jurisdiction, lease, asAt, citations, findings, lawAtStart>>
      /\ refreshes' = refreshes + 1 /\ refreshes < MaxRefreshes
      /\ touched' = (touched \/ (running /\ NoLater(v, asAt)))
  BY DEF Refresh, audit
<1>2. law \in LawType /\ asAt \in Date /\ v \in Date /\ touched \in BOOLEAN /\ running \in BOOLEAN
  BY DaysAssumption DEF IInv, TypeOK, LawType
<1>3. law' \in LawType /\ Disjoint(law)'
  BY <1>2, RefreshedRows, RefreshKeepsDisjoint DEF IInv
<1>4. rule' = rule /\ Rules' = Rules /\ InHand' = InHand
  BY <1>1 DEF rule, Rules, InHand
<1>5. touched' \in BOOLEAN /\ (~touched' => ~touched)
  BY <1>1, <1>2
<1>6. refreshes' \in 0..MaxRefreshes
  BY <1>1, LawAssumption DEF IInv, TypeOK
<1>7. TypeOK'
  BY <1>1, <1>3, <1>4, <1>5, <1>6 DEF IInv, TypeOK, LawType
<1>8. Unmoved'
  <2> SUFFICES ASSUME running', ~touched'
               PROVE  \A o \in Refs : Ids(law', o, asAt) = Ids(lawAtStart, o, asAt)
    BY <1>1 DEF Unmoved
  <2>1. ~NoLater(v, asAt) /\ ~touched /\ running
    BY <1>1, <1>2
  <2>2. Before(asAt, v)
    BY <1>2, <2>1 DEF NoLater, Before, Date
  <2>3. \A o \in Refs : Ids(law, o, asAt) = Ids(lawAtStart, o, asAt)
    BY <2>1 DEF IInv, Unmoved
  <2> QED
    BY <1>2, <2>2, <2>3, RefreshKeepsDay
<1>9. CitedSoFar'
  BY <1>1, <1>4, <1>5 DEF IInv, CitedSoFar
<1>10. AuditAsAtOnce'
  BY <1>1, <1>4, <1>5 DEF IInv, AuditAsAtOnce
<1> QED
  BY <1>1, <1>3, <1>7, <1>8, <1>9, <1>10 DEF IInv, Disjoint

\* The empty list has no positions.
LEMMA EmptyLen == Len(<<>>) = 0 /\ 1..0 = {}
OBVIOUS

\* A run begins with an empty report.
LEMMA AuditInit ==
  ASSUME Init
  PROVE  IInv
<1>1. /\ law = Enacted /\ lawAtStart = Enacted /\ running = FALSE /\ refreshes = 0
      /\ jurisdiction \in Jurisdictions /\ lease \in Leases /\ asAt \in AuditDays
      /\ citations = <<>> /\ findings = <<>> /\ touched = FALSE
  BY DEF Init
<1>2. Len(Rules) \in Nat /\ 0 \in 0..MaxRefreshes
  BY <1>1, RulesLen, LawAssumption DEF Rules
<1>3. TypeOK
  <2>1. law \in [Refs -> SUBSET Row] /\ lawAtStart \in [Refs -> SUBSET Row]
    BY <1>1, LawAssumption
  <2>2. Len(findings) = 0 /\ Len(citations) = 0 /\ 1..0 = {}
    BY <1>1, EmptyLen
  <2>3. Len(findings) <= Len(Rules)
    BY <1>2, <2>2
  <2>4. \A i \in 1..Len(citations) : FALSE
    BY <2>2
  <2>5. \A i \in 1..Len(findings) : FALSE
    BY <2>2
  <2> QED
    BY <1>1, <1>2, <2>1, <2>3, <2>4, <2>5 DEF TypeOK
<1>4. Disjoint(law) /\ Disjoint(lawAtStart) /\ Unmoved
  BY <1>1, LawAssumption DEF Unmoved
<1>5. CitedSoFar /\ AuditAsAtOnce /\ findings \in Seq(FindingType)
  BY <1>1 DEF CitedSoFar, AuditAsAtOnce
<1> QED
  BY <1>3, <1>4, <1>5 DEF IInv

\* Every step of the engine keeps what was found so far.
LEMMA AuditStepKeeps ==
  ASSUME IInv, [Next]_vars
  PROVE  IInv'
<1>1. CASE Begin
  <2>1. /\ running = FALSE /\ findings = <<>> /\ running' = TRUE /\ lawAtStart' = law
        /\ touched' = FALSE
        /\ UNCHANGED <<law, jurisdiction, lease, asAt, citations, findings, refreshes>>
    BY <1>1 DEF Begin, IInv, TypeOK
  <2>2. citations = <<>>
    BY <2>1 DEF IInv, TypeOK, InHand
  <2>3. TypeOK'
    BY <2>1, <2>2, EmptyLen DEF IInv, TypeOK, Rules
  <2>4. CitedSoFar' /\ AuditAsAtOnce' /\ Unmoved'
    BY <2>1, <2>2 DEF CitedSoFar, AuditAsAtOnce, Unmoved
  <2> QED
    BY <2>1, <2>3, <2>4 DEF IInv, Disjoint
<1>2. CASE SkipInactive
  <2>1. InHand /\ ~Active(rule, asAt) /\ Report("skipped", "not active", <<>>)
    BY <1>2 DEF SkipInactive
  <2>2. Outcome(rule, lease, asAt, lawAtStart) = Finding(rule, "skipped", "not active", <<>>)
    BY <2>1 DEF Outcome
  <2>3. "skipped" \in Verdicts /\ "not active" \in Whys /\ <<>> \in Seq(CitationType)
        /\ Len(<<>>) \in {0, Len(rule.citations)}
    BY DEF Verdicts, Whys
  <2> QED
    BY <2>1, <2>2, <2>3, ReportKeeps
<1>3. CASE Cite
  BY <1>3, CiteKeeps
<1>4. CASE SkipNotInForce
  BY <1>4, SkipNotInForceKeeps
<1>5. CASE SkipMissingInput \/ Check
  BY <1>5, ConcludeKeeps
<1>6. CASE Finish
  <2>1. /\ Len(findings) = Len(Rules) /\ running' = FALSE
        /\ UNCHANGED <<law, jurisdiction, lease, asAt, citations, findings, refreshes,
                       lawAtStart, touched>>
    BY <1>6 DEF Finish
  <2>2. citations = <<>>
    BY <2>1 DEF IInv, TypeOK, InHand
  <2>3. TypeOK'
    BY <2>1, <2>2, EmptyLen DEF IInv, TypeOK, Rules
  <2>4. CitedSoFar' /\ AuditAsAtOnce' /\ Unmoved'
    BY <2>1, <2>2 DEF IInv, CitedSoFar, AuditAsAtOnce, Unmoved, Rules
  <2> QED
    BY <2>1, <2>3, <2>4 DEF IInv, Disjoint
<1>7. ASSUME NEW ref \in RefreshedRefs, NEW v \in RefreshDays, Refresh(ref, v)
      PROVE  IInv'
  BY <1>7, RefreshKeeps
<1>8. CASE UNCHANGED vars
  BY <1>8 DEF vars, audit, IInv, TypeOK, CitedSoFar, AuditAsAtOnce, Unmoved, Disjoint,
              InHand, rule, Rules, Ids
<1> QED
  BY <1>1, <1>2, <1>3, <1>4, <1>5, <1>6, <1>7, <1>8 DEF Next

\* The store as at the day, the citations in hand and the findings stay tied to
\* the store of the start (engine.py 14-81).
THEOREM InductiveInvariant == Spec => []IInv
BY AuditInit, AuditStepKeeps, PTL DEF Spec

\* Findings answer the rules in order, with none or all of a rule's sections.
THEOREM TypeCorrect == Spec => []TypeOK
<1>1. IInv => TypeOK
  BY DEF IInv
<1> QED
  BY <1>1, InductiveInvariant, PTL

\* An audit that reads its sections one by one while later versions come in
\* finds what an audit at once would have found (engine.py 34-81).
THEOREM AuditsReproducible == Spec => []AuditAsAtOnce
<1>1. IInv => AuditAsAtOnce
  BY DEF IInv
<1> QED
  BY <1>1, InductiveInvariant, PTL

-----------------------------------------------------------------------------
(* Increases and the statutes.                                              *)

IncreaseRules == {"rent_increase_frequency", "rent_increase_first_year", "rent_increase_notice"}

\* The increase rules ask for the increases.
LEMMA IncreasesRequired ==
  ASSUME NEW j \in Jurisdictions, NEW i \in 1..Len(RULES(j)), RULES(j)[i].id \in IncreaseRules
  PROVE  "rent_increases" \in RULES(j)[i].required_inputs
<1>1. CASE j = "NSW"
  <2>1. RULES(j) = NSW_RULES /\ i \in 1..9
    BY <1>1 DEF RULES, NSW_RULES
  <2>2. \A k \in 1..9 : RULES(j)[k].id \in IncreaseRules
                            => "rent_increases" \in RULES(j)[k].required_inputs
    BY <2>1 DEF NSW_RULES, Rule, IncreaseRules
  <2> QED
    BY <2>1, <2>2
<1>2. CASE j # "NSW"
  <2>1. RULES(j) = VIC_RULES /\ i \in 1..4
    BY <1>2 DEF RULES, VIC_RULES
  <2>2. \A k \in 1..4 : RULES(j)[k].id \in IncreaseRules
                            => "rent_increases" \in RULES(j)[k].required_inputs
    BY <2>1 DEF VIC_RULES, Rule, IncreaseRules
  <2> QED
    BY <2>1, <2>2
<1> QED
  BY <1>1, <1>2

\* A finding that says "checked" has the verdict of the check, and no input of
\* its rule was missing.
CheckedAs(f, ru, l) ==
    f.why = "checked" => /\ Absent(ru, l) = {}
                         /\ f.verdict = check(f.rule_id, l)
                         /\ f.verdict # "skipped"

Checked == \A i \in 1..Len(findings) : CheckedAs(findings[i], Rules[i], lease)

LEMMA CheckedKept ==
  ASSUME IInv, Checked, [Next]_vars
  PROVE  Checked'
<1>1. UNCHANGED <<jurisdiction, lease>> /\ Rules' = Rules
  BY DEF Next, Begin, SkipInactive, Cite, SkipNotInForce, SkipMissingInput, Check, Finish,
         Report, Refresh, Rules, vars, audit
<1>2. ASSUME UNCHANGED findings
      PROVE  Checked'
  BY <1>1, <1>2 DEF Checked
<1>3. ASSUME NEW v, NEW w, NEW c, InHand, Report(v, w, c),
             CheckedAs(Finding(rule, v, w, c), rule, lease)
      PROVE  Checked'
  <2>1. findings' = Append(findings, Finding(rule, v, w, c))
    BY <1>3 DEF Report
  <2>2. findings \in Seq(FindingType) /\ Len(findings) \in Nat
    BY DEF IInv
  <2>3. rule = Rules[Len(findings) + 1]
    BY <1>3, RuleInHand
  <2> DEFINE f == Finding(rule, v, w, c)
  <2>4. /\ Len(findings') = Len(findings) + 1
        /\ \A i \in 1..Len(findings) : findings'[i] = findings[i]
        /\ findings'[Len(findings) + 1] = f
    BY <2>1, <2>2
  <2> HIDE DEF f
  <2>5. \A i \in 1..Len(findings') : i \in 1..Len(findings) \/ i = Len(findings) + 1
    BY <2>2, <2>4
  <2>6. CheckedAs(f, rule, lease)
    BY <1>3 DEF f
  <2>7. \A i \in 1..Len(findings') : CheckedAs(findings'[i], Rules[i], lease)
    BY <2>3, <2>4, <2>5, <2>6 DEF Checked
  <2> QED
    BY <1>1, <2>7 DEF Checked
<1>4. CASE SkipInactive
  BY <1>3, <1>4 DEF SkipInactive, CheckedAs, Finding
<1>5. CASE SkipNotInForce
  BY <1>3, <1>5 DEF SkipNotInForce, Uncited, CheckedAs, Finding
<1>6. CASE SkipMissingInput
  BY <1>3, <1>6 DEF SkipMissingInput, Cited, CheckedAs, Finding
<1>7. CASE Check
  <2> DEFINE verdict == check(rule.id, lease)
  <2>1. /\ Absent(rule, lease) = {} /\ InHand
        /\ Report(verdict, Reason(verdict), citations)
    BY <1>7 DEF Check, Cited
  <2>2. CheckedAs(Finding(rule, verdict, Reason(verdict), citations), rule, lease)
    BY <2>1 DEF CheckedAs, Finding, Reason
  <2> QED
    BY <1>3, <2>1, <2>2
<1>8. CASE Begin \/ Cite \/ Finish \/ UNCHANGED vars
  BY <1>2, <1>8 DEF Begin, Cite, Finish, vars
<1>9. ASSUME NEW ref \in RefreshedRefs, NEW v \in RefreshDays, Refresh(ref, v)
      PROVE  Checked'
  BY <1>2, <1>9 DEF Refresh
<1> QED
  BY <1>4, <1>5, <1>6, <1>7, <1>8, <1>9 DEF Next

\* The increases of the lease were given to every increase rule that was checked.
LEMMA FoundChecked ==
  ASSUME IInv, Checked, NEW id \in IncreaseRules, NEW i \in Found(id)
  PROVE  /\ lease \in Leases /\ HasIncreases(lease)
         /\ findings[i].verdict = check(id, lease)
<1>1. i \in 1..Len(findings) /\ findings[i].rule_id = id /\ findings[i].why = "checked"
  BY DEF Found
<1>2. Absent(Rules[i], lease) = {} /\ findings[i].verdict = check(id, lease)
  BY <1>1 DEF Checked, CheckedAs
<1>3. /\ Rules[i].id = id /\ lease \in Leases /\ jurisdiction \in Jurisdictions
      /\ Len(findings) <= Len(Rules) /\ Len(findings) \in Nat
  BY <1>1 DEF IInv, TypeOK
<1>4. i \in 1..Len(Rules)
  BY <1>1, <1>3, RulesLen DEF Rules
<1>5. "rent_increases" \in Rules[i].required_inputs
  BY <1>3, <1>4, IncreasesRequired DEF Rules
<1>6. lease.rent_increases # None
  BY <1>2, <1>5 DEF Absent
<1> QED
  BY <1>2, <1>3, <1>6, LeasesAssumption DEF HasIncreases

LEMMA StatuteFollows == IInv /\ Checked => IncreasesAsStatute
<1> SUFFICES ASSUME IInv, Checked
             PROVE  IncreasesAsStatute
  OBVIOUS
<1>1. ASSUME NEW i \in Found("rent_increase_frequency")
      PROVE  findings[i].verdict = "red"
                <=> \E p \in Days : Cardinality(WithinYear(lease, p)) > 1
  <2>1. /\ lease \in Leases /\ HasIncreases(lease)
        /\ findings[i].verdict = check("rent_increase_frequency", lease)
    BY <1>1, FoundChecked DEF IncreaseRules
  <2>2. check("rent_increase_frequency", lease) = RedIf(ShortGap(Earliest(lease)))
    BY DEF check, Frequency
  <2>3. findings[i].verdict = "red" <=> ShortGap(Earliest(lease))
    BY <2>1, <2>2 DEF RedIf
  <2> QED
    BY <2>1, <2>3, FrequencyAsStatute
<1>2. ASSUME NEW i \in Found("rent_increase_first_year")
      PROVE  findings[i].verdict = "green"
                <=> \A e \in Effective(lease) : NoLater(AddMonths(lease.start_date, 12), e[2])
  <2>1. /\ HasIncreases(lease)
        /\ findings[i].verdict = check("rent_increase_first_year", lease)
    BY <1>2, FoundChecked DEF IncreaseRules
  <2>2. check("rent_increase_first_year", lease) = FirstYear(lease)
    BY DEF check
  <2> QED
    BY <2>1, <2>2, FirstYearAsStatute
<1>3. ASSUME NEW i \in Found("rent_increase_notice"),
             \A e, f \in Effective(lease) : e[2] = f[2] => e = f
      PROVE  findings[i].verdict = "green"
                <=> \A j \in DOMAIN lease.rent_increases :
                        LET inc == lease.rent_increases[j]
                        IN  inc.notice_given_on # None =>
                                DaysBetween(inc.notice_given_on, inc.effective_on) >= 60
  <2>1. /\ HasIncreases(lease)
        /\ findings[i].verdict = check("rent_increase_notice", lease)
    BY <1>3, FoundChecked DEF IncreaseRules
  <2>2. check("rent_increase_notice", lease) = Notice(lease)
    BY DEF check
  <2>3. Notice(lease) = "green"
          <=> \A j \in DOMAIN lease.rent_increases :
                    LET inc == lease.rent_increases[j]
                    IN  inc.notice_given_on # None =>
                            DaysBetween(inc.notice_given_on, inc.effective_on) >= 60
    BY <1>3, <2>1, NoticeAsStatute
  <2> QED
    BY <2>1, <2>2, <2>3
<1> QED
  BY <1>1, <1>2, <1>3 DEF IncreasesAsStatute

LEMMA InitChecked == Init => Checked
BY EmptyLen DEF Init, Checked

\* The increase rules, which sort the increases and compare neighbours, find what
\* the statutes say of any twelve months, of the first year and of the notices:
\* for every lease, on every day, while the store is refreshed (nsw.py 101-164,
\* vic.py 108-144).
THEOREM RulesSayTheStatute == Spec => []IncreasesAsStatute
BY AuditInit, AuditStepKeeps, InitChecked, CheckedKept, StatuteFollows, PTL DEF Spec

-----------------------------------------------------------------------------
(* The range of a suggestion.                                               *)

Round(d, num, den) == 2 * den * d <= 2 * num + den /\ 2 * num + den < 2 * den * (d + 1)

\* Rounding half up gives the nearest whole number.
LEMMA RoundHalfUpRange ==
  ASSUME NEW num \in Nat, NEW den \in {2, 12, 52, 100, 10000}
  PROVE  RoundHalfUp(num, den) \in Nat /\ Round(RoundHalfUp(num, den), num, den)
<1>1. CASE den = 2
  BY <1>1 DEF RoundHalfUp, Round
<1>2. CASE den = 12
  BY <1>2 DEF RoundHalfUp, Round
<1>3. CASE den = 52
  BY <1>3 DEF RoundHalfUp, Round
<1>4. CASE den = 100
  BY <1>4 DEF RoundHalfUp, Round
<1>5. CASE den = 10000
  BY <1>5 DEF RoundHalfUp, Round
<1> QED
  BY <1>1, <1>2, <1>3, <1>4, <1>5

\* Rounding keeps the order.
LEMMA RoundHalfUpOrder ==
  ASSUME NEW a \in Nat, NEW b \in Nat, a <= b, NEW den \in {100, 10000}
  PROVE  RoundHalfUp(a, den) <= RoundHalfUp(b, den)
<1>1. CASE den = 100
  BY <1>1 DEF RoundHalfUp
<1>2. CASE den = 10000
  BY <1>2 DEF RoundHalfUp
<1> QED
  BY <1>1, <1>2

\* Every lease has a weekly rent.
LEMMA WeeklyRentType ==
  ASSUME NEW l \in LeaseInput
  PROVE  WeeklyRent(l) \in Nat
<1>1. l.rent_amount \in Nat /\ l.rent_frequency \in Frequencies
  BY DEF LeaseInput
<1>2. 12 * l.rent_amount \in Nat
  BY <1>1
<1> QED
  BY <1>1, <1>2, RoundHalfUpRange DEF WeeklyRent, to_weekly_rent, Frequencies

\* The cap lies at or above the rent and within 15 percent and half a dollar.
LEMMA CapRange ==
  ASSUME NEW current \in Nat
  PROVE  /\ Cap(current) \in Nat /\ current <= Cap(current)
         /\ 200 * Cap(current) <= 230 * current + 100
<1>1. 115 * current \in Nat
  OBVIOUS
<1>2. Cap(current) \in Nat /\ Round(Cap(current), 115 * current, 100)
  BY <1>1, RoundHalfUpRange DEF Cap
<1> QED
  BY <1>2 DEF Round

OrderedCell ==
    {c \in Cell : c.p25 # None /\ c.p75 # None => c.p25 <= c.p75}

\* A band is a band.
LEMMA BandRange ==
  ASSUME NEW j, NEW c \in OrderedCell
  PROVE  /\ Band(j, c).low \in Nat /\ Band(j, c).high \in Nat
         /\ Band(j, c).low <= Band(j, c).high
<1>1. CASE j = "NSW" /\ c.p25 # None /\ c.p75 # None
  <2>1. c.p25 \in Nat /\ c.p75 \in Nat /\ c.p25 <= c.p75
    BY <1>1 DEF OrderedCell, Cell, Optional
  <2>2. Band(j, c) = [low |-> dollars(c.p25), high |-> dollars(c.p75)]
    BY <1>1 DEF Band
  <2>3. RoundHalfUp(c.p25, 100) \in Nat /\ RoundHalfUp(c.p75, 100) \in Nat
    BY <2>1, RoundHalfUpRange
  <2>4. RoundHalfUp(c.p25, 100) <= RoundHalfUp(c.p75, 100)
    BY <2>1, RoundHalfUpOrder
  <2> QED
    BY <2>2, <2>3, <2>4 DEF dollars
<1>2. CASE ~(j = "NSW" /\ c.p25 # None /\ c.p75 # None)
  <2>1. c.median \in Nat
    BY DEF OrderedCell, Cell
  <2>2. 92 * c.median \in Nat /\ 108 * c.median \in Nat /\ 92 * c.median <= 108 * c.median
    BY <2>1
  <2>3. Band(j, c) = [low |-> RoundHalfUp(92 * c.median, 10000),
                      high |-> RoundHalfUp(108 * c.median, 10000)]
    BY <1>2 DEF Band
  <2>4. /\ RoundHalfUp(92 * c.median, 10000) \in Nat
        /\ RoundHalfUp(108 * c.median, 10000) \in Nat
    BY <2>2, RoundHalfUpRange
  <2>5. RoundHalfUp(92 * c.median, 10000) <= RoundHalfUp(108 * c.median, 10000)
    BY <2>2, RoundHalfUpOrder
  <2> QED
    BY <2>3, <2>4, <2>5
<1> QED
  BY <1>1, <1>2

RangeOK(a, weekly) ==
    /\ a = AnchorAt(a.current_weekly, a.low, a.high, a.gap)
    /\ a.current_weekly = dollars(weekly)
    /\ a.low \in Nat /\ a.high \in Nat
    /\ a.current_weekly <= a.low /\ a.low <= a.high /\ a.high <= Cap(a.current_weekly)
    /\ a.gap = "below_current" => a.low = a.current_weekly /\ a.high = a.current_weekly

\* The range is never empty and lies between the rent and the cap, for any rent
\* and any cell with its percentiles in order (anchor.py 124-137).
THEOREM RangeNeverEmpty ==
  ASSUME NEW weekly \in Nat, NEW j, NEW c \in OrderedCell \cup {None}
  PROVE  RangeOK(Anchor(weekly, j, c), weekly)
<1> DEFINE current == dollars(weekly)
           cap == Cap(current)
<1>1. current \in Nat /\ cap \in Nat /\ current <= cap
  BY RoundHalfUpRange, CapRange DEF dollars
<1> HIDE DEF current, cap
<1>2. CASE c = None
  <2>1. Anchor(weekly, j, c) = AnchorAt(current, current, cap, "no_data")
    BY <1>2 DEF Anchor, current, cap
  <2> QED
    BY <1>1, <2>1 DEF RangeOK, AnchorAt, current, cap
<1>3. CASE c # None
  <2> DEFINE lo == Band(j, c).low
             hi == Band(j, c).high
  <2>1. lo \in Nat /\ hi \in Nat /\ lo <= hi
    BY <1>3, BandRange
  <2> HIDE DEF lo, hi
  <2>2. CASE lo > cap
    <3>1. Anchor(weekly, j, c) = AnchorAt(current, current, cap, "above_cap")
      BY <1>3, <2>2 DEF Anchor, current, cap, lo
    <3> QED
      BY <1>1, <3>1 DEF RangeOK, AnchorAt, current, cap
  <2>3. CASE ~(lo > cap) /\ hi < current
    <3>1. Anchor(weekly, j, c) = AnchorAt(current, current, current, "below_current")
      BY <1>3, <2>3 DEF Anchor, current, cap, lo, hi
    <3> QED
      BY <1>1, <3>1 DEF RangeOK, AnchorAt, current, cap
  <2>4. CASE ~(lo > cap) /\ ~(hi < current)
    <3>1. Anchor(weekly, j, c)
            = AnchorAt(current, Bigger(current, lo), Smaller(cap, hi), "within")
      BY <1>3, <2>4 DEF Anchor, current, cap, lo, hi
    <3>2. /\ Bigger(current, lo) \in Nat /\ Smaller(cap, hi) \in Nat
          /\ current <= Bigger(current, lo) /\ Bigger(current, lo) <= Smaller(cap, hi)
          /\ Smaller(cap, hi) <= cap
      BY <1>1, <2>1, <2>4 DEF Bigger, Smaller
    <3> QED
      BY <1>1, <3>1, <3>2 DEF RangeOK, AnchorAt, current, cap
  <2> QED
    BY <2>2, <2>3, <2>4
<1> QED
  BY <1>2, <1>3

-----------------------------------------------------------------------------
(* Every suggestion of every run.                                           *)

\* The least of some of three indices is one of them.
LEMMA MinIn ==
  ASSUME NEW S \in SUBSET (1..3), S # {}
  PROVE  Min(S) \in S
<1>1. \E x \in S : \A y \in S : x <= y
  <2>1. CASE 1 \in S
    BY <2>1
  <2>2. CASE 1 \notin S /\ 2 \in S
    BY <2>2
  <2>3. CASE 1 \notin S /\ 2 \notin S
    <3>1. \A y \in S : y = 3
      BY <2>3
    <3>2. 3 \in S
      BY <3>1
    <3>3. \A y \in S : 3 <= y
      BY <3>1
    <3> QED
      BY <3>2, <3>3
  <2> QED
    BY <2>1, <2>2, <2>3
<1> QED
  BY <1>1 DEF Min

\* The cell that is served, if any, is one of the statistics.
LEMMA MarketCellRange ==
  ASSUME NEW j, NEW m \in Markets
  PROVE  MarketCell(j, m) \in OrderedCell \cup {None}
<1> DEFINE c == Candidates(j)
           held == {i \in DOMAIN c : m[c[i]] # None}
           ample == {i \in held : m[c[i]].sample_size >= THIN_SAMPLE}
<1>1. m \in [Labels -> Optional(Cell)]
  BY MarketsAssumption
<1>2. DOMAIN c \subseteq 1..3 /\ \A i \in DOMAIN c : c[i] \in Labels
  BY DEF Candidates, Labels
<1> HIDE DEF c
<1>3. \A i \in held : m[c[i]] \in OrderedCell
  <2> SUFFICES ASSUME NEW i \in held
               PROVE  m[c[i]] \in OrderedCell
    OBVIOUS
  <2>1. c[i] \in Labels /\ m[c[i]] # None
    BY <1>2
  <2>2. m[c[i]] \in Cell
    BY <1>1, <2>1 DEF Optional
  <2> QED
    BY <2>1, <2>2, MarketsAssumption DEF OrderedCell
<1>4. held \in SUBSET (1..3) /\ ample \in SUBSET (1..3) /\ ample \subseteq held
  BY <1>2
<1>5. MarketCell(j, m) = IF ample # {} THEN m[c[Min(ample)]]
                         ELSE IF held # {} THEN m[c[Min(held)]] ELSE None
  BY DEF MarketCell, c
<1> HIDE DEF held, ample
<1> QED
  BY <1>3, <1>4, <1>5, MinIn

SInv ==
    /\ lease \in Leases
    /\ stage = "audit" /\ request # None => RangeOK(anchored, WeeklyRent(lease))
    /\ stage \in {"weighed", "picked", "answered"} =>
            /\ RangeOK(anchored, WeeklyRent(lease))
            /\ Blocked => anchored.low = anchored.current_weekly
                          /\ anchored.high = anchored.current_weekly
    /\ stage \in {"picked", "answered"} =>
            suggested \in Nat /\ anchored.low <= suggested /\ suggested <= anchored.high

\* A figure of the judge, rounded to dollars, stays in the range.
LEMMA FigureInRange ==
  ASSUME NEW low \in Nat, NEW high \in Nat, NEW cents \in Figures(low, high)
  PROVE  dollars(cents) \in Nat /\ low <= dollars(cents) /\ dollars(cents) <= high
<1>1. cents \in Nat /\ 100 * low <= cents /\ cents <= 100 * high
  BY DEF Figures
<1>2. dollars(cents) \in Nat /\ Round(dollars(cents), cents, 100)
  BY <1>1, RoundHalfUpRange DEF dollars
<1> QED
  BY <1>1, <1>2 DEF Round

LEMMA InitHolds == SInit => SInv
BY LeasesAssumption DEF SInit, Init, SInv

LEMMA StepKeeps ==
  ASSUME SInv, [SNext]_<<vars, svars>>
  PROVE  SInv'
<1>1. lease' = lease
  BY DEF SNext, FindAnchor, AuditStep, WeighLaw, SingleFigure, JudgePicks, JudgeFails, Respond,
         Begin, SkipInactive, Cite, SkipNotInForce, SkipMissingInput, Check, Finish, Report,
         Refresh, vars, svars, audit
<1>2. lease \in LeaseInput /\ WeeklyRent(lease) \in Nat /\ WeeklyRent(lease)' = WeeklyRent(lease)
  BY <1>1, LeasesAssumption, WeeklyRentType DEF SInv, WeeklyRent
<1>3. CASE FindAnchor
  <2>1. PICK m \in Markets :
            anchored' = Anchor(WeeklyRent(lease), jurisdiction, MarketCell(jurisdiction, m))
    BY <1>3 DEF FindAnchor
  <2>2. RangeOK(anchored, WeeklyRent(lease))'
    BY <1>2, <2>1, MarketCellRange, RangeNeverEmpty DEF RangeOK
  <2> QED
    BY <1>1, <1>3, <2>2 DEF SInv, FindAnchor
<1>4. CASE AuditStep
  <2>1. stage = "audit" /\ UNCHANGED svars
    BY <1>4 DEF AuditStep
  <2> QED
    BY <1>1, <1>2, <2>1 DEF SInv, svars, RangeOK
<1>5. CASE WeighLaw
  <2>1. RangeOK(anchored, WeeklyRent(lease)) /\ UNCHANGED findings /\ stage' = "weighed"
    BY <1>5 DEF SInv, WeighLaw, vars
  <2>2. Blocked' = Blocked
    BY <2>1 DEF Blocked
  <2>3. CASE Blocked
    <3> DEFINE w == anchored.current_weekly
    <3>1. anchored' = AnchorAt(w, w, w, anchored.gap)
      BY <1>5, <2>1, <2>3 DEF WeighLaw, RangeOK, AnchorAt
    <3>2. RangeOK(AnchorAt(w, w, w, anchored.gap), WeeklyRent(lease))
      <4>1. w = dollars(WeeklyRent(lease)) /\ w \in Nat
        BY <1>2, <2>1, RoundHalfUpRange DEF RangeOK, dollars
      <4>2. w <= Cap(w)
        BY <4>1, CapRange
      <4> HIDE DEF w
      <4> QED
        BY <4>1, <4>2 DEF RangeOK, AnchorAt
    <3>3. anchored'.low = anchored'.current_weekly /\ anchored'.high = anchored'.current_weekly
      BY <3>1 DEF AnchorAt
    <3>4. RangeOK(anchored, WeeklyRent(lease))'
      BY <1>2, <3>1, <3>2 DEF RangeOK
    <3> QED
      BY <1>1, <2>1, <3>3, <3>4 DEF SInv
  <2>4. CASE ~Blocked
    <3>1. anchored' = anchored
      BY <1>5, <2>4 DEF WeighLaw
    <3> QED
      BY <1>1, <1>2, <2>1, <2>2, <2>4, <3>1 DEF SInv, RangeOK
  <2> QED
    BY <2>3, <2>4
<1>6. CASE SingleFigure
  <2>1. RangeOK(anchored, WeeklyRent(lease)) /\ UNCHANGED <<findings, anchored>>
    BY <1>6 DEF SInv, SingleFigure, vars
  <2> QED
    BY <1>1, <1>2, <1>6, <2>1 DEF SInv, SingleFigure, RangeOK, Blocked
<1>7. CASE JudgePicks
  <2>1. RangeOK(anchored, WeeklyRent(lease)) /\ UNCHANGED <<findings, anchored>>
    BY <1>7 DEF SInv, JudgePicks, vars
  <2>2. suggested' \in Nat /\ anchored.low <= suggested' /\ suggested' <= anchored.high
    BY <1>7, <2>1, FigureInRange DEF JudgePicks, RangeOK
  <2> QED
    BY <1>1, <1>2, <1>7, <2>1, <2>2 DEF SInv, JudgePicks, RangeOK, Blocked
<1>8. CASE JudgeFails
  BY <1>1, <1>8 DEF SInv, JudgeFails
<1>9. CASE Respond
  <2>1. UNCHANGED <<findings, anchored, suggested>>
    BY <1>9 DEF Respond, vars
  <2> QED
    BY <1>1, <1>2, <1>9, <2>1 DEF SInv, Respond, RangeOK, Blocked
<1>10. CASE UNCHANGED svars /\ stage = "audit"
  BY <1>1, <1>2, <1>10 DEF SInv, svars, RangeOK
<1>11. CASE UNCHANGED <<vars, svars>>
  BY <1>1, <1>2, <1>11 DEF SInv, vars, svars, RangeOK, Blocked
<1> QED
  BY <1>3, <1>4, <1>5, <1>6, <1>7, <1>8, <1>9, <1>10, <1>11 DEF SNext

\* A suggestion is never below the rent nor, but for the rounding, more than 15
\* percent above it, and it is the rent where an increase is held back
\* (anchor.py 124-137, service.py 92-105).
THEOREM SuggestionsBounded == SSpec => []SuggestionBounded
<1>1. SInv => SuggestionBounded
  <2> SUFFICES ASSUME SInv, stage = "answered"
               PROVE  LET weekly == WeeklyRent(lease)
                      IN  /\ 100 * suggested >= weekly - 50
                          /\ 10000 * suggested <= 115 * (weekly + 50) + 5000
                          /\ Hold => 100 * suggested <= weekly + 50
    BY DEF SuggestionBounded
  <2> DEFINE weekly == WeeklyRent(lease)
             current == anchored.current_weekly
  <2>1. weekly \in Nat
    BY LeasesAssumption, WeeklyRentType DEF SInv
  <2>2. RangeOK(anchored, weekly)
    BY DEF SInv
  <2>3. current = dollars(weekly) /\ current \in Nat /\ Round(current, weekly, 100)
    BY <2>1, <2>2, RoundHalfUpRange DEF RangeOK, dollars
  <2>4. Cap(current) \in Nat /\ 200 * Cap(current) <= 230 * current + 100
    BY <2>3, CapRange
  <2>5. /\ suggested \in Nat /\ current <= suggested /\ suggested <= Cap(current)
        /\ Hold => suggested = current
    <3>1. /\ anchored.low \in Nat /\ anchored.high \in Nat /\ current <= anchored.low
          /\ anchored.high <= Cap(current)
          /\ anchored.gap = "below_current" => anchored.low = current /\ anchored.high = current
      BY <2>2 DEF RangeOK
    <3>2. suggested \in Nat /\ anchored.low <= suggested /\ suggested <= anchored.high
      BY DEF SInv
    <3>3. Hold => anchored.low = current /\ anchored.high = current
      BY <3>1 DEF SInv, Hold
    <3>4. suggested \in Nat /\ current <= suggested /\ suggested <= Cap(current)
      BY <2>3, <2>4, <3>1, <3>2
    <3>5. CASE Hold
      BY <2>3, <3>2, <3>3, <3>4, <3>5
    <3> QED
      BY <3>4, <3>5
  <2> HIDE DEF weekly, current
  <2>6. 100 * suggested >= weekly - 50
    BY <2>1, <2>3, <2>5 DEF Round
  <2>7. 10000 * suggested <= 115 * (weekly + 50) + 5000
    BY <2>1, <2>3, <2>4, <2>5 DEF Round
  <2>8. Hold => 100 * suggested <= weekly + 50
    <3>1. 100 * current <= weekly + 50
      BY <2>1, <2>3 DEF Round
    <3> QED
      BY <2>5, <3>1
  <2> QED
    BY <2>6, <2>7, <2>8 DEF weekly
<1> QED
  BY InitHolds, StepKeeps, <1>1, PTL DEF SSpec

\* Every step of the service is a step of the engine, or none.
LEMMA ServiceRunsEngine ==
  ASSUME [SNext]_<<vars, svars>>
  PROVE  [Next]_vars
BY DEF SNext, FindAnchor, AuditStep, WeighLaw, SingleFigure, JudgePicks, JudgeFails, Respond,
       Next, svars

\* A raise means that no rule of the law card was found red.
LEMMA RaiseNotBlocked ==
  ASSUME SInv, stage = "answered", suggested > anchored.current_weekly
  PROVE  ~Blocked
<1>1. RangeOK(anchored, WeeklyRent(lease)) /\ suggested \in Nat /\ suggested <= anchored.high
  BY DEF SInv
<1>2. Blocked => anchored.high = anchored.current_weekly
  BY DEF SInv
<1>3. WeeklyRent(lease) \in Nat
  BY LeasesAssumption, WeeklyRentType DEF SInv
<1>4. anchored.current_weekly \in Nat
  BY <1>1, <1>3, RoundHalfUpRange DEF RangeOK, dollars
<1> QED
  BY <1>1, <1>2, <1>4

LEMMA RaiseIsLawful == SInv /\ IInv /\ Checked => NoUnlawfulIncrease
<1> SUFFICES ASSUME SInv, IInv, Checked, stage = "answered",
                    suggested > anchored.current_weekly
             PROVE  /\ Found("rent_increase_frequency") # {} =>
                            \A p \in Days : Cardinality(WithinYear(lease, p)) <= 1
                    /\ Found("rent_increase_first_year") # {} =>
                            \A e \in Effective(lease) :
                                NoLater(AddMonths(lease.start_date, 12), e[2])
  BY DEF NoUnlawfulIncrease
<1>1. ASSUME NEW id \in IncreaseRules \cap RentRules, NEW i \in Found(id)
      PROVE  findings[i].verdict # "red"
  <2>1. i \in 1..Len(findings) /\ findings[i].rule_id \in RentRules
    BY <1>1 DEF Found
  <2> QED
    BY <2>1, RaiseNotBlocked DEF Blocked
<1>2. ASSUME NEW i \in Found("rent_increase_frequency"), NEW p \in Days
      PROVE  Cardinality(WithinYear(lease, p)) <= 1
  <2>1. HasIncreases(lease)
    BY <1>2, FoundChecked DEF IncreaseRules
  <2>2. findings[i].verdict # "red"
    BY <1>1, <1>2 DEF IncreaseRules, RentRules
  <2>3. ~(Cardinality(WithinYear(lease, p)) > 1)
    BY <1>2, <2>2, StatuteFollows DEF IncreasesAsStatute
  <2>4. Cardinality(WithinYear(lease, p)) \in Nat
    BY <2>1, TwoInAYear
  <2> QED
    BY <2>3, <2>4
<1>3. ASSUME NEW i \in Found("rent_increase_first_year")
      PROVE  \A e \in Effective(lease) : NoLater(AddMonths(lease.start_date, 12), e[2])
  <2>1. findings[i].verdict = check("rent_increase_first_year", lease)
    BY <1>3, FoundChecked DEF IncreaseRules
  <2>2. check("rent_increase_first_year", lease) = FirstYear(lease)
    BY DEF check
  <2>3. findings[i].verdict \in {"red", "green"}
    BY <2>1, <2>2 DEF FirstYear, RedIf
  <2>4. findings[i].verdict # "red"
    BY <1>1, <1>3 DEF IncreaseRules, RentRules
  <2> QED
    BY <1>3, <2>3, <2>4, StatuteFollows DEF IncreasesAsStatute
<1> QED
  BY <1>2, <1>3

\* With the proposed increase among the increases of the lease, a suggestion that
\* raises the rent breaks none of the limits that were in force on the day asked
\* about (law.py 26-57, service.py 92-105).
THEOREM RaisesAreLawful == SSpec => []NoUnlawfulIncrease
<1>1. SInit => SInv /\ IInv /\ Checked
  BY InitHolds, AuditInit, InitChecked DEF SInit
<1>2. (SInv /\ IInv /\ Checked) /\ [SNext]_<<vars, svars>> => (SInv /\ IInv /\ Checked)'
  BY StepKeeps, ServiceRunsEngine, AuditStepKeeps, CheckedKept
<1> QED
  BY <1>1, <1>2, RaiseIsLawful, PTL DEF SSpec

\* The engine behind the service is the engine: cells, ranges and judges do not
\* disturb it, and audits and law cards alike are reproducible and say what the
\* statutes say (law.py 26-57, engine.py 14-81).
THEOREM ServiceImplementsEngine == SSpec => Spec /\ []AuditAsAtOnce /\ []IncreasesAsStatute
<1>1. SInit => Init
  BY DEF SInit
<1>2. [SNext]_<<vars, svars>> => [Next]_vars
  BY ServiceRunsEngine
<1> QED
  BY <1>1, <1>2, AuditsReproducible, RulesSayTheStatute, PTL DEF SSpec, Spec
=============================================================================
