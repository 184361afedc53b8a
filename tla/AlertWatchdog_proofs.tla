------------------------- MODULE AlertWatchdog_proofs -------------------------
(***************************************************************************)
(* Proofs about AlertWatchdog: runs that do not overlap print no alert     *)
(* twice, and what the state file remembers was dealt with, for any limit  *)
(* on what is served and remembered and any number of runs and faults.     *)
(***************************************************************************)
EXTENDS AlertWatchdog, SequenceTheorems, FiniteSetTheorems, WellFoundedInduction, TLAPS

-----------------------------------------------------------------------------
(* Induction over Nat in terms of sets, as in LocalOrderBook_proofs.       *)

LEMMA LeastNat ==
    ASSUME NEW T \in SUBSET Nat, T # {}
    PROVE  \E m \in T : \A k \in T : m <= k
<1> DEFINE I == {0..n : n \in T}
<1>1. I \subseteq FiniteSubsetsOf(Nat)
  <2>1. ASSUME NEW n \in T PROVE 0..n \in SUBSET Nat /\ IsFiniteSet(0..n)
    BY FS_Interval
  <2> QED
    BY <2>1 DEF FiniteSubsetsOf
<1>2. I # {}
  OBVIOUS
<1>3. PICK x \in I : \A y \in I : ~(<<y, x>> \in StrictSubsetOrdering(Nat))
  <2> HIDE DEF I
  <2> QED
    BY <1>1, <1>2, FS_StrictSubsetOrderingWellFounded, WFMin
<1>4. PICK m \in T : x = 0..m
  OBVIOUS
<1>5. ASSUME NEW k \in T, k < m PROVE FALSE
  <2>1. 0..k \in I
    OBVIOUS
  <2>2. 0..k \subseteq 0..m /\ 0..k # 0..m /\ 0..k \in SUBSET Nat /\ 0..m \in SUBSET Nat
    <3>1. m \in 0..m /\ m \notin 0..k
      BY <1>5
    <3> QED
      BY <3>1, <1>5
  <2> QED
    BY <2>1, <2>2, <1>3, <1>4 DEF StrictSubsetOrdering
<1> QED
  BY <1>5

\* A set that holds 0 and the successor of each natural in it holds them all.
LEMMA NatSetInduction ==
    ASSUME NEW T, 0 \in T, \A n \in Nat : n \in T => n + 1 \in T
    PROVE  \A n \in Nat : n \in T
<1> SUFFICES ASSUME NEW b \in Nat, b \notin T PROVE FALSE
  OBVIOUS
<1> DEFINE B == {n \in Nat : n \notin T}
<1>1. PICK m \in B : \A k \in B : m <= k
  <2>1. b \in B /\ B \in SUBSET Nat
    OBVIOUS
  <2> HIDE DEF B
  <2> QED
    BY <2>1, LeastNat
<1>2. m # 0 /\ m - 1 \in Nat /\ m - 1 \notin B
  BY <1>1
<1> QED
  BY <1>1, <1>2

-----------------------------------------------------------------------------
(* _bounded_seen                                                           *)

\* The list `unique' after each turn of the loop.
Turns(values, n, unique) ==
    unique = [i \in 0..n |-> IF i = 0 THEN <<>>
                             ELSE IF \E j \in 1..(i - 1) : values[j] = values[i]
                             THEN unique[i - 1]
                             ELSE Append(unique[i - 1], values[i])]

LEMMA TurnsExist ==
    ASSUME NEW values
    PROVE  \A n \in Nat : \E unique : Turns(values, n, unique)
<1> DEFINE T == {n \in Nat : \E unique : Turns(values, n, unique)}
           Next1(u, i) == IF \E j \in 1..(i - 1) : values[j] = values[i] THEN u
                          ELSE Append(u, values[i])
<1>1. 0 \in T
  <2> DEFINE g == [i \in 0..0 |-> <<>>]
  <2>1. Turns(values, 0, g)
    BY DEF Turns
  <2> QED
    BY <2>1
<1>2. ASSUME NEW n \in Nat, n \in T PROVE n + 1 \in T
  <2>1. PICK f : Turns(values, n, f)
    BY <1>2
  <2> DEFINE g == [i \in 0..(n + 1) |-> IF i = n + 1 THEN Next1(f[n], n + 1) ELSE f[i]]
  <2>2. ASSUME NEW i \in 0..(n + 1)
        PROVE  g[i] = IF i = 0 THEN <<>> ELSE Next1(g[i - 1], i)
    <3>1. CASE i = n + 1
      BY <3>1
    <3>2. CASE i \in 0..n
      <4>1. f[i] = IF i = 0 THEN <<>> ELSE Next1(f[i - 1], i)
        BY <2>1, <3>2 DEF Turns
      <4>2. g[i] = f[i] /\ (i # 0 => g[i - 1] = f[i - 1])
        BY <3>2
      <4> QED
        BY <4>1, <4>2
    <3> QED
      BY <3>1, <3>2
  <2>3. Turns(values, n + 1, g)
    <3> HIDE DEF g
    <3>1. g = [i \in 0..(n + 1) |-> g[i]]
      BY DEF g
    <3> QED
      BY <3>1, <2>2 DEF Turns
  <2> QED
    BY <2>3
<1> HIDE DEF T
<1>3. \A n \in Nat : n \in T
  BY <1>1, <1>2, NatSetInduction
<1> QED
  BY <1>3 DEF T

LEMMA UniqueSteps ==
    ASSUME NEW values \in Seq(Alert)
    PROVE  \E unique :
              /\ unique[0] = <<>> /\ Unique[values] = unique[Len(values)]
              /\ \A n \in 1..Len(values) :
                    unique[n] = IF \E j \in 1..(n - 1) : values[j] = values[n]
                                THEN unique[n - 1] ELSE Append(unique[n - 1], values[n])
<1> DEFINE f == CHOOSE unique : Turns(values, Len(values), unique)
<1>1. Turns(values, Len(values), f)
  BY TurnsExist
<1>2. Unique[values] = f[Len(values)]
  BY DEF Unique, Turns
<1> HIDE DEF f
<1>3. f[0] = <<>>
  BY <1>1 DEF Turns
<1>4. ASSUME NEW n \in 1..Len(values)
      PROVE  f[n] = IF \E j \in 1..(n - 1) : values[j] = values[n] THEN f[n - 1]
                    ELSE Append(f[n - 1], values[n])
  <2>1. n \in 0..Len(values) /\ n # 0
    OBVIOUS
  <2>2. f[n] = IF n = 0 THEN <<>>
               ELSE IF \E j \in 1..(n - 1) : values[j] = values[n] THEN f[n - 1]
               ELSE Append(f[n - 1], values[n])
    BY <1>1, <2>1 DEF Turns
  <2> QED
    BY <2>1, <2>2
<1> QED
  BY <1>2, <1>3, <1>4

\* Each value is the repetition of an earlier one or above all of them.
Rising(values) ==
    \A i \in 1..Len(values) :
        \/ \E j \in 1..(i - 1) : values[j] = values[i]
        \/ \A j \in 1..(i - 1) : values[j] < values[i]

LEMMA AppendElements ==
    ASSUME NEW s \in Seq(Alert), NEW x \in Alert
    PROVE  /\ Append(s, x) \in Seq(Alert)
           /\ Elements(Append(s, x)) = Elements(s) \cup {x}
           /\ Increasing(s) /\ (\A a \in Elements(s) : a < x) => Increasing(Append(s, x))
<1>1. /\ Append(s, x) \in Seq(Alert) /\ Len(Append(s, x)) = Len(s) + 1 /\ Len(s) \in Nat
      /\ \A i \in 1..Len(s) : Append(s, x)[i] = s[i]
      /\ Append(s, x)[Len(s) + 1] = x
  BY AppendProperties
<1>2. DOMAIN s = 1..Len(s) /\ DOMAIN Append(s, x) = 1..(Len(s) + 1)
  BY <1>1
<1>3. Elements(Append(s, x)) = Elements(s) \cup {x}
  BY <1>1, <1>2 DEF Elements
<1>4. ASSUME Increasing(s), \A a \in Elements(s) : a < x,
             NEW i \in 1..(Len(s) + 1), NEW j \in 1..(Len(s) + 1), i < j
      PROVE  Append(s, x)[i] < Append(s, x)[j]
  <2>1. i \in 1..Len(s) /\ s[i] < x
    BY <1>1, <1>2, <1>4 DEF Elements
  <2> QED
    BY <1>1, <1>4, <2>1 DEF Increasing
<1> QED
  BY <1>1, <1>3, <1>4 DEF Increasing

\* What the loop keeps of the first n values.
Keeps(values, n, s) ==
    /\ s \in Seq(Alert)
    /\ Elements(s) = {values[j] : j \in 1..n}
    /\ Rising(values) => Increasing(s)

LEMMA KeepsTurn ==
    ASSUME NEW values \in Seq(Alert), NEW n \in Nat, n + 1 <= Len(values),
           NEW s, Keeps(values, n, s)
    PROVE  Keeps(values, n + 1, IF \E j \in 1..n : values[j] = values[n + 1] THEN s
                                ELSE Append(s, values[n + 1]))
<1> DEFINE x == values[n + 1]
           Before == {values[j] : j \in 1..n}
<1>1. n + 1 \in 1..Len(values) /\ (n + 1) - 1 = n /\ x \in Alert
  OBVIOUS
<1>2. {values[j] : j \in 1..(n + 1)} = Before \cup {x}
  <2>1. 1..(n + 1) = (1..n) \cup {n + 1}
    OBVIOUS
  <2> QED
    BY <2>1
<1>3. Rising(values) => x \in Before \/ \A a \in Before : a < x
  BY <1>1 DEF Rising
<1>4. s \in Seq(Alert) /\ Elements(s) = Before /\ (Rising(values) => Increasing(s))
  BY DEF Keeps
<1>0. (\E j \in 1..n : values[j] = values[n + 1]) <=> x \in Elements(s)
  BY <1>4
<1> HIDE DEF x, Before
<1>5. CASE x \in Elements(s)
  BY <1>0, <1>2, <1>4, <1>5 DEF Keeps, x
<1>6. CASE x \notin Elements(s)
  <2>1. /\ Append(s, x) \in Seq(Alert)
        /\ Elements(Append(s, x)) = Before \cup {x}
        /\ Rising(values) => Increasing(Append(s, x))
    BY <1>1, <1>3, <1>4, <1>6, AppendElements
  <2> QED
    BY <1>0, <1>2, <1>6, <2>1 DEF Keeps, x
<1> QED
  BY <1>5, <1>6

\* _bounded_seen's loop keeps every value, and keeps rising values in order.
LEMMA UniqueIs ==
    ASSUME NEW values \in Seq(Alert)
    PROVE  /\ Unique[values] \in Seq(Alert)
           /\ Elements(Unique[values]) = Elements(values)
           /\ Rising(values) => Increasing(Unique[values])
<1>0. Len(values) \in Nat
  OBVIOUS
<1>1. PICK unique :
          /\ unique[0] = <<>> /\ Unique[values] = unique[Len(values)]
          /\ \A n \in 1..Len(values) :
                unique[n] = IF \E j \in 1..(n - 1) : values[j] = values[n]
                            THEN unique[n - 1] ELSE Append(unique[n - 1], values[n])
  BY UniqueSteps
<1> DEFINE T == {n \in Nat : n <= Len(values) => Keeps(values, n, unique[n])}
<1>2. 0 \in T
  <2>1. <<>> \in Seq(Alert) /\ Elements(<<>>) = {} /\ Increasing(<<>>)
    BY DEF Elements, Increasing
  <2>2. {values[j] : j \in 1..0} = {}
    OBVIOUS
  <2> QED
    BY <1>1, <2>1, <2>2 DEF Keeps
<1>3. ASSUME NEW n \in Nat, n \in T, n + 1 <= Len(values)
      PROVE  Keeps(values, n + 1, unique[n + 1])
  <2>1. n + 1 \in 1..Len(values) /\ (n + 1) - 1 = n /\ n <= Len(values)
    BY <1>0, <1>3
  <2>2. unique[n + 1] = IF \E j \in 1..n : values[j] = values[n + 1] THEN unique[n]
                        ELSE Append(unique[n], values[n + 1])
    BY <1>1, <2>1
  <2> QED
    BY <1>3, <2>1, <2>2, KeepsTurn
<1>4. \A n \in Nat : n \in T => n + 1 \in T
  BY <1>3
<1> HIDE DEF T
<1>5. \A n \in Nat : n \in T
  BY <1>2, <1>4, NatSetInduction
<1>6. Keeps(values, Len(values), unique[Len(values)])
  BY <1>0, <1>5 DEF T
<1>7. Elements(values) = {values[j] : j \in 1..Len(values)}
  BY <1>0 DEF Elements
<1> QED
  BY <1>1, <1>6, <1>7 DEF Keeps

LEMMA LastIs ==
    ASSUME NEW S, NEW s \in Seq(S), NEW n \in Nat
    PROVE  LET cut == IF Len(s) > n THEN Len(s) - n ELSE 0
           IN  /\ Last(s, n) \in Seq(S) /\ Len(Last(s, n)) = Len(s) - cut
               /\ cut \in 0..Len(s) /\ Len(Last(s, n)) <= n
               /\ \A i \in 1..Len(Last(s, n)) : Last(s, n)[i] = s[i + cut]
<1> DEFINE cut == IF Len(s) > n THEN Len(s) - n ELSE 0
<1>1. Len(s) \in Nat /\ cut \in 0..Len(s) /\ Len(s) - cut <= n
  OBVIOUS
<1>2. Last(s, n) = SubSeq(s, cut + 1, Len(s))
  BY DEF Last
<1> HIDE DEF cut
<1>3. /\ SubSeq(s, cut + 1, Len(s)) \in Seq(S)
      /\ Len(SubSeq(s, cut + 1, Len(s))) = Len(s) - cut
      /\ \A i \in 1..(Len(s) - cut) : SubSeq(s, cut + 1, Len(s))[i] = s[i + cut]
  <2>1. \A i \in 1..Len(s) : s[i] \in S
    OBVIOUS
  <2> QED
    BY <1>1, <2>1
<1> QED
  BY <1>1, <1>2, <1>3 DEF cut

LEMMA LimitsAreNat ==
    /\ {ServeLimit, SeenLimit, NoticeInterval, MaxAlerts, MaxTime, MaxFaults} \subseteq Nat
    /\ 1 <= ServeLimit /\ ServeLimit <= SeenLimit /\ Alert \subseteq Nat
BY WatchdogAssumption DEF Alert

LEMMA PlacesOfAlerts ==
    ASSUME NEW s \in Seq(Alert)
    PROVE  /\ Len(s) \in Nat /\ DOMAIN s = 1..Len(s)
           /\ \A i \in 1..Len(s) : s[i] \in Alert /\ s[i] \in Elements(s)
                                   /\ s[i] \in Nat /\ s[i] \in Int
<1>1. Len(s) \in Nat /\ DOMAIN s = 1..Len(s) /\ \A i \in 1..Len(s) : s[i] \in Alert
  OBVIOUS
<1>2. \A i \in 1..Len(s) : s[i] \in Elements(s)
  BY <1>1 DEF Elements
<1>3. \A a \in Alert : a \in Nat /\ a \in Int
  <2>1. Alert \subseteq Nat
    BY LimitsAreNat
  <2> QED
    BY <2>1
<1> QED
  BY <1>1, <1>2, <1>3

\* Between two places of an increasing list the values grow at least as much.
LEMMA IncreasingGap ==
    ASSUME NEW s \in Seq(Alert), Increasing(s)
    PROVE  \A i, j \in 1..Len(s) : i <= j => s[j] - s[i] >= j - i
<1>1. Len(s) \in Nat
  OBVIOUS
<1>2. \A i \in 1..Len(s) : s[i] \in Int
  BY PlacesOfAlerts
<1> DEFINE T == {d \in Nat : \A i \in 1..Len(s) : i + d <= Len(s) => s[i + d] - s[i] >= d}
<1>3. 0 \in T
  BY <1>2
<1>4. ASSUME NEW d \in Nat, d \in T, NEW i \in 1..Len(s), i + (d + 1) <= Len(s)
      PROVE  s[i + (d + 1)] - s[i] >= d + 1
  <2>1. i + d \in 1..Len(s) /\ i + (d + 1) \in 1..Len(s) /\ i + d < i + (d + 1)
    BY <1>1, <1>4
  <2>2. s[i + d] - s[i] >= d
    BY <1>1, <1>4, <2>1
  <2>3. s[i + d] < s[i + (d + 1)]
    BY <2>1 DEF Increasing
  <2> QED
    BY <1>2, <2>1, <2>2, <2>3
<1>5. \A d \in Nat : d \in T => d + 1 \in T
  BY <1>4
<1> HIDE DEF T
<1>6. \A d \in Nat : d \in T
  BY <1>3, <1>5, NatSetInduction
<1> SUFFICES ASSUME NEW i \in 1..Len(s), NEW j \in 1..Len(s), i <= j
             PROVE  s[j] - s[i] >= j - i
  OBVIOUS
<1>7. j - i \in T /\ i + (j - i) = j
  BY <1>1, <1>6
<1> QED
  BY <1>7 DEF T

\* The end of an increasing list is increasing, and holds what is near the top.
LEMMA LastOfIncreasing ==
    ASSUME NEW s \in Seq(Alert), NEW n \in Nat, NEW top \in Int,
           Increasing(s), \A a \in Elements(s) : a <= top
    PROVE  /\ Increasing(Last(s, n))
           /\ \A a \in Elements(s) : a > top - n => a \in Elements(Last(s, n))
<1> DEFINE cut == IF Len(s) > n THEN Len(s) - n ELSE 0
           l   == Last(s, n)
<1>0. Len(s) \in Nat /\ \A i \in 1..Len(s) : s[i] \in Int
  BY PlacesOfAlerts
<1>1. /\ l \in Seq(Alert) /\ Len(l) = Len(s) - cut /\ cut \in 0..Len(s)
      /\ \A i \in 1..Len(l) : l[i] = s[i + cut]
  BY LastIs
<1>2. Len(l) \in Nat /\ DOMAIN l = 1..Len(l) /\ DOMAIN s = 1..Len(s)
  BY <1>1
<1>3. cut = 0 \/ cut = Len(s) - n
  OBVIOUS
<1> HIDE DEF l, cut
<1>4. ASSUME NEW i \in 1..Len(l), NEW j \in 1..Len(l), i < j PROVE l[i] < l[j]
  <2>1. i + cut \in 1..Len(s) /\ j + cut \in 1..Len(s) /\ i + cut < j + cut
    BY <1>0, <1>1, <1>4
  <2> QED
    BY <1>1, <2>1 DEF Increasing
<1>5. ASSUME NEW a \in Elements(s), a > top - n PROVE a \in Elements(l)
  <2>1. PICK i \in 1..Len(s) : a = s[i]
    BY <1>2 DEF Elements
  <2>2. Len(s) \in 1..Len(s) /\ i <= Len(s)
    BY <1>0
  <2>3. s[Len(s)] - s[i] >= Len(s) - i
    BY <2>2, IncreasingGap
  <2>4. s[Len(s)] <= top
    BY <1>2, <2>2 DEF Elements
  <2>5. i > cut
    BY <1>0, <1>3, <1>5, <2>1, <2>2, <2>3, <2>4
  <2>6. i - cut \in 1..Len(l) /\ (i - cut) + cut = i
    BY <1>0, <1>1, <2>5
  <2>7. l[i - cut] = a
    BY <1>1, <2>1, <2>6
  <2> QED
    BY <1>2, <2>6, <2>7 DEF Elements
<1> QED
  BY <1>4, <1>5 DEF Increasing, l

\* The API serves the alerts from Floor on, in their order.
LEMMA ServedIs ==
    ASSUME TypeOK
    PROVE  /\ Served \in Seq(Alert) /\ Floor \in 1..(emitted + 1) /\ emitted \in Nat
           /\ Elements(Served) = Floor..emitted
           /\ \A i, j \in 1..Len(Served) : i < j => Served[i] < Served[j]
           /\ emitted - Floor < ServeLimit
<1>1. emitted \in Nat /\ emitted <= MaxAlerts /\ since \in Nat /\ since <= emitted
      /\ ServeLimit \in Nat /\ 1 <= ServeLimit /\ MaxAlerts \in Nat
  BY LimitsAreNat DEF TypeOK
<1> DEFINE n   == emitted - since
           all == [i \in 1..n |-> since + i]
           cut == IF n > ServeLimit THEN n - ServeLimit ELSE 0
<1>2. n \in Nat /\ Floor = since + cut + 1 /\ cut \in 0..n /\ n - cut <= ServeLimit
  BY <1>1 DEF Floor
<1>3. all \in Seq(Alert) /\ Len(all) = n
  <2>1. \A i \in 1..n : since + i \in Alert
    BY <1>1 DEF Alert
  <2> QED
    BY <1>2, <2>1
<1>4. Served = Last(all, ServeLimit)
  BY DEF Served
<1> HIDE DEF all
<1>5. /\ Served \in Seq(Alert) /\ Len(Served) = n - cut
      /\ \A i \in 1..Len(Served) : Served[i] = all[i + cut]
  <2> HIDE DEF n
  <2>1. ServeLimit \in Nat
    BY <1>1
  <2> QED
    BY <1>3, <1>4, <2>1, LastIs
<1>6. \A i \in 1..(n - cut) : Served[i] = since + cut + i
  <2> SUFFICES ASSUME NEW i \in 1..(n - cut) PROVE Served[i] = since + cut + i
    OBVIOUS
  <2>1. i + cut \in 1..n
    BY <1>1, <1>2
  <2>2. Served[i] = since + (i + cut)
    BY <1>5, <2>1 DEF all
  <2> QED
    BY <1>1, <1>2, <2>2
<1>7. Floor \in 1..(emitted + 1) /\ emitted - Floor < ServeLimit /\ emitted = since + n
  BY <1>1, <1>2
<1>8. Elements(Served) = {since + cut + i : i \in 1..(n - cut)}
  <2>1. DOMAIN Served = 1..(n - cut)
    BY <1>2, <1>5
  <2> QED
    BY <1>6, <2>1 DEF Elements
<1>9. {since + cut + i : i \in 1..(n - cut)} = Floor..emitted
  <2> SUFFICES ASSUME NEW a
               PROVE  a \in {since + cut + i : i \in 1..(n - cut)} <=> a \in Floor..emitted
    OBVIOUS
  <2>1. ASSUME NEW i \in 1..(n - cut), a = since + cut + i PROVE a \in Floor..emitted
    BY <1>1, <1>2, <1>7, <2>1
  <2>2. ASSUME a \in Floor..emitted PROVE \E i \in 1..(n - cut) : a = since + cut + i
    <3>1. a - (since + cut) \in 1..(n - cut) /\ a = since + cut + (a - (since + cut))
      BY <1>1, <1>2, <1>7, <2>2
    <3> QED
      BY <3>1
  <2> QED
    BY <2>1, <2>2
<1>10. \A i, j \in 1..Len(Served) : i < j => Served[i] < Served[j]
  BY <1>1, <1>2, <1>5, <1>6
<1> QED
  BY <1>1, <1>5, <1>7, <1>8, <1>9, <1>10

LEMMA ConcatElements ==
    ASSUME NEW s \in Seq(Alert), NEW t \in Seq(Alert)
    PROVE  s \o t \in Seq(Alert) /\ Elements(s \o t) = Elements(s) \cup Elements(t)
<1>1. s \o t \in Seq(Alert) /\ Range(s \o t) = Range(s) \cup Range(t)
  BY ConcatProperties, RangeConcatenation
<1> QED
  BY <1>1 DEF Range, Elements

\* What a state may remember after a fetch.
LEMMA BoundedSeenIs ==
    ASSUME TypeOK, NEW seen \in Seq(Alert)
    PROVE  LET after == BoundedSeen(seen \o Served)
           IN  /\ after \in Seq(Alert) /\ Len(after) <= SeenLimit
               /\ Elements(after) \subseteq Elements(seen) \cup Floor..emitted
<1> DEFINE values == seen \o Served
           u      == Unique[values]
<1>1. values \in Seq(Alert) /\ Elements(values) = Elements(seen) \cup Floor..emitted
  BY ServedIs, ConcatElements
<1> HIDE DEF values
<1>2. u \in Seq(Alert) /\ Elements(u) = Elements(values)
  BY <1>1, UniqueIs
<1>3. SeenLimit \in Nat
  BY LimitsAreNat
<1> HIDE DEF u
<1> DEFINE cut == IF Len(u) > SeenLimit THEN Len(u) - SeenLimit ELSE 0
           l   == Last(u, SeenLimit)
<1>4. /\ l \in Seq(Alert) /\ Len(l) = Len(u) - cut /\ cut \in 0..Len(u) /\ Len(l) <= SeenLimit
      /\ \A i \in 1..Len(l) : l[i] = u[i + cut]
  BY <1>2, <1>3, LastIs
<1> HIDE DEF cut, l
<1>5. \A i \in 1..Len(l) : i + cut \in 1..Len(u)
  BY <1>2, <1>4
<1>6. Elements(l) \subseteq Elements(u)
  <2> SUFFICES ASSUME NEW a \in Elements(l) PROVE a \in Elements(u)
    OBVIOUS
  <2>1. PICK i \in 1..Len(l) : a = l[i]
    BY <1>4, PlacesOfAlerts DEF Elements
  <2> QED
    BY <1>2, <1>4, <1>5, <2>1, PlacesOfAlerts
<1> QED
  BY <1>1, <1>2, <1>4, <1>6 DEF BoundedSeen, l, u, values

\* An orderly list is one after a fetch, too, and holds all that was served.
LEMMA BoundedSeenOrderly ==
    ASSUME TypeOK, NEW seen \in Seq(Alert), Increasing(seen),
           \A b \in Elements(seen) : b <= emitted /\ \A a \in Floor..b : a \in Elements(seen)
    PROVE  /\ Increasing(BoundedSeen(seen \o Served))
           /\ Floor..emitted \subseteq Elements(BoundedSeen(seen \o Served))
<1> DEFINE values == seen \o Served
           u      == Unique[values]
<1>1. /\ Served \in Seq(Alert) /\ Floor \in 1..(emitted + 1) /\ emitted \in Nat
      /\ Elements(Served) = Floor..emitted /\ emitted - Floor < ServeLimit
      /\ \A i, j \in 1..Len(Served) : i < j => Served[i] < Served[j]
  BY ServedIs
<1>2. values \in Seq(Alert) /\ Elements(values) = Elements(seen) \cup Floor..emitted
  BY <1>1, ConcatElements
<1>3. /\ Len(values) = Len(seen) + Len(Served)
      /\ \A i \in 1..(Len(seen) + Len(Served)) :
            values[i] = IF i <= Len(seen) THEN seen[i] ELSE Served[i - Len(seen)]
  BY <1>1, ConcatProperties
<1>4. /\ Len(seen) \in Nat /\ Len(Served) \in Nat
      /\ DOMAIN seen = 1..Len(seen) /\ DOMAIN Served = 1..Len(Served)
      /\ \A i \in 1..Len(seen) : seen[i] \in Elements(seen) /\ seen[i] \in Nat
      /\ \A i \in 1..Len(Served) : Served[i] \in Floor..emitted
  <2>1. Len(seen) \in Nat /\ Len(Served) \in Nat
        /\ DOMAIN seen = 1..Len(seen) /\ DOMAIN Served = 1..Len(Served)
    BY <1>1
  <2>2. \A i \in 1..Len(seen) : seen[i] \in Elements(seen) /\ seen[i] \in Nat
    BY PlacesOfAlerts
  <2>3. \A i \in 1..Len(Served) : Served[i] \in Elements(Served)
    BY <2>1 DEF Elements
  <2> QED
    BY <1>1, <2>1, <2>2, <2>3
<1> HIDE DEF values
<1>5. Rising(values)
  <2> SUFFICES ASSUME NEW i \in 1..Len(values)
               PROVE  \/ \E j \in 1..(i - 1) : values[j] = values[i]
                      \/ \A j \in 1..(i - 1) : values[j] < values[i]
    BY DEF Rising
  <2>1. CASE i <= Len(seen)
    <3>1. i \in 1..Len(seen) /\ values[i] = seen[i]
      BY <1>3, <1>4, <2>1
    <3>2. \A j \in 1..(i - 1) : j \in 1..Len(seen) /\ j < i /\ values[j] = seen[j]
      BY <1>3, <1>4, <2>1
    <3> QED
      BY <3>1, <3>2 DEF Increasing
  <2>2. CASE i > Len(seen)
    <3> DEFINE k == i - Len(seen)
    <3>1. k \in 1..Len(Served) /\ values[i] = Served[k]
      BY <1>3, <1>4, <2>2
    <3>2. CASE Served[k] \in Elements(seen)
      <4>1. PICK j \in 1..Len(seen) : seen[j] = Served[k]
        BY <1>4, <3>2 DEF Elements
      <4>2. j \in 1..(i - 1) /\ values[j] = seen[j]
        BY <1>3, <1>4, <2>2
      <4> QED
        BY <3>1, <4>1, <4>2
    <3>3. CASE Served[k] \notin Elements(seen)
      <4> SUFFICES ASSUME NEW j \in 1..(i - 1) PROVE values[j] < values[i]
        OBVIOUS
      <4>1. CASE j <= Len(seen)
        <5>1. j \in 1..Len(seen) /\ values[j] = seen[j]
          BY <1>3, <1>4, <4>1
        <5>2. \A a \in Floor..seen[j] : a \in Elements(seen)
          BY <1>4, <5>1
        <5>3. Served[k] \in Floor..emitted /\ seen[j] \in Nat
          BY <1>4, <3>1, <5>1
        <5> QED
          BY <1>1, <3>1, <3>3, <5>1, <5>2, <5>3
      <4>2. CASE j > Len(seen)
        <5>1. j - Len(seen) \in 1..Len(Served) /\ j - Len(seen) < k
              /\ values[j] = Served[j - Len(seen)]
          BY <1>3, <1>4, <4>2
        <5> QED
          BY <1>1, <3>1, <5>1
      <4> QED
        BY <1>4, <4>1, <4>2
    <3> QED
      BY <3>2, <3>3
  <2> QED
    BY <1>4, <2>1, <2>2
<1>6. u \in Seq(Alert) /\ Elements(u) = Elements(values) /\ Increasing(u)
  BY <1>2, <1>5, UniqueIs
<1>7. SeenLimit \in Nat /\ ServeLimit \in Nat /\ ServeLimit <= SeenLimit
  BY LimitsAreNat
<1> HIDE DEF u
<1>8. \A a \in Elements(u) : a <= emitted
  BY <1>1, <1>2, <1>6
<1>9. /\ Increasing(Last(u, SeenLimit))
      /\ \A a \in Elements(u) : a > emitted - SeenLimit => a \in Elements(Last(u, SeenLimit))
  BY <1>1, <1>6, <1>7, <1>8, LastOfIncreasing
<1>10. \A a \in Floor..emitted : a \in Elements(u) /\ a > emitted - SeenLimit
  BY <1>1, <1>2, <1>6, <1>7
<1> QED
  BY <1>9, <1>10 DEF BoundedSeen, u, values

-----------------------------------------------------------------------------
(* The invariant                                                           *)

\* What is in the variables of a run.
LEMMA RunForms ==
    ASSUME TypeOK, NEW r \in Runs
    PROVE  /\ run[r].pc \in {"idle", "fetching", "saving", "printing"}
           /\ run[r] = Idle <=> run[r].pc = "idle"
           /\ run[r].pc = "fetching" => /\ run[r].at \in 1..MaxTime /\ run[r].state \in State
           /\ run[r].pc \in {"saving", "printing"} =>
                  /\ run[r] \in [pc : {"saving", "printing"}, state : State,
                                 new : SUBSET Alert, known : SUBSET Alert, error : 0..MaxTime]
                  /\ run[r].state \in State /\ run[r].new \subseteq Alert
                  /\ run[r].known \subseteq Alert /\ run[r].error \in 0..MaxTime
<1>1. run[r] \in RunState
  BY DEF TypeOK
<1>2. CASE run[r] = Idle
  BY <1>2 DEF Idle
<1>3. CASE run[r] \in [pc : {"fetching"}, at : 1..MaxTime, state : State]
  BY <1>3 DEF Idle
<1>4. CASE run[r] \in [pc : {"saving", "printing"}, state : State,
                       new : SUBSET Alert, known : SUBSET Alert, error : 0..MaxTime]
  BY <1>4 DEF Idle
<1> QED
  BY <1>1, <1>2, <1>3, <1>4 DEF RunState

\* What is in a state.
LEMMA StateForms ==
    ASSUME NEW st \in State
    PROVE  /\ st.initialized \in BOOLEAN /\ st.seen \in Seq(Alert) /\ st.notice \in 0..MaxTime
           /\ Elements(st.seen) \subseteq Alert
<1>1. st.initialized \in BOOLEAN /\ st.seen \in Seq(Alert) /\ st.notice \in 0..MaxTime
  BY DEF State
<1> QED
  BY <1>1, PlacesOfAlerts DEF Elements

LEMMA FreshState ==
    /\ Fresh \in State /\ Len(Fresh.seen) = 0 /\ Elements(Fresh.seen) = {} /\ ~Fresh.initialized
    /\ Fresh.seen = <<>>
<1>1. <<>> \in Seq(Alert) /\ 0 \in 0..MaxTime
  BY LimitsAreNat
<1> QED
  BY <1>1 DEF Fresh, State, Never, Elements

LEMMA FreshIsTrue ==
    ASSUME NEW floor, NEW last, NEW alerts
    PROVE  Orderly(Fresh, floor, last) /\ Remembers(Fresh, alerts, floor)
BY FreshState DEF Orderly, Remembers, Increasing

\* More is emitted, and less of it served.
LEMMA StaysTrue ==
    ASSUME NEW st \in State, NEW alerts \in SUBSET Alert,
           NEW f \in Nat, NEW g \in Nat, f <= g, NEW m \in Nat, NEW n \in Nat, m <= n
    PROVE  /\ Orderly(st, f, m) => Orderly(st, g, n)
           /\ Remembers(st, alerts, f) => Remembers(st, alerts, g)
<1>1. \A a \in Elements(st.seen) \cup alerts : a \in Nat
  <2>1. Elements(st.seen) \subseteq Alert /\ Alert \subseteq Nat
    BY StateForms, LimitsAreNat
  <2> QED
    BY <2>1
<1>2. ASSUME Orderly(st, f, m) PROVE Orderly(st, g, n)
  <2>1. ASSUME NEW b \in Elements(st.seen)
        PROVE  b <= n /\ \A a \in g..b : a \in Elements(st.seen)
    <3>1. b \in Nat /\ b <= m /\ \A a \in f..b : a \in Elements(st.seen)
      BY <1>1, <1>2 DEF Orderly
    <3> QED
      BY <3>1
  <2> QED
    BY <1>2, <2>1 DEF Orderly
<1>3. ASSUME Remembers(st, alerts, f) PROVE Remembers(st, alerts, g)
  BY <1>1, <1>3 DEF Remembers
<1> QED
  BY <1>2, <1>3

LEMMA FloorIsNat == TypeOK => Floor \in Nat /\ emitted \in Nat /\ since \in Nat
<1> SUFFICES ASSUME TypeOK PROVE Floor \in Nat /\ emitted \in Nat /\ since \in Nat
  OBVIOUS
<1>1. emitted \in Nat /\ since \in Nat /\ ServeLimit \in Nat
  BY LimitsAreNat DEF TypeOK
<1> QED
  BY <1>1 DEF Floor

LEMMA InitIInv == Init => IInv
<1> SUFFICES ASSUME Init PROVE IInv
  OBVIOUS
<1>1. \A r \in Runs : run[r] = Idle /\ run[r].pc = "idle"
  BY DEF Init, Idle
<1>2. TypeOK
  <2>1. 0 \in 0..MaxAlerts /\ 0 \in 0..0 /\ 0 \in 0..MaxTime /\ 0 \in 0..MaxFaults
        /\ SeenLimit \in Nat /\ 0 <= SeenLimit
    BY LimitsAreNat
  <2>2. 1 \in 1..MaxTime
    BY LimitsAreNat, WatchdogAssumption
  <2>3. run \in [Runs -> RunState]
    BY DEF Init, RunState
  <2> QED
    BY <2>1, <2>2, <2>3, FreshState DEF Init, TypeOK, Never
<1>3. Printed = {} /\ \A a \in Alert : shown[a] = 0
  BY DEF Init, Printed
<1>4. ShownOnce /\ RememberedIsAccounted /\ Bounded /\ NothingEarly /\ HeldIsAccounted
  BY <1>1, <1>3, FreshState DEF Init, ShownOnce, RememberedIsAccounted, Bounded, NothingEarly,
                                HeldIsAccounted
<1>5. Serial
  <2>1. Orderly(disk, Floor, emitted) /\ Remembers(disk, Printed, Floor)
    BY FreshIsTrue DEF Init
  <2> QED
    BY <1>1, <2>1 DEF Serial, OneAtATime, HoldsTrue
<1> QED
  BY <1>2, <1>4, <1>5 DEF IInv

\* The invariant gives its parts.
LEMMA Parts ==
    IInv => /\ TypeOK /\ ShownOnce /\ RememberedIsAccounted
            /\ Bounded /\ NothingEarly /\ HeldIsAccounted /\ Serial
BY DEF IInv

\* What is accounted for stays so, if runs about to print do print or are
\* counted as lost.
LEMMA AccountedStays ==
    ASSUME NEW a \in Alert, Accounted(a),
           shown[a] > 0 => shown'[a] > 0,
           baseline \subseteq baseline', lost \subseteq lost',
           \A r \in Runs : run[r].pc = "printing" /\ a \in run[r].new =>
               \/ run'[r].pc = "printing" /\ a \in run'[r].new
               \/ shown'[a] > 0
               \/ a \in lost'
    PROVE  Accounted(a)'
BY DEF Accounted

LEMMA FirstServedGrows ==
    ASSUME NEW e \in Nat, NEW s \in Nat, NEW f \in Nat, NEW t \in Nat, e <= f, s <= t,
           NEW k \in Nat, NEW x, NEW y,
           (e - s > k /\ x = (e - k) + 1) \/ (~(e - s > k) /\ x = s + 1),
           (f - t > k /\ y = (f - k) + 1) \/ (~(f - t > k) /\ y = t + 1)
    PROVE  x \in Nat /\ y \in Nat /\ x <= y
<1>1. x \in Nat
  <2>1. e - k > s => e - k \in Nat
    OBVIOUS
  <2> QED
    BY <2>1
<1>2. y \in Nat
  OBVIOUS
<1> QED
  BY <1>1, <1>2

\* Steps of the monitor and the clock: more alerts, an earlier part no longer
\* served, nothing else.
LEMMA MonitorKeeps ==
    ASSUME IInv, Emit \/ Restart \/ Tick \/ UNCHANGED vars
    PROVE  IInv'
<1>1. /\ TypeOK /\ ShownOnce /\ RememberedIsAccounted
      /\ Bounded /\ NothingEarly /\ HeldIsAccounted /\ Serial
  BY Parts
<1>2. /\ UNCHANGED <<disk, run, shown, noticed, baseline, lost, overlapped>>
      /\ emitted' \in {emitted, emitted + 1} /\ since' \in {since, emitted}
      /\ clock' \in {clock, clock + 1} /\ faults' \in {faults, faults + 1}
  BY DEF Emit, Restart, Tick, Fault, vars, apiVars, printed, histories
<1>3. /\ emitted \in Nat /\ since \in Nat /\ since <= emitted
      /\ {MaxAlerts, MaxTime, MaxFaults, ServeLimit} \subseteq Nat
      /\ clock \in 1..MaxTime /\ faults \in 0..MaxFaults
  BY <1>1, LimitsAreNat DEF TypeOK
<1>4. /\ emitted' \in 0..MaxAlerts /\ since' \in 0..emitted'
      /\ clock' \in 1..MaxTime /\ faults' \in 0..MaxFaults
  <2>1. emitted \in 0..MaxAlerts /\ since \in 0..emitted
    BY <1>1 DEF TypeOK
  <2>2. CASE Emit
    BY <1>3, <2>1, <2>2 DEF Emit, histories
  <2>3. CASE Restart
    BY <1>3, <2>1, <2>3 DEF Restart, Fault
  <2>4. CASE Tick
    BY <1>3, <2>1, <2>4 DEF Tick, apiVars
  <2>5. CASE UNCHANGED vars
    BY <1>3, <2>1, <2>5 DEF vars
  <2> QED
    BY <2>2, <2>3, <2>4, <2>5
<1>5. TypeOK'
  BY <1>1, <1>2, <1>4 DEF TypeOK
<1>6. emitted' \in Nat /\ emitted <= emitted' /\ since <= since' /\ since' \in Nat
  BY <1>2, <1>3, <1>4
<1>7. Floor \in Nat /\ Floor' \in Nat /\ Floor <= Floor'
  <2>1. ServeLimit \in Nat
    BY <1>3
  <2>2. \/ emitted - since > ServeLimit /\ Floor = (emitted - ServeLimit) + 1
        \/ ~(emitted - since > ServeLimit) /\ Floor = since + 1
    BY DEF Floor
  <2>3. \/ emitted' - since' > ServeLimit /\ Floor' = (emitted' - ServeLimit) + 1
        \/ ~(emitted' - since' > ServeLimit) /\ Floor' = since' + 1
    BY DEF Floor
  <2>4. emitted \in Nat /\ since \in Nat /\ emitted' \in Nat /\ since' \in Nat
        /\ emitted <= emitted' /\ since <= since'
    BY <1>3, <1>6
  <2> QED
    BY <2>1, <2>2, <2>3, <2>4, FirstServedGrows
<1>8. ShownOnce' /\ RememberedIsAccounted' /\ Bounded' /\ HeldIsAccounted' /\ Printed' = Printed
  BY <1>1, <1>2 DEF ShownOnce, RememberedIsAccounted, Bounded, HeldIsAccounted, Accounted, Printed
<1>9. NothingEarly'
  <2>1. \A a \in Alert : a \in Nat
    BY LimitsAreNat
  <2>2. \A r \in Runs : run[r].pc \in {"saving", "printing"} => run[r].new \subseteq Alert
    BY <1>1, RunForms
  <2> QED
    BY <1>1, <1>2, <1>3, <1>6, <1>8, <2>1, <2>2 DEF NothingEarly, Printed
<1>10. ASSUME ~overlapped PROVE Serial'
  <2>1. /\ OneAtATime /\ Orderly(disk, Floor, emitted) /\ Remembers(disk, Printed, Floor)
        /\ \A r \in Runs : HoldsTrue(r)
    BY <1>1, <1>10 DEF Serial
  <2>2. disk \in State /\ Printed \in SUBSET Alert
    BY <1>1 DEF TypeOK, Printed
  <2>3. /\ Orderly(disk, Floor', emitted') /\ Remembers(disk, Printed, Floor')
    BY <1>3, <1>6, <1>7, <2>1, <2>2, StaysTrue
  <2>4. ASSUME NEW r \in Runs PROVE HoldsTrue(r)'
    <3>1. HoldsTrue(r)
      BY <2>1
    <3>2. CASE run[r].pc = "fetching"
      <4>1. run[r].state \in State
        BY <1>1, <3>2, RunForms
      <4>2. Orderly(run[r].state, Floor', emitted') /\ Remembers(run[r].state, Printed, Floor')
        BY <1>3, <1>6, <1>7, <2>2, <3>1, <3>2, <4>1, StaysTrue DEF HoldsTrue
      <4> QED
        BY <1>2, <1>8, <3>2, <4>2 DEF HoldsTrue, Orderly, Remembers
    <3>3. CASE run[r].pc = "saving"
      <4>1. run[r].state \in State /\ run[r].new \subseteq Alert
        BY <1>1, <3>3, RunForms
      <4>2. Printed \cup run[r].new \in SUBSET Alert
        BY <2>2, <4>1
      <4>3. /\ Orderly(run[r].state, Floor', emitted')
            /\ Remembers(run[r].state, Printed \cup run[r].new, Floor')
        BY <1>3, <1>6, <1>7, <3>1, <3>3, <4>1, <4>2, StaysTrue DEF HoldsTrue
      <4> QED
        BY <1>2, <1>8, <3>1, <3>3, <4>3 DEF HoldsTrue, Orderly, Remembers
    <3>4. CASE run[r].pc = "printing"
      <4>1. run[r].new \in SUBSET Alert
        BY <1>1, <3>4, RunForms
      <4>2. Remembers(disk, run[r].new, Floor')
        BY <1>3, <1>6, <1>7, <2>2, <3>1, <3>4, <4>1, StaysTrue DEF HoldsTrue
      <4> QED
        BY <1>2, <1>8, <3>1, <3>4, <4>2 DEF HoldsTrue, Orderly, Remembers
    <3> QED
      BY <1>1, <1>2, <3>2, <3>3, <3>4, RunForms DEF HoldsTrue
  <2>5. OneAtATime'
    BY <1>2, <2>1 DEF OneAtATime
  <2> QED
    BY <1>2, <1>8, <2>3, <2>4, <2>5 DEF Serial, Orderly, Remembers
<1>11. Serial'
  BY <1>2, <1>10 DEF Serial
<1> QED
  BY <1>5, <1>8, <1>9, <1>11 DEF IInv

-----------------------------------------------------------------------------
(* The steps of a run                                                      *)

\* A step of the only run under way, or of one that is started alone.
LEMMA AloneKeeps ==
    ASSUME NEW r \in Runs, \A q \in Runs \ {r} : run'[q] = Idle,
           ~overlapped' => /\ Orderly(disk, Floor, emitted)'
                           /\ Remembers(disk, Printed, Floor)'
                           /\ HoldsTrue(r)'
    PROVE  Serial'
<1> SUFFICES ASSUME ~overlapped' PROVE Serial'
  BY DEF Serial
<1>1. OneAtATime'
  BY DEF OneAtATime
<1>2. ASSUME NEW q \in Runs \ {r} PROVE HoldsTrue(q)'
  <2>1. run'[q].pc = "idle"
    BY DEF Idle
  <2> QED
    BY <2>1 DEF HoldsTrue
<1> QED
  BY <1>1, <1>2 DEF Serial

LEMMA OthersIdle ==
    ASSUME IInv, ~overlapped, NEW r \in Runs, run[r] # Idle
    PROVE  /\ \A q \in Runs \ {r} : run[q] = Idle
           /\ Orderly(disk, Floor, emitted) /\ Remembers(disk, Printed, Floor) /\ HoldsTrue(r)
BY Parts DEF Serial, OneAtATime

LEMMA StartKeeps ==
    ASSUME IInv, NEW r \in Runs, Start(r)
    PROVE  IInv'
<1>1. /\ TypeOK /\ ShownOnce /\ RememberedIsAccounted
      /\ Bounded /\ NothingEarly /\ HeldIsAccounted /\ Serial
  BY Parts
<1>2. PICK st \in {disk, Fresh} :
          /\ run' = [run EXCEPT ![r] = [pc |-> "fetching", at |-> clock, state |-> st]]
          /\ faults' = faults \/ Fault
  BY DEF Start
<1>3. /\ run[r] = Idle
      /\ overlapped' = (overlapped \/ \E q \in Runs \ {r} : run[q] # Idle)
      /\ UNCHANGED <<since, emitted, clock, disk, shown, noticed, baseline, lost>>
  BY DEF Start, apiVars, printed
<1>4. st \in State /\ Len(st.seen) <= SeenLimit /\ \A a \in Elements(st.seen) : Accounted(a)
  <2>1. 0 <= SeenLimit
    BY LimitsAreNat
  <2> QED
    BY <1>1, <1>2, <2>1, FreshState DEF TypeOK, RememberedIsAccounted
<1> DEFINE x == [pc |-> "fetching", at |-> clock, state |-> st]
<1>5. run'[r] = x /\ x.pc = "fetching" /\ x.state = st /\ \A q \in Runs \ {r} : run'[q] = run[q]
  BY <1>1, <1>2 DEF TypeOK
<1>6. run[r].pc = "idle"
  BY <1>3 DEF Idle
<1>7. TypeOK'
  <2>1. x \in RunState
    BY <1>1, <1>4 DEF RunState, TypeOK
  <2>2. run' \in [Runs -> RunState]
    BY <1>1, <1>2, <2>1 DEF TypeOK
  <2>3. faults' \in 0..MaxFaults
    BY <1>1, <1>2, LimitsAreNat DEF TypeOK, Fault
  <2>4. overlapped' \in BOOLEAN
    BY <1>1, <1>3 DEF TypeOK
  <2> QED
    BY <1>1, <1>3, <2>2, <2>3, <2>4 DEF TypeOK
<1> HIDE DEF x
<1>8. \A a \in Alert : Accounted(a) => Accounted(a)'
  BY <1>3, <1>5, <1>6, AccountedStays
<1>9. Elements(disk.seen) \subseteq Alert /\ Elements(st.seen) \subseteq Alert
  BY <1>1, <1>4, StateForms DEF TypeOK
<1>10. ShownOnce' /\ RememberedIsAccounted' /\ Bounded' /\ NothingEarly'
  BY <1>1, <1>3, <1>4, <1>5, <1>8, <1>9 DEF ShownOnce, RememberedIsAccounted, Bounded, NothingEarly, Printed
<1>11. HeldIsAccounted'
  <2> SUFFICES ASSUME NEW q \in Runs PROVE
        /\ run'[q].pc = "fetching" => \A a \in Elements(run'[q].state.seen) : Accounted(a)'
        /\ run'[q].pc = "saving" => \A a \in Elements(run'[q].state.seen) :
                                       Accounted(a)' \/ a \in run'[q].new \cup run'[q].known
    BY DEF HeldIsAccounted
  <2>1. CASE q = r
    BY <1>4, <1>5, <1>8, <1>9, <2>1
  <2>2. CASE q # r
    <3>1. run[q].pc \in {"fetching", "saving"} => Elements(run[q].state.seen) \subseteq Alert
      BY <1>1, RunForms, StateForms
    <3> QED
      BY <1>1, <1>5, <1>8, <2>2, <3>1 DEF HeldIsAccounted
  <2> QED
    BY <2>1, <2>2
<1>12. Serial'
  <2> SUFFICES ASSUME ~overlapped' PROVE Serial'
    BY DEF Serial
  <2>1. ~overlapped /\ \A q \in Runs \ {r} : run'[q] = Idle
    BY <1>3, <1>5
  <2>2. Orderly(disk, Floor, emitted) /\ Remembers(disk, Printed, Floor)
    BY <1>1, <2>1 DEF Serial
  <2>3. Orderly(st, Floor, emitted) /\ Remembers(st, Printed, Floor)
    BY <1>2, <2>2, FreshIsTrue
  <2>4. Floor' = Floor /\ Printed' = Printed /\ emitted' = emitted /\ disk' = disk
    BY <1>3 DEF Floor, Printed
  <2>5. Orderly(disk, Floor, emitted)' /\ Remembers(disk, Printed, Floor)'
    BY <2>2, <2>4 DEF Orderly, Remembers
  <2>6. HoldsTrue(r)'
    BY <1>5, <2>3, <2>4 DEF HoldsTrue, Orderly, Remembers
  <2> QED
    BY <2>1, <2>5, <2>6, AloneKeeps
<1> QED
  BY <1>7, <1>10, <1>11, <1>12 DEF IInv

\* A step of a run that leaves the printed and the file alone, and its state no
\* more than it was but for what it will see to.
LEMMA HeldStays ==
    ASSUME TypeOK, HeldIsAccounted, NEW r \in Runs, \A q \in Runs \ {r} : run'[q] = run[q],
           \A a \in Alert : Accounted(a) => Accounted(a)',
           run'[r].pc # "fetching",
           run'[r].pc = "saving" => \A a \in Elements(run'[r].state.seen) :
               Accounted(a)' \/ a \in run'[r].new \cup run'[r].known
    PROVE  HeldIsAccounted'
<1> SUFFICES ASSUME NEW q \in Runs PROVE
        /\ run'[q].pc = "fetching" => \A a \in Elements(run'[q].state.seen) : Accounted(a)'
        /\ run'[q].pc = "saving" => \A a \in Elements(run'[q].state.seen) :
                                       Accounted(a)' \/ a \in run'[q].new \cup run'[q].known
  BY DEF HeldIsAccounted
<1>1. CASE q = r
  BY <1>1
<1>2. CASE q # r
  <2>1. run[q].pc \in {"fetching", "saving"} => Elements(run[q].state.seen) \subseteq Alert
    BY RunForms, StateForms
  <2> QED
    BY <1>2, <2>1 DEF HeldIsAccounted
<1> QED
  BY <1>1, <1>2

LEMMA FetchKeeps ==
    ASSUME IInv, NEW r \in Runs, Fetch(r)
    PROVE  IInv'
<1> DEFINE st    == run[r].state
           after == [initialized |-> TRUE, seen |-> BoundedSeen(st.seen \o Served), notice |-> Never]
           x     == [pc    |-> "saving", state |-> after, new |-> NewAlerts(st, Served),
                     known |-> IF st.initialized THEN {} ELSE Elements(Served), error |-> Never]
<1>1. /\ TypeOK /\ ShownOnce /\ RememberedIsAccounted
      /\ Bounded /\ NothingEarly /\ HeldIsAccounted /\ Serial
  BY Parts
<1>2. /\ run[r].pc = "fetching"
      /\ run' = [run EXCEPT ![r] = x]
      /\ UNCHANGED <<since, emitted, clock, disk, shown, noticed, faults, baseline, lost, overlapped>>
  BY DEF Fetch, apiVars, printed, histories
<1>3. st \in State /\ st.seen \in Seq(Alert) /\ st.initialized \in BOOLEAN /\ run[r] # Idle
  BY <1>1, <1>2, RunForms, StateForms DEF Idle
<1>4. run'[r] = x /\ \A q \in Runs \ {r} : run'[q] = run[q]
  BY <1>1, <1>2 DEF TypeOK
<1>5. /\ x.pc = "saving" /\ x.state = after /\ x.new = NewAlerts(st, Served)
      /\ x.known = (IF st.initialized THEN {} ELSE Elements(Served)) /\ x.error = Never
      /\ after.initialized = TRUE /\ after.seen = BoundedSeen(st.seen \o Served)
      /\ after.notice = Never
  OBVIOUS
<1>6. /\ after.seen \in Seq(Alert) /\ Len(after.seen) <= SeenLimit
      /\ Elements(after.seen) \subseteq Elements(st.seen) \cup Floor..emitted
  BY <1>1, <1>3, BoundedSeenIs
<1>7. /\ Elements(Served) = Floor..emitted /\ Floor \in Nat /\ emitted \in Nat
      /\ Elements(Served) \subseteq Alert
  BY <1>1, ServedIs, PlacesOfAlerts, FloorIsNat DEF Elements
<1>8. /\ x.new = (IF st.initialized THEN (Floor..emitted) \ Elements(st.seen) ELSE {})
      /\ x.new \subseteq Alert /\ x.new \subseteq Floor..emitted /\ x.known \subseteq Alert
  BY <1>5, <1>7 DEF NewAlerts
<1>9. x \in RunState /\ after \in State
  <2>1. Never \in 0..MaxTime
    BY LimitsAreNat DEF Never
  <2>2. after \in State
    BY <1>6, <2>1 DEF State
  <2> QED
    BY <1>5, <1>8, <2>1, <2>2 DEF RunState
<1> HIDE DEF st, after, x
<1>10. TypeOK'
  <2>1. run' \in [Runs -> RunState]
    BY <1>1, <1>2, <1>9 DEF TypeOK
  <2> QED
    BY <1>1, <1>2, <2>1 DEF TypeOK
<1>11. \A a \in Alert : Accounted(a) => Accounted(a)'
  BY <1>2, <1>4, AccountedStays
<1>12. Elements(disk.seen) \subseteq Alert
  BY <1>1, StateForms DEF TypeOK
<1>13. ShownOnce' /\ RememberedIsAccounted' /\ Bounded'
  BY <1>1, <1>2, <1>4, <1>5, <1>6, <1>11, <1>12 DEF ShownOnce, RememberedIsAccounted, Bounded
<1>14. NothingEarly'
  <2>1. \A a \in x.new : a <= emitted
    BY <1>7, <1>8
  <2> QED
    BY <1>1, <1>2, <1>4, <2>1 DEF NothingEarly, Printed
<1>15. HeldIsAccounted'
  <2>1. \A a \in Elements(st.seen) : Accounted(a)
    BY <1>1, <1>2 DEF HeldIsAccounted, st
  <2>2. \A a \in Elements(after.seen) : Accounted(a)' \/ a \in x.new \cup x.known
    <3> SUFFICES ASSUME NEW a \in Elements(after.seen)
                 PROVE  Accounted(a)' \/ a \in x.new \cup x.known
      OBVIOUS
    <3>1. CASE a \in Elements(st.seen)
      <4>1. a \in Alert
        BY <1>3, <3>1, StateForms
      <4> QED
        BY <1>11, <2>1, <3>1, <4>1
    <3>2. CASE a \notin Elements(st.seen)
      BY <1>5, <1>6, <1>7, <1>8, <3>2
    <3> QED
      BY <3>1, <3>2
  <2> QED
    BY <1>1, <1>4, <1>5, <1>11, <2>2, HeldStays
<1>16. Serial'
  <2> SUFFICES ASSUME ~overlapped PROVE Serial'
    BY <1>2 DEF Serial
  <2>1. /\ \A q \in Runs \ {r} : run[q] = Idle
        /\ Orderly(disk, Floor, emitted) /\ Remembers(disk, Printed, Floor) /\ HoldsTrue(r)
    BY <1>3, OthersIdle
  <2>2. Orderly(st, Floor, emitted) /\ Remembers(st, Printed, Floor)
    BY <1>2, <2>1 DEF HoldsTrue, st
  <2>3. Floor' = Floor /\ Printed' = Printed /\ emitted' = emitted /\ disk' = disk
    BY <1>2 DEF Floor, Printed
  <2>4. Increasing(after.seen) /\ Floor..emitted \subseteq Elements(after.seen)
    BY <1>1, <1>3, <1>5, <2>2, BoundedSeenOrderly DEF Orderly
  <2>5. \A b \in Elements(after.seen) : b \in Nat /\ b <= emitted
    <3>1. \A b \in Elements(st.seen) : b <= emitted
      BY <2>2 DEF Orderly
    <3>2. \A b \in Elements(after.seen) : b \in Nat
      BY <1>6, PlacesOfAlerts DEF Elements
    <3> QED
      BY <1>6, <1>7, <3>1, <3>2
  <2>6. Orderly(after, Floor, emitted)
    <3>1. ASSUME NEW b \in Elements(after.seen), NEW a \in Floor..b
          PROVE  a \in Elements(after.seen)
      <4>1. b \in Nat /\ b <= emitted
        BY <2>5
      <4>2. a \in Floor..emitted
        BY <1>7, <4>1
      <4> QED
        BY <2>4, <4>2
    <3> QED
      BY <1>5, <2>4, <2>5, <3>1 DEF Orderly
  <2>7. Remembers(after, Printed \cup x.new, Floor)
    <3>1. \A a \in Printed : a <= emitted /\ a \in Nat
      BY <1>1, LimitsAreNat DEF NothingEarly, Printed
    <3>2. \A a \in Printed : a >= Floor => a \in Floor..emitted
      BY <1>7, <3>1
    <3> QED
      BY <1>8, <2>4, <3>2 DEF Remembers
  <2>8. x.new \cap Printed = {}
    <3>1. \A a \in Floor..emitted : a >= Floor
      BY <1>7
    <3> QED
      BY <1>8, <2>2, <3>1 DEF Remembers
  <2>9. Orderly(disk, Floor, emitted)' /\ Remembers(disk, Printed, Floor)'
    BY <2>1, <2>3 DEF Orderly, Remembers
  <2>10. HoldsTrue(r)'
    BY <1>4, <1>5, <2>3, <2>6, <2>7, <2>8 DEF HoldsTrue, Orderly, Remembers
  <2> QED
    BY <1>4, <2>1, <2>9, <2>10, AloneKeeps
<1> QED
  BY <1>10, <1>13, <1>14, <1>15, <1>16 DEF IInv

LEMMA FetchFailsKeeps ==
    ASSUME IInv, NEW r \in Runs, FetchFails(r)
    PROVE  IInv'
<1> DEFINE st    == run[r].state
           after == [st EXCEPT !.notice = run[r].at]
           x     == [pc |-> "saving", state |-> after, new |-> {}, known |-> {}, error |-> run[r].at]
<1>1. /\ TypeOK /\ ShownOnce /\ RememberedIsAccounted
      /\ Bounded /\ NothingEarly /\ HeldIsAccounted /\ Serial
  BY Parts
<1>2. PICK y \in {Idle, x} :
      /\ run[r].pc = "fetching"
      /\ run' = [run EXCEPT ![r] = y]
      /\ Fault
      /\ UNCHANGED <<since, emitted, clock, disk, shown, noticed, baseline, lost, overlapped>>
  BY DEF FetchFails, apiVars, printed, histories
<1>3. /\ st \in State /\ st.seen \in Seq(Alert) /\ run[r] # Idle /\ run[r].at \in 1..MaxTime
      /\ Elements(st.seen) \subseteq Alert
  BY <1>1, <1>2, RunForms, StateForms DEF Idle
<1>4. run'[r] = y /\ \A q \in Runs \ {r} : run'[q] = run[q]
  BY <1>1, <1>2 DEF TypeOK
<1>5. /\ Idle.pc = "idle"
      /\ x.pc = "saving" /\ x.state = after /\ x.new = {} /\ x.known = {}
  BY DEF Idle
<1>6. /\ after \in State /\ after.seen = st.seen /\ after.initialized = st.initialized
      /\ x \in RunState
  <2>1. run[r].at \in 0..MaxTime
    BY <1>3
  <2>2. after \in State /\ after.seen = st.seen /\ after.initialized = st.initialized
    BY <1>3, <2>1 DEF State
  <2> QED
    BY <2>1, <2>2 DEF RunState
<1> HIDE DEF st, after, x
<1>7. TypeOK'
  <2>1. run' \in [Runs -> RunState]
    BY <1>1, <1>2, <1>6 DEF TypeOK, RunState
  <2>2. faults' \in 0..MaxFaults
    BY <1>1, <1>2, LimitsAreNat DEF TypeOK, Fault
  <2> QED
    BY <1>1, <1>2, <2>1, <2>2 DEF TypeOK
<1>8. \A a \in Alert : Accounted(a) => Accounted(a)'
  BY <1>2, <1>4, AccountedStays
<1>9. Elements(disk.seen) \subseteq Alert
  BY <1>1, StateForms DEF TypeOK
<1>10. ShownOnce' /\ RememberedIsAccounted' /\ NothingEarly'
  BY <1>1, <1>2, <1>4, <1>5, <1>8, <1>9 DEF ShownOnce, RememberedIsAccounted, NothingEarly, Printed
<1>11. Bounded'
  BY <1>1, <1>2, <1>4, <1>5, <1>6 DEF Bounded, st
<1>12. HeldIsAccounted'
  <2>1. \A a \in Elements(st.seen) : Accounted(a)'
    BY <1>1, <1>2, <1>3, <1>8 DEF HeldIsAccounted, st
  <2> QED
    BY <1>1, <1>2, <1>4, <1>5, <1>6, <1>8, <2>1, HeldStays
<1>13. Serial'
  <2> SUFFICES ASSUME ~overlapped PROVE Serial'
    BY <1>2 DEF Serial
  <2>1. /\ \A q \in Runs \ {r} : run[q] = Idle
        /\ Orderly(disk, Floor, emitted) /\ Remembers(disk, Printed, Floor) /\ HoldsTrue(r)
    BY <1>3, OthersIdle
  <2>2. Orderly(after, Floor, emitted) /\ Remembers(after, Printed, Floor)
    BY <1>2, <1>6, <2>1 DEF HoldsTrue, Orderly, Remembers, st
  <2>3. Floor' = Floor /\ Printed' = Printed /\ emitted' = emitted /\ disk' = disk
    BY <1>2 DEF Floor, Printed
  <2>4. Orderly(disk, Floor, emitted)' /\ Remembers(disk, Printed, Floor)'
    BY <2>1, <2>3 DEF Orderly, Remembers
  <2>5. HoldsTrue(r)'
    BY <1>2, <1>4, <1>5, <2>2, <2>3 DEF HoldsTrue, Orderly, Remembers
  <2> QED
    BY <1>4, <2>1, <2>4, <2>5, AloneKeeps
<1> QED
  BY <1>7, <1>10, <1>11, <1>12, <1>13 DEF IInv

LEMMA SaveKeeps ==
    ASSUME IInv, NEW r \in Runs, Save(r)
    PROVE  IInv'
<1> DEFINE x == [run[r] EXCEPT !.pc = "printing"]
<1>1. /\ TypeOK /\ ShownOnce /\ RememberedIsAccounted
      /\ Bounded /\ NothingEarly /\ HeldIsAccounted /\ Serial
  BY Parts
<1>2. /\ run[r].pc = "saving"
      /\ disk' = run[r].state
      /\ run' = [run EXCEPT ![r] = x]
      /\ baseline' = baseline \cup run[r].known
      /\ UNCHANGED <<since, emitted, clock, shown, noticed, faults, lost, overlapped>>
  BY <1>1 DEF Save, apiVars, printed, TypeOK
<1>3. /\ run[r] \in [pc : {"saving", "printing"}, state : State,
                     new : SUBSET Alert, known : SUBSET Alert, error : 0..MaxTime]
      /\ run[r].state \in State /\ run[r].known \subseteq Alert /\ run[r] # Idle
      /\ Elements(run[r].state.seen) \subseteq Alert
  BY <1>1, <1>2, RunForms, StateForms DEF Idle
<1>4. run'[r] = x /\ \A q \in Runs \ {r} : run'[q] = run[q]
  BY <1>1, <1>2 DEF TypeOK
<1>5. x.pc = "printing" /\ x.state = run[r].state /\ x.new = run[r].new /\ x \in RunState
  BY <1>3 DEF RunState
<1> HIDE DEF x
<1>6. Len(run[r].state.seen) <= SeenLimit
  BY <1>1, <1>2 DEF Bounded
<1>7. TypeOK'
  <2>1. run' \in [Runs -> RunState]
    BY <1>1, <1>2, <1>5 DEF TypeOK
  <2> QED
    BY <1>1, <1>2, <1>3, <1>6, <2>1 DEF TypeOK
<1>8. \A a \in Alert : Accounted(a) => Accounted(a)'
  BY <1>2, <1>4, AccountedStays
<1>9. ShownOnce' /\ Bounded' /\ NothingEarly'
  BY <1>1, <1>2, <1>4, <1>5, <1>6 DEF ShownOnce, Bounded, NothingEarly, Printed
<1>10. RememberedIsAccounted'
  <2> SUFFICES ASSUME NEW a \in Elements(run[r].state.seen) PROVE Accounted(a)'
    BY <1>2 DEF RememberedIsAccounted
  <2>1. Accounted(a) \/ a \in run[r].new \/ a \in run[r].known
    BY <1>1, <1>2 DEF HeldIsAccounted
  <2>2. CASE Accounted(a)
    BY <1>3, <1>8, <2>2
  <2>3. CASE a \in run[r].new
    BY <1>4, <1>5, <2>3 DEF Accounted
  <2>4. CASE a \in run[r].known
    BY <1>2, <2>4 DEF Accounted
  <2> QED
    BY <2>1, <2>2, <2>3, <2>4
<1>11. HeldIsAccounted'
  BY <1>1, <1>4, <1>5, <1>8, HeldStays
<1>12. Serial'
  <2> SUFFICES ASSUME ~overlapped PROVE Serial'
    BY <1>2 DEF Serial
  <2>1. (\A q \in Runs \ {r} : run[q] = Idle) /\ HoldsTrue(r)
    BY <1>3, OthersIdle
  <2>2. /\ Orderly(run[r].state, Floor, emitted)
        /\ Remembers(run[r].state, Printed \cup run[r].new, Floor)
        /\ run[r].new \cap Printed = {}
    BY <1>2, <2>1 DEF HoldsTrue
  <2>3. Floor' = Floor /\ Printed' = Printed /\ emitted' = emitted
    BY <1>2 DEF Floor, Printed
  <2>4. Orderly(disk, Floor, emitted)' /\ Remembers(disk, Printed, Floor)'
    BY <1>2, <2>2, <2>3 DEF Orderly, Remembers
  <2>5. HoldsTrue(r)'
    BY <1>2, <1>4, <1>5, <2>2, <2>3 DEF HoldsTrue, Remembers
  <2> QED
    BY <1>4, <2>1, <2>4, <2>5, AloneKeeps
<1> QED
  BY <1>7, <1>9, <1>10, <1>11, <1>12 DEF IInv

\* A run that ends, with what it was about to print shown or lost.
LEMMA EndKeeps ==
    ASSUME IInv, NEW r \in Runs, run[r] # Idle,
           run' = [run EXCEPT ![r] = Idle],
           UNCHANGED <<since, emitted, clock, disk, baseline, overlapped>>,
           TypeOK',
           \A a \in Alert : Accounted(a) => Accounted(a)',
           ShownOnce', \A a \in Printed' : a <= emitted,
           ~overlapped => Remembers(disk, Printed', Floor)
    PROVE  IInv'
<1>1. /\ TypeOK /\ RememberedIsAccounted
      /\ Bounded /\ NothingEarly /\ HeldIsAccounted /\ Serial
  BY Parts
<1>2. run'[r] = Idle /\ Idle.pc = "idle" /\ \A q \in Runs \ {r} : run'[q] = run[q]
  BY <1>1 DEF TypeOK, Idle
<1>3. Elements(disk.seen) \subseteq Alert
  BY <1>1, StateForms DEF TypeOK
<1>4. RememberedIsAccounted' /\ Bounded' /\ NothingEarly'
  BY <1>1, <1>2, <1>3 DEF RememberedIsAccounted, Bounded, NothingEarly
<1>5. HeldIsAccounted'
  BY <1>1, <1>2, HeldStays
<1>6. Serial'
  <2> SUFFICES ASSUME ~overlapped PROVE Serial'
    BY DEF Serial
  <2>1. (\A q \in Runs \ {r} : run[q] = Idle) /\ Orderly(disk, Floor, emitted)
    BY OthersIdle
  <2>2. Floor' = Floor /\ emitted' = emitted /\ disk' = disk
    BY DEF Floor
  <2>3. Orderly(disk, Floor, emitted)' /\ Remembers(disk, Printed, Floor)'
    BY <2>1, <2>2 DEF Orderly, Remembers
  <2>4. HoldsTrue(r)'
    BY <1>2 DEF HoldsTrue
  <2> QED
    BY <1>2, <2>1, <2>3, <2>4, AloneKeeps
<1> QED
  BY <1>4, <1>5, <1>6 DEF IInv

LEMMA ShowKeeps ==
    ASSUME IInv, NEW r \in Runs, Show(r)
    PROVE  IInv'
<1>1. /\ TypeOK /\ ShownOnce /\ NothingEarly
  BY Parts
<1>2. /\ run[r].pc = "printing" /\ run[r] # Idle
      /\ shown' = [a \in Alert |-> shown[a] + (IF a \in run[r].new THEN 1 ELSE 0)]
      /\ noticed' = IF run[r].error = Never THEN noticed ELSE run[r].error
      /\ run' = [run EXCEPT ![r] = Idle]
      /\ UNCHANGED <<since, emitted, clock, disk, faults, baseline, lost, overlapped>>
  BY DEF Show, apiVars, histories, Idle
<1>3. run[r].new \subseteq Alert /\ run[r].error \in 0..MaxTime
  BY <1>1, <1>2, RunForms
<1>4. \A a \in Alert : /\ shown[a] \in Nat /\ shown'[a] \in Nat
                       /\ a \in run[r].new => shown'[a] = shown[a] + 1
                       /\ a \notin run[r].new => shown'[a] = shown[a]
  BY <1>1, <1>2 DEF TypeOK
<1>5. TypeOK'
  <2>1. shown' \in [Alert -> Nat] /\ run' \in [Runs -> RunState]
    BY <1>1, <1>2, <1>4 DEF TypeOK, RunState
  <2>2. noticed' \in 0..MaxTime
    BY <1>1, <1>2, <1>3 DEF TypeOK
  <2> QED
    BY <1>1, <1>2, <2>1, <2>2 DEF TypeOK
<1>6. run'[r] = Idle /\ \A q \in Runs \ {r} : run'[q] = run[q]
  BY <1>1, <1>2 DEF TypeOK
<1>7. \A a \in Alert : shown[a] > 0 \/ a \in run[r].new <=> shown'[a] > 0
  BY <1>4
<1>8. \A a \in Alert : Accounted(a) => Accounted(a)'
  BY <1>2, <1>6, <1>7, AccountedStays
<1>9. Printed' = Printed \cup run[r].new
  BY <1>3, <1>7 DEF Printed
<1>10. ASSUME ~overlapped
       PROVE  /\ \A a \in Alert : shown'[a] <= 1
              /\ Remembers(disk, Printed', Floor)
  <2>1. /\ Remembers(disk, Printed, Floor) /\ Remembers(disk, run[r].new, Floor)
        /\ run[r].new \cap Printed = {}
    BY <1>2, <1>10, OthersIdle DEF HoldsTrue
  <2>2. \A a \in run[r].new : shown[a] = 0
    BY <1>3, <1>4, <2>1 DEF Printed
  <2> QED
    BY <1>1, <1>4, <1>9, <1>10, <2>1, <2>2 DEF Remembers, ShownOnce
<1>11. ShownOnce' /\ \A a \in Printed' : a <= emitted
  BY <1>1, <1>2, <1>9, <1>10 DEF ShownOnce, NothingEarly
<1> QED
  BY <1>2, <1>5, <1>8, <1>10, <1>11, EndKeeps

LEMMA DieKeeps ==
    ASSUME IInv, NEW r \in Runs, Die(r)
    PROVE  IInv'
<1>1. /\ TypeOK /\ ShownOnce /\ NothingEarly
  BY Parts
<1>2. /\ run[r] # Idle /\ Fault
      /\ lost' = lost \cup (IF run[r].pc = "printing" THEN run[r].new ELSE {})
      /\ run' = [run EXCEPT ![r] = Idle]
      /\ UNCHANGED <<since, emitted, clock, disk, shown, noticed, baseline, overlapped>>
  BY DEF Die, apiVars, printed
<1>3. TypeOK'
  <2>1. run' \in [Runs -> RunState] /\ lost' \subseteq Alert
    BY <1>1, <1>2, RunForms DEF TypeOK, RunState
  <2>2. faults' \in 0..MaxFaults
    BY <1>1, <1>2, LimitsAreNat DEF TypeOK, Fault
  <2> QED
    BY <1>1, <1>2, <2>1, <2>2 DEF TypeOK
<1>4. run'[r] = Idle /\ \A q \in Runs \ {r} : run'[q] = run[q]
  BY <1>1, <1>2 DEF TypeOK
<1>5. \A a \in Alert : Accounted(a) => Accounted(a)'
  BY <1>2, <1>4, AccountedStays
<1>6. Printed' = Printed
  BY <1>2 DEF Printed
<1>7. ShownOnce' /\ \A a \in Printed' : a <= emitted
  BY <1>1, <1>2, <1>6 DEF ShownOnce, NothingEarly
<1>8. ~overlapped => Remembers(disk, Printed', Floor)
  BY <1>2, <1>6, OthersIdle
<1> QED
  BY <1>2, <1>3, <1>5, <1>7, <1>8, EndKeeps

-----------------------------------------------------------------------------
(* The theorems                                                            *)

\* What the state file, the variables of the runs and the reader know of the
\* alerts agrees in every reachable state, over restarts, lost files and runs
\* that die.
THEOREM InductiveInvariant == Spec => []IInv
<1>1. IInv /\ [Next]_vars => IInv'
  <2> SUFFICES ASSUME IInv, [Next]_vars PROVE IInv'
    OBVIOUS
  <2>1. CASE Emit \/ Restart \/ Tick \/ UNCHANGED vars
    BY <2>1, MonitorKeeps
  <2>2. ASSUME NEW r \in Runs,
               Start(r) \/ Fetch(r) \/ FetchFails(r) \/ Save(r) \/ Show(r) \/ Die(r)
        PROVE  IInv'
    BY <2>2, StartKeeps, FetchKeeps, FetchFailsKeeps, SaveKeeps, ShowKeeps, DieKeeps
  <2> QED
    BY <2>1, <2>2 DEF Next
<1> QED
  BY <1>1, InitIInv, PTL DEF Spec

\* The state file, the variables of a run and the monitor's list keep their
\* types, and the file never remembers more than MAX_SEEN_ALERTS.
THEOREM TypeCorrect == Spec => []TypeOK
<1>1. IInv => TypeOK
  BY DEF IInv
<1> QED
  BY <1>1, InductiveInvariant, PTL

\* No alert is printed twice as long as runs do not overlap: run_watchdog finds
\* in the file every alert it printed that the API can serve again.
THEOREM PrintedOnce == Spec => []ShownOnce
<1>1. IInv => ShownOnce
  BY DEF IInv
<1> QED
  BY <1>1, InductiveInvariant, PTL

\* What the file remembers was printed, will be by a run under way, was known to
\* a first run or was lost with a run that died after _save_state: of runs that
\* overlap, too, none hides an alert from the others.
THEOREM NothingForgotten == Spec => []RememberedIsAccounted
<1>1. IInv => RememberedIsAccounted
  BY DEF IInv
<1> QED
  BY <1>1, InductiveInvariant, PTL
===============================================================================
