------------------------- MODULE Opportunities_proofs -------------------------
(***************************************************************************)
(* Proofs about Opportunities: four answers of four moments miss no symbol *)
(* on its way from the candidates to the alerts and show no alert older    *)
(* than one served before, for any symbols, scores, limits and length of   *)
(* the list.                                                               *)
(***************************************************************************)
EXTENDS Opportunities, FiniteSetTheorems, WellFoundedInduction, TLAPS

-----------------------------------------------------------------------------
(* Least and greatest numbers                                              *)

\* A nonempty set of naturals has a least element.
LEMMA LeastNat ==
  ASSUME NEW T \in SUBSET Nat, T # {}
  PROVE  \E m \in T : \A k \in T : m <= k
<1> DEFINE I == {0..n : n \in T}
<1>1. I \subseteq FiniteSubsetsOf(Nat)
  <2>1. ASSUME NEW n \in T PROVE 0..n \in SUBSET Nat /\ IsFiniteSet(0..n)
    BY FS_Interval
  <2> QED BY <2>1 DEF FiniteSubsetsOf
<1>2. I # {}
  OBVIOUS
<1>3. PICK x \in I : \A y \in I : ~(<<y, x>> \in StrictSubsetOrdering(Nat))
  <2> HIDE DEF I
  <2> QED BY <1>1, <1>2, FS_StrictSubsetOrderingWellFounded, WFMin
<1>4. PICK m \in T : x = 0..m
  OBVIOUS
<1>5. ASSUME NEW k \in T, k < m PROVE FALSE
  <2>1. 0..k \in I
    OBVIOUS
  <2>2. 0..k \subseteq 0..m /\ 0..k # 0..m /\ 0..k \in SUBSET Nat /\ 0..m \in SUBSET Nat
    <3>1. m \in 0..m /\ m \notin 0..k
      BY <1>5
    <3> QED BY <3>1, <1>5
  <2> QED BY <2>1, <2>2, <1>3, <1>4 DEF StrictSubsetOrdering
<1> QED BY <1>5

\* Max of a nonempty set of naturals up to a bound.
LEMMA MaxIs ==
  ASSUME NEW b \in Nat, NEW S \in SUBSET (0..b), S # {}
  PROVE  Max(S) \in S /\ \A x \in S : x <= Max(S)
<1> DEFINE T == {b - x : x \in S}
<1>1. T \in SUBSET Nat /\ T # {}
  <2>1. \A x \in S : x \in Int /\ x <= b
    OBVIOUS
  <2>2. \A x \in S : b - x \in Nat
    BY <2>1
  <2>3. PICK x \in S : TRUE
    OBVIOUS
  <2>4. b - x \in T
    OBVIOUS
  <2> QED BY <2>2, <2>4
<1>2. PICK m \in T : \A k \in T : m <= k
  <2> HIDE DEF T
  <2> QED BY <1>1, LeastNat
<1>3. PICK y \in S : m = b - y
  OBVIOUS
<1>4. ASSUME NEW x \in S PROVE y >= x
  <2>1. b - x \in T
    OBVIOUS
  <2>2. b - y <= b - x
    BY <2>1, <1>2, <1>3
  <2>3. x \in Int /\ y \in Int
    OBVIOUS
  <2> HIDE DEF T
  <2> QED BY <2>2, <2>3
<1>5. Max(S) \in S /\ \A x \in S : Max(S) >= x
  BY <1>4 DEF Max
<1> QED BY <1>5

-----------------------------------------------------------------------------
(* recent_alerts and _latest_alert_by_symbol                               *)

ServedAlert == [n : 1..MaxAlerts, symbol : Symbol, watch : Watch]
Listed  == [symbol : Symbol, watch : Watch]

LEMMA ConstantTypes ==
    /\ Symbol \subseteq Nat /\ Score \subseteq Nat /\ Watch \subseteq Nat
    /\ IsFiniteSet(Symbol)
    /\ Limits \subseteq Nat \ {0} /\ Floors \subseteq Int
    /\ Served \in Nat \ {0} /\ MaxAlerts \in Nat
BY OpportunitiesAssumption

\* The alert a symbol is shown with is one of its own and none of its own is
\* newer; 0 says that it has none.
LEMMA LatestIs ==
  ASSUME NEW recent \in SUBSET ServedAlert, NEW s
  PROVE  /\ Latest(recent, s) \in 0..MaxAlerts
         /\ Latest(recent, s) # 0 =>
                \E a \in recent : a.symbol = s /\ a.n = Latest(recent, s)
         /\ \A a \in recent : a.symbol = s => a.n <= Latest(recent, s)
<1> DEFINE Own == {0} \cup {a.n : a \in {b \in recent : b.symbol = s}}
<1>1. Own \in SUBSET (0..MaxAlerts) /\ Own # {} /\ MaxAlerts \in Nat
  BY ConstantTypes DEF ServedAlert
<1>2. Latest(recent, s) = Max(Own)
  BY DEF Latest
<1>3. Max(Own) \in Own /\ \A x \in Own : x <= Max(Own)
  <2> HIDE DEF Own
  <2> QED BY <1>1, MaxIs
<1>4. ASSUME NEW a \in recent, a.symbol = s PROVE a.n \in Own
  BY <1>4
<1> QED BY <1>1, <1>2, <1>3, <1>4

\* What is served are the last alerts of the list, Served of them at most.
LEMMA RecentIs ==
  ASSUME NEW list \in Seq(Listed), Len(list) <= MaxAlerts
  PROVE  /\ Recent(list) \in SUBSET ServedAlert
         /\ IsFiniteSet(Recent(list)) /\ Cardinality(Recent(list)) <= Served
         /\ \A a \in Recent(list) :
                a.n \in 1..Len(list) /\ a.n > Len(list) - Served /\ a.symbol = list[a.n].symbol
         /\ \A i \in 1..Len(list) : i > Len(list) - Served =>
                \E a \in Recent(list) : a.n = i /\ a.symbol = list[i].symbol
<1>1. /\ Len(list) \in Nat /\ DOMAIN list = 1..Len(list)
      /\ \A i \in 1..Len(list) : list[i] \in Listed
  OBVIOUS
<1>2. ASSUME NEW a \in Recent(list)
      PROVE  /\ a.n \in 1..Len(list) /\ a.n > Len(list) - Served
             /\ a = [n |-> a.n, symbol |-> list[a.n].symbol, watch |-> list[a.n].watch]
  BY <1>1 DEF Recent
<1>3. ASSUME NEW a \in Recent(list) PROVE a \in ServedAlert
  <2>1. a.n \in 1..MaxAlerts /\ list[a.n] \in Listed
    BY <1>1, <1>2, ConstantTypes
  <2> QED BY <2>1, <1>2 DEF ServedAlert, Listed
<1>4. ASSUME NEW i \in 1..Len(list), i > Len(list) - Served
      PROVE  \E a \in Recent(list) : a.n = i /\ a.symbol = list[i].symbol
  <2> DEFINE a == [n |-> i, symbol |-> list[i].symbol, watch |-> list[i].watch]
  <2>1. a \in Recent(list)
    BY <1>1, <1>4 DEF Recent
  <2> QED BY <2>1
<1>5. IsFiniteSet(Recent(list)) /\ Cardinality(Recent(list)) <= Served
  <2> DEFINE lo == Len(list) - Served + 1
             f  == [a \in Recent(list) |-> a.n]
  <2>1. lo \in Int /\ IsFiniteSet(lo..Len(list)) /\ Cardinality(lo..Len(list)) = Served
    <3>1. lo \in Int /\ Len(list) - lo + 1 = Served /\ ~(lo > Len(list))
      BY <1>1, ConstantTypes
    <3> HIDE DEF lo
    <3> QED BY <3>1, <1>1, FS_Interval
  <2>2. f \in [Recent(list) -> lo..Len(list)]
    BY <1>1, <1>2, ConstantTypes
  <2>3. \A a, b \in Recent(list) : f[a] = f[b] => a = b
    BY <1>2
  <2>4. f \in Injection(Recent(list), lo..Len(list))
    BY <2>2, <2>3 DEF Injection, IsInjective
  <2> HIDE DEF f, lo
  <2> QED BY <2>1, <2>4, FS_Injection
<1> QED BY <1>2, <1>3, <1>4, <1>5

\* Alerts may drop off the served ones, but not from behind an older one.
LEMMA LongerKeepsLatest ==
  ASSUME NEW list \in Seq(Listed), NEW longer \in Seq(Listed), NEW s,
         Len(list) <= Len(longer), Len(longer) <= MaxAlerts,
         \A i \in 1..Len(list) : longer[i] = list[i],
         Latest(Recent(longer), s) # 0
  PROVE  Latest(Recent(longer), s) >= Latest(Recent(list), s)
<1> DEFINE before == Latest(Recent(list), s)
           after  == Latest(Recent(longer), s)
<1>1. Len(list) \in Nat /\ Len(longer) \in Nat /\ Len(list) <= MaxAlerts
      /\ Served \in Nat /\ MaxAlerts \in Nat
  BY ConstantTypes
<1>2. Recent(list) \in SUBSET ServedAlert /\ Recent(longer) \in SUBSET ServedAlert
  BY <1>1, RecentIs
<1>3. before \in 0..MaxAlerts /\ after \in 0..MaxAlerts
  BY <1>2, LatestIs
<1>4. CASE before = 0
  BY <1>3, <1>4
<1>5. CASE before # 0 /\ before > Len(longer) - Served
  <2>1. PICK a \in Recent(list) : a.symbol = s /\ a.n = before
    BY <1>2, <1>5, LatestIs
  <2>2. before \in 1..Len(list) /\ list[before].symbol = s
    BY <2>1, <1>1, RecentIs
  <2>3. before \in 1..Len(longer) /\ longer[before].symbol = s
    BY <2>2, <1>1
  <2>4. PICK b \in Recent(longer) : b.n = before /\ b.symbol = s
    BY <2>3, <1>5, RecentIs
  <2>5. before <= after
    BY <2>4, <1>2, LatestIs
  <2> QED BY <2>5, <1>3
<1>6. CASE before <= Len(longer) - Served
  <2>1. PICK b \in Recent(longer) : b.symbol = s /\ b.n = after
    BY <1>2, LatestIs
  <2>2. after > Len(longer) - Served
    BY <2>1, RecentIs
  <2> QED BY <2>2, <1>1, <1>3, <1>6
<1> QED BY <1>1, <1>3, <1>4, <1>5, <1>6

-----------------------------------------------------------------------------
(* _build_response                                                         *)

Shape == [symbol : Symbol, alert : 0..MaxAlerts, stage1 : Nat \cup {None}, watch : Nat \cup {None}]

LEMMA OpportunityIs ==
  ASSUME NEW from \in Published, NEW recent \in SUBSET ServedAlert, NEW s \in Symbol
  PROVE  /\ Opportunity(s, from, recent) \in Shape
         /\ Opportunity(s, from, recent).symbol = s
         /\ Opportunity(s, from, recent).alert = Latest(recent, s)
         /\ Latest(recent, s) # 0 => Opportunity(s, from, recent).watch \in Nat
<1> DEFINE n == Latest(recent, s)
           stage1 == IF s \in from.symbols THEN from.score[s] ELSE None
           watch  == IF n = 0 THEN None ELSE (CHOOSE a \in recent : a.n = n).watch
<1>1. n \in 0..MaxAlerts /\ (n # 0 => \E a \in recent : a.n = n)
  BY LatestIs
<1>2. stage1 \in Nat \cup {None}
  <2>1. PICK symbols \in SUBSET Symbol : from \in [symbols : {symbols}, score : [symbols -> Score]]
    BY DEF Published
  <2>2. from.symbols = symbols /\ from.score \in [symbols -> Score]
    BY <2>1
  <2>3. s \in from.symbols => from.score[s] \in Nat
    BY <2>2, ConstantTypes
  <2> QED BY <2>3
<1>3. n # 0 => watch \in Nat
  <2> SUFFICES ASSUME n # 0 PROVE watch \in Nat
    OBVIOUS
  <2>1. (CHOOSE a \in recent : a.n = n) \in recent
    BY <1>1
  <2>2. (CHOOSE a \in recent : a.n = n).watch \in Nat
    BY <2>1, ConstantTypes DEF ServedAlert
  <2> QED BY <2>2
<1>4. watch \in Nat \cup {None}
  BY <1>3
<1>5. Opportunity(s, from, recent) = [symbol |-> s, alert |-> n, stage1 |-> stage1, watch |-> watch]
  BY DEF Opportunity
<1> HIDE DEF n, stage1, watch
<1>6. Opportunity(s, from, recent) \in Shape
  BY <1>1, <1>2, <1>4, <1>5 DEF Shape
<1> QED BY <1>3, <1>5, <1>6 DEF n

\* _sort_key is a total order of opportunities of different symbols.
LEMMA OrderIsTotal ==
  /\ \A o \in Shape : ~Precedes(o, o)
  /\ \A o, p, q \in Shape : Precedes(o, p) /\ Precedes(p, q) => Precedes(o, q)
  /\ \A o, p \in Shape : o.symbol # p.symbol => Precedes(o, p) \/ Precedes(p, o)
<1>1. \A o \in Shape : /\ o.symbol \in Int /\ o.watch \in Int /\ o.stage1 \in Int
                       /\ Confirmed(o) \in BOOLEAN
  <2> TAKE o \in Shape
  <2>1. /\ o.symbol \in Symbol /\ o.watch \in Nat \cup {None}
        /\ o.stage1 \in Nat \cup {None}
    BY DEF Shape
  <2>2. None \in Int
    BY DEF None
  <2>3. Confirmed(o) \in BOOLEAN
    BY DEF Confirmed
  <2>4. o.watch \in Int /\ o.stage1 \in Int
    BY <2>1, <2>2
  <2>5. o.symbol \in Nat
    BY <2>1, ConstantTypes
  <2> QED BY <2>3, <2>4, <2>5
<1>2. ASSUME NEW o \in Shape PROVE ~Precedes(o, o)
  BY <1>1 DEF Precedes
<1>3. ASSUME NEW o \in Shape, NEW p \in Shape, NEW q \in Shape, Precedes(o, p), Precedes(p, q)
      PROVE  Precedes(o, q)
  BY <1>1, <1>3 DEF Precedes
<1>4. ASSUME NEW o \in Shape, NEW p \in Shape, o.symbol # p.symbol
      PROVE  Precedes(o, p) \/ Precedes(p, o)
  BY <1>1, <1>4 DEF Precedes
<1> QED BY <1>2, <1>3, <1>4

Below(set, o) == {p \in set : Precedes(p, o)}

\* One opportunity per symbol.
Distinct(set) == \A o, p \in set : o.symbol = p.symbol => o = p

LEMMA BelowGrows ==
  ASSUME NEW F \in SUBSET Shape, IsFiniteSet(F), NEW o \in F, NEW p \in F, Precedes(p, o)
  PROVE  /\ Cardinality(Below(F, p)) \in Nat /\ Cardinality(Below(F, o)) \in Nat
         /\ Below(F, p) \subseteq Below(F, o)
         /\ Cardinality(Below(F, p)) < Cardinality(Below(F, o))
<1>1. Below(F, p) \in SUBSET Below(F, o)
  BY OrderIsTotal DEF Below
<1>2. Below(F, o) \in SUBSET F /\ p \in Below(F, o) /\ p \notin Below(F, p)
  BY OrderIsTotal DEF Below
<1>3. IsFiniteSet(Below(F, o))
  BY <1>2, FS_Subset
<1>4. /\ IsFiniteSet(Below(F, p)) /\ Cardinality(Below(F, p)) <= Cardinality(Below(F, o))
      /\ Cardinality(Below(F, o)) = Cardinality(Below(F, p)) => Below(F, o) = Below(F, p)
  BY <1>1, <1>3, FS_Subset
<1>5. Cardinality(Below(F, p)) \in Nat /\ Cardinality(Below(F, o)) \in Nat
  BY <1>3, <1>4, FS_CardinalityType
<1>6. Below(F, o) # Below(F, p)
  BY <1>2
<1> QED BY <1>1, <1>4, <1>5, <1>6

\* The first `limit' of them are at most so many, and exactly so many when one
\* is left out.
LEMMA FirstOnes ==
  ASSUME NEW F \in SUBSET Shape, IsFiniteSet(F), Distinct(F), NEW limit \in Nat \ {0}
  PROVE  LET shown == {o \in F : Cardinality(Below(F, o)) < limit}
         IN  /\ Cardinality(shown) <= limit
             /\ \A o \in F : o \notin shown => Cardinality(shown) = limit
<1> DEFINE rank(o) == Cardinality(Below(F, o))
           shown   == {o \in F : rank(o) < limit}
<1>1. \A o \in F : rank(o) \in Nat
  <2> TAKE o \in F
  <2>1. Below(F, o) \in SUBSET F
    BY DEF Below
  <2> QED BY <2>1, FS_Subset, FS_CardinalityType
<1>2. \A o, p \in F : Precedes(p, o) => rank(p) < rank(o)
  BY BelowGrows
<1>3. \A o, p \in F : o # p => rank(o) # rank(p)
  <2> SUFFICES ASSUME NEW o \in F, NEW p \in F, o # p PROVE rank(o) # rank(p)
    OBVIOUS
  <2>1. Precedes(o, p) \/ Precedes(p, o)
    BY OrderIsTotal DEF Distinct
  <2>2. rank(o) \in Nat /\ rank(p) \in Nat /\ (rank(o) < rank(p) \/ rank(p) < rank(o))
    BY <2>1, <1>1, <1>2
  <2> HIDE DEF rank
  <2> QED BY <2>2
<1> HIDE DEF rank
<1>4. IsFiniteSet(shown) /\ Cardinality(shown) \in Nat
  <2>1. shown \in SUBSET F
    OBVIOUS
  <2> HIDE DEF shown
  <2> QED BY <2>1, FS_Subset, FS_CardinalityType
<1>5. Cardinality(shown) <= limit
  <2> SUFFICES ASSUME limit < Cardinality(shown) PROVE FALSE
    BY <1>4
  <2> DEFINE f == [o \in shown |-> rank(o)]
             T == 0..(limit - 1)
  <2>1. f \in [shown -> T]
    BY <1>1
  <2>2. IsFiniteSet(T) /\ Cardinality(T) = limit
    <3>1. ~(0 > limit - 1) /\ limit - 1 - 0 + 1 = limit /\ limit - 1 \in Int
      OBVIOUS
    <3> QED BY <3>1, FS_Interval
  <2>3. \A x, y \in shown : x # y => f[x] # f[y]
    BY <1>3
  <2>4. Cardinality(T) < Cardinality(shown)
    BY <2>2
  <2> HIDE DEF f, T, shown
  <2> QED BY <1>4, <2>1, <2>2, <2>3, <2>4, FS_PigeonHole
<1>6. ASSUME NEW o \in F, o \notin shown PROVE Cardinality(shown) = limit
  <2> DEFINE out == {rank(p) : p \in F \ shown}
  <2>1. out \in SUBSET Nat /\ out # {}
    BY <1>1, <1>6
  <2>2. PICK m \in out : \A k \in out : m <= k
    <3> HIDE DEF out
    <3> QED BY <2>1, LeastNat
  <2>3. PICK q \in F \ shown : m = rank(q)
    OBVIOUS
  <2>4. Below(F, q) \in SUBSET shown
    <3> SUFFICES ASSUME NEW p \in Below(F, q), p \notin shown PROVE FALSE
      OBVIOUS
    <3>1. p \in F /\ rank(p) < rank(q)
      BY <1>2 DEF Below
    <3>2. rank(q) <= rank(p)
      BY <2>2, <2>3, <3>1
    <3>3. rank(p) \in Nat /\ rank(q) \in Nat
      BY <1>1, <3>1
    <3> QED BY <3>1, <3>2, <3>3
  <2>5. rank(q) <= Cardinality(shown)
    <3> HIDE DEF shown
    <3> QED BY <1>4, <2>4, FS_Subset DEF rank
  <2>6. limit <= rank(q) /\ rank(q) \in Nat
    BY <1>1
  <2> HIDE DEF shown
  <2> QED BY <1>4, <1>5, <2>5, <2>6
<1> QED BY <1>5, <1>6 DEF rank

LEMMA MergedIs ==
  ASSUME NEW from \in Published, NEW recent \in SUBSET ServedAlert
  PROVE  /\ Merged(from, recent) \in SUBSET Shape /\ IsFiniteSet(Merged(from, recent))
         /\ Distinct(Merged(from, recent))
         /\ \A o \in Merged(from, recent) : /\ o.alert = Latest(recent, o.symbol)
                                            /\ o.alert # 0 => o.watch \in Nat
         /\ \A s \in Symbol : s \in from.symbols \/ Latest(recent, s) # 0 =>
                Opportunity(s, from, recent) \in Merged(from, recent)
<1> DEFINE M == Merged(from, recent)
           Of == from.symbols \cup {a.symbol : a \in recent}
<1>1. Of \in SUBSET Symbol /\ M = {Opportunity(s, from, recent) : s \in Of}
  BY DEF Published, ServedAlert, Merged
<1>2. M \in SUBSET Shape
  BY <1>1, OpportunityIs
<1>3. \A o \in M : o.symbol \in Of /\ o = Opportunity(o.symbol, from, recent)
  BY <1>1, OpportunityIs
<1>4. Distinct(M)
  <2> HIDE DEF M
  <2> QED BY <1>3 DEF Distinct
<1>5. IsFiniteSet(M)
  <2> DEFINE f == [o \in M |-> o.symbol]
  <2> HIDE DEF M
  <2>1. f \in [M -> Symbol]
    BY <1>1, <1>3
  <2>2. \A o, p \in M : f[o] = f[p] => o = p
    BY <1>4 DEF Distinct
  <2>3. f \in Injection(M, Symbol)
    BY <2>1, <2>2 DEF Injection, IsInjective
  <2> HIDE DEF f
  <2> QED BY <2>3, ConstantTypes, FS_Injection
<1>6. ASSUME NEW o \in M
      PROVE o.alert = Latest(recent, o.symbol) /\ (o.alert # 0 => o.watch \in Nat)
  BY <1>1, <1>3, OpportunityIs
<1>7. ASSUME NEW s \in Symbol, s \in from.symbols \/ Latest(recent, s) # 0
      PROVE  Opportunity(s, from, recent) \in M
  <2>1. s \in Of
    BY <1>7, LatestIs
  <2> QED BY <2>1, <1>1
<1> QED BY <1>2, <1>4, <1>5, <1>6, <1>7

\* What the answer shows: as many as the limit at most, each with its latest
\* alert, and whatever passes the filter unless the limit is reached by better.
LEMMA ResponseIs ==
  ASSUME NEW from \in Published, NEW recent \in SUBSET ServedAlert, NEW a \in Args
  PROVE  /\ Cardinality(Response(from, recent, a)) <= a.limit
         /\ \A o \in Response(from, recent, a) : o.alert = Latest(recent, o.symbol)
         /\ \A o \in Merged(from, recent) : Passes(o, a) /\ o \notin Response(from, recent, a) =>
                /\ Cardinality(Response(from, recent, a)) = a.limit
                /\ Confirmed(o) => \A p \in Response(from, recent, a) : Confirmed(p)
<1> DEFINE F == {o \in Merged(from, recent) : Passes(o, a)}
           R == {o \in F : Cardinality(Below(F, o)) < a.limit}
<1>1. Response(from, recent, a) = R
  BY DEF Response, Below
<1>2. F \in SUBSET Merged(from, recent) /\ Merged(from, recent) \in SUBSET Shape
  BY MergedIs
<1>3. F \in SUBSET Shape /\ IsFiniteSet(F) /\ Distinct(F)
  <2>1. IsFiniteSet(F)
    BY <1>2, MergedIs, FS_Subset
  <2>2. Distinct(F)
    BY <1>2, MergedIs DEF Distinct
  <2> QED BY <1>2, <2>1, <2>2
<1>4. a.limit \in Nat \ {0}
  BY ConstantTypes DEF Args
<1>5. ASSUME NEW o \in R PROVE o.alert = Latest(recent, o.symbol)
  <2>1. o \in Merged(from, recent)
    BY <1>2
  <2> QED BY <2>1, MergedIs
<1>6. ASSUME NEW o \in Merged(from, recent), Passes(o, a) PROVE o \in F
  BY <1>6
<1> HIDE DEF F
<1>7. Cardinality(R) <= a.limit /\ \A o \in F : o \notin R => Cardinality(R) = a.limit
  BY <1>3, <1>4, FirstOnes
<1>8. ASSUME NEW o \in F, o \notin R, Confirmed(o), NEW p \in R PROVE Confirmed(p)
  <2> SUFFICES ASSUME ~Confirmed(p) PROVE FALSE
    OBVIOUS
  <2>1. Precedes(o, p)
    BY <1>8 DEF Precedes, Confirmed
  <2>2. Cardinality(Below(F, o)) < Cardinality(Below(F, p)) /\ Cardinality(Below(F, p)) \in Nat
    BY <1>3, <2>1, BelowGrows
  <2>3. Cardinality(Below(F, o)) \in Nat
    BY <1>3, <2>1, BelowGrows
  <2> QED BY <2>2, <2>3, <1>4, <1>8
<1> QED BY <1>1, <1>5, <1>6, <1>7, <1>8

-----------------------------------------------------------------------------
(* Init and the steps                                                      *)

LEMMA NobodyPublished == Nobody \in Published /\ Nobody.symbols = {}
<1>1. Nobody \in [symbols : {{}}, score : [{} -> Score]]
  BY DEF Nobody
<1>2. {} \in SUBSET Symbol
  OBVIOUS
<1> QED BY <1>1, <1>2 DEF Published, Nobody

LEMMA NothingServed ==
  /\ <<>> \in Seq(Listed) /\ Len(<<>>) <= MaxAlerts
  /\ \A s : ~Alerted(<<>>, s)
<1>1. <<>> \in Seq(Listed) /\ Len(<<>>) = 0 /\ Len(<<>>) <= MaxAlerts
  BY ConstantTypes
<1>2. ASSUME NEW s PROVE ~Alerted(<<>>, s)
  <2>1. Recent(<<>>) \in SUBSET ServedAlert /\ \A a \in Recent(<<>>) : a.n \in 1..0
    BY <1>1, RecentIs
  <2>2. ~(\E a \in Recent(<<>>) : a.symbol = s)
    BY <2>1
  <2> QED BY <2>1, <2>2, LatestIs DEF Alerted
<1> QED BY <1>1, <1>2

LEMMA EmptyAnswers ==
  /\ Nothing \in [candidates : {Nobody}, alerts : {{}}]
  /\ Nothing \in [candidates : Published, alerts : SUBSET ServedAlert]
  /\ Cardinality(Nothing.alerts) <= Served
  /\ ~NoAnswer.ok /\ Cardinality(NoAnswer.shown) = 0
<1>1. Cardinality({}) = 0
  BY FS_EmptySet
<1> QED BY <1>1, ConstantTypes, NobodyPublished DEF Nothing, NoAnswer

LEMMA Typed ==
  ASSUME TypeOK
  PROVE  /\ candidates \in Published /\ alerts \in Seq(Listed) /\ Len(alerts) <= MaxAlerts
         /\ fetched.candidates \in Published /\ fetched.alerts \in SUBSET ServedAlert
         /\ fetched \in [candidates : Published, alerts : SUBSET ServedAlert]
         /\ Cardinality(fetched.alerts) <= Served
         /\ standing \subseteq Symbol /\ steady \subseteq Symbol /\ known \in [Symbol -> 0..MaxAlerts]
         /\ Recent(alerts) \in SUBSET ServedAlert
<1>1. alerts \in Seq(Listed) /\ Len(alerts) <= MaxAlerts
  BY DEF TypeOK, Listed
<1>2. fetched \in [candidates : Published, alerts : SUBSET ServedAlert]
  BY DEF TypeOK, ServedAlert
<1> QED BY <1>1, <1>2, RecentIs DEF TypeOK

LEMMA InitIInv == Init => IInv
<1> SUFFICES ASSUME Init PROVE IInv
  OBVIOUS
<1>1. NoArgs \in Args \cup {NoArgs} /\ NoArgs.limit = 1
  BY DEF NoArgs
<1>2. TypeOK
  <2>1. known \in [Symbol -> 0..MaxAlerts]
    BY ConstantTypes DEF Init
  <2>2. Cardinality(answer.shown) <= args.limit
    BY <1>1, EmptyAnswers DEF Init
  <2> QED
    BY <1>1, <2>1, <2>2, NobodyPublished, NothingServed, EmptyAnswers
    DEF Init, TypeOK, Listed, ServedAlert
<1>3. CallTrue
  BY DEF Init, CallTrue
<1>4. NothingMissed /\ NewestAlertShown
  BY DEF Init, NothingMissed, NewestAlertShown, Answered
<1> QED BY <1>2, <1>3, <1>4 DEF IInv

\* A step of the engine is harmless to a call when no symbol that is still
\* alerted gets an older alert.
LEMMA EngineStep ==
  ASSUME IInv, pc # "returned", UNCHANGED callVars, Follow, round' \in BOOLEAN,
         candidates' \in Published, alerts' \in Seq(Listed), Len(alerts') <= MaxAlerts,
         \A s \in Symbol : Alerted(alerts', s) =>
                               Latest(Recent(alerts'), s) >= Latest(Recent(alerts), s)
  PROVE  IInv'
<1>1. pc' = pc /\ args' = args /\ fetched' = fetched /\ answer' = answer
  BY DEF callVars
<1>2. /\ standing \subseteq steady /\ standing \subseteq Symbol /\ steady \subseteq Symbol
      /\ known \in [Symbol -> 0..MaxAlerts]
      /\ Recent(alerts) \in SUBSET ServedAlert /\ Recent(alerts') \in SUBSET ServedAlert
  BY Typed, RecentIs DEF IInv, CallTrue
<1>3. /\ standing' = standing \cap candidates'.symbols
      /\ standing' \subseteq steady' /\ steady' \subseteq steady
      /\ \A s \in steady' : s \in standing' \/ Alerted(alerts', s)
  BY <1>2 DEF Follow
<1>4. \A s \in Symbol : known'[s] = IF Alerted(alerts', s) THEN known[s] ELSE 0
  BY DEF Follow
<1>5. known' \in [Symbol -> 0..MaxAlerts]
  <2>1. \A s \in Symbol : (IF Alerted(alerts', s) THEN known[s] ELSE 0) \in 0..MaxAlerts
    BY <1>2, ConstantTypes
  <2> QED BY <2>1 DEF Follow
<1>6. TypeOK'
  BY <1>1, <1>2, <1>3, <1>5 DEF IInv, TypeOK, Listed
<1>7. ASSUME NEW s \in Symbol, pc \in {"candidates", "alerts"}
      PROVE  Latest(Recent(alerts'), s) >= known'[s]
  <2>1. /\ Latest(Recent(alerts), s) \in 0..MaxAlerts /\ Latest(Recent(alerts'), s) \in 0..MaxAlerts
        /\ known[s] \in 0..MaxAlerts /\ Latest(Recent(alerts), s) >= known[s]
    BY <1>2, <1>7, LatestIs DEF IInv, CallTrue
  <2>2. CASE Alerted(alerts', s)
    BY <1>4, <2>1, <2>2
  <2>3. CASE ~Alerted(alerts', s)
    BY <1>4, <2>1, <2>3
  <2> QED BY <2>2, <2>3
<1>8. ASSUME NEW s \in Symbol, pc \in {"health", "metrics"}
      PROVE  Latest(fetched.alerts, s) >= known'[s]
  <2>1. /\ Latest(fetched.alerts, s) \in 0..MaxAlerts
        /\ known[s] \in 0..MaxAlerts /\ Latest(fetched.alerts, s) >= known[s]
    BY <1>2, <1>8, Typed, LatestIs DEF IInv, CallTrue
  <2> QED BY <1>4, <2>1
<1>9. CallTrue'
  <2>1. (pc' # "returned" => answer' = NoAnswer) /\ (pc' # "idle" => args' \in Args)
    BY <1>1 DEF IInv, CallTrue
  <2>2. /\ pc' = "candidates" => standing' \subseteq candidates'.symbols
        /\ pc' \in {"alerts", "health", "metrics"} => standing' \subseteq fetched'.candidates.symbols
    BY <1>1, <1>3 DEF IInv, CallTrue
  <2>3. ASSUME NEW s \in steady'
        PROVE  pc' \in {"health", "metrics"} =>
                  s \in fetched'.candidates.symbols \/ Latest(fetched'.alerts, s) # 0
    BY <1>1, <1>3 DEF IInv, CallTrue
  <2> QED BY <1>1, <1>3, <1>7, <1>8, <2>1, <2>2, <2>3 DEF CallTrue
<1>10. (NothingMissed /\ NewestAlertShown)'
  BY <1>1 DEF NothingMissed, NewestAlertShown, Answered
<1> QED BY <1>6, <1>9, <1>10 DEF IInv

LEMMA ConcatIs ==
  ASSUME NEW S, NEW p \in Seq(S), NEW q \in Seq(S)
  PROVE  /\ p \o q \in Seq(S) /\ Len(p \o q) = Len(p) + Len(q)
         /\ \A i \in 1..Len(p) : (p \o q)[i] = p[i]
OBVIOUS

\* No alert: nothing gets older.
LEMMA SameAlerts ==
  ASSUME IInv, UNCHANGED alerts
  PROVE  \A s \in Symbol : Latest(Recent(alerts'), s) >= Latest(Recent(alerts), s)
<1>1. \A s \in Symbol : Latest(Recent(alerts), s) \in 0..MaxAlerts
  BY Typed, LatestIs DEF IInv
<1> QED BY <1>1

LEMMA PublishStep == IInv /\ Publish => IInv'
<1> SUFFICES ASSUME IInv, Publish PROVE IInv'
  OBVIOUS
<1>1. candidates' \in Published
  <2>1. PICK symbols \in SUBSET Symbol : \E score \in [symbols -> Score] :
            candidates' = [symbols |-> symbols, score |-> score]
    BY DEF Publish
  <2>2. PICK score \in [symbols -> Score] : candidates' = [symbols |-> symbols, score |-> score]
    BY <2>1
  <2> QED BY <2>2 DEF Published
<1>2. pc # "returned" /\ alerts' = alerts /\ UNCHANGED callVars /\ Follow /\ round' = TRUE
  BY DEF Publish
<1>3. alerts' \in Seq(Listed) /\ Len(alerts') <= MaxAlerts
  BY <1>2, Typed DEF IInv
<1> QED BY <1>1, <1>2, <1>3, SameAlerts, EngineStep

LEMMA ListAlertsStep == IInv /\ ListAlerts => IInv'
<1> SUFFICES ASSUME IInv, ListAlerts PROVE IInv'
  OBVIOUS
<1>1. /\ candidates \in Published /\ alerts \in Seq(Listed) /\ Len(alerts) <= MaxAlerts
      /\ Len(alerts) \in Nat /\ MaxAlerts \in Nat
  BY Typed, ConstantTypes DEF IInv
<1>2. /\ pc # "returned" /\ UNCHANGED callVars /\ candidates' = candidates
      /\ Follow /\ round' = FALSE
  BY DEF ListAlerts
<1>3. PICK n \in 0..(MaxAlerts - Len(alerts)) :
         \E new \in [1..n -> [symbol : candidates.symbols, watch : Watch]] :
            alerts' = alerts \o new
  BY DEF ListAlerts
<1>4. PICK new \in [1..n -> [symbol : candidates.symbols, watch : Watch]] :
         alerts' = alerts \o new
  BY <1>3
<1>5. new \in Seq(Listed) /\ Len(new) = n /\ n \in Nat
  <2>1. candidates.symbols \subseteq Symbol
    BY <1>1 DEF Published
  <2>2. n \in Nat /\ new \in [1..n -> Listed]
    BY <1>1, <2>1 DEF Listed
  <2> QED BY <2>2
<1>6. /\ alerts' \in Seq(Listed) /\ Len(alerts') = Len(alerts) + n
      /\ \A i \in 1..Len(alerts) : alerts'[i] = alerts[i]
  BY <1>1, <1>4, <1>5, ConcatIs
<1>7. Len(alerts) <= Len(alerts') /\ Len(alerts') <= MaxAlerts
  BY <1>1, <1>3, <1>5, <1>6
<1>8. ASSUME NEW s \in Symbol, Alerted(alerts', s)
      PROVE  Latest(Recent(alerts'), s) >= Latest(Recent(alerts), s)
  <2> DEFINE longer == alerts'
  <2>1. Latest(Recent(longer), s) # 0
    BY <1>8 DEF Alerted
  <2> HIDE DEF longer
  <2>2. Latest(Recent(longer), s) >= Latest(Recent(alerts), s)
    BY <1>1, <1>6, <1>7, <2>1, LongerKeepsLatest DEF longer
  <2> QED BY <2>2 DEF longer
<1> QED BY <1>1, <1>2, <1>6, <1>7, <1>8, EngineStep

LEMMA RestartStep == IInv /\ Restart => IInv'
<1> SUFFICES ASSUME IInv, Restart PROVE IInv'
  OBVIOUS
<1>1. /\ pc # "returned" /\ UNCHANGED callVars /\ Follow /\ round' = FALSE
      /\ candidates' = Nobody /\ alerts' = <<>>
  BY DEF Restart
<1>2. candidates' \in Published /\ alerts' \in Seq(Listed) /\ Len(alerts') <= MaxAlerts
  BY <1>1, NobodyPublished, NothingServed
<1>3. \A s \in Symbol : ~Alerted(alerts', s)
  BY <1>1, NothingServed
<1> QED BY <1>1, <1>2, <1>3, EngineStep

LEMMA CallStep == IInv /\ Call => IInv'
<1> SUFFICES ASSUME IInv, Call PROVE IInv'
  OBVIOUS
<1>1. /\ alerts \in Seq(Listed) /\ Len(alerts) <= MaxAlerts /\ Recent(alerts) \in SUBSET ServedAlert
      /\ Len(alerts) \in Nat /\ DOMAIN alerts = 1..Len(alerts)
  BY Typed DEF IInv
<1>2. /\ pc' = "candidates" /\ args' \in Args /\ answer' = NoAnswer /\ fetched' = fetched
      /\ alerts' = alerts /\ candidates' = candidates /\ round' = round
      /\ standing' = candidates.symbols /\ standing' \subseteq Symbol
      /\ steady' = standing' \cup {s \in Symbol : Alerted(alerts, s)}
  <2>1. candidates.symbols \subseteq Symbol
    BY Typed DEF IInv, Published
  <2> QED BY <2>1 DEF IInv, CallTrue, Call, engineVars
<1>3. ASSUME NEW s \in Symbol PROVE known'[s] = Latest(Recent(alerts), s)
  <2>1. {i \in DOMAIN alerts : alerts[i].symbol = s /\ i > Len(alerts) - Served}
           = {a.n : a \in {b \in Recent(alerts) : b.symbol = s}}
    <3>1. ASSUME NEW i \in DOMAIN alerts, alerts[i].symbol = s, i > Len(alerts) - Served
          PROVE  \E a \in Recent(alerts) : a.n = i /\ a.symbol = s
      BY <1>1, <3>1, RecentIs
    <3>2. ASSUME NEW a \in Recent(alerts), a.symbol = s
          PROVE  a.n \in DOMAIN alerts /\ alerts[a.n].symbol = s /\ a.n > Len(alerts) - Served
      BY <1>1, <3>2, RecentIs
    <3> QED BY <3>1, <3>2
  <2>2. known'[s] = Max({0} \cup {i \in DOMAIN alerts :
                                      alerts[i].symbol = s /\ i > Len(alerts) - Served})
    BY DEF Call
  <2> QED BY <2>1, <2>2 DEF Latest
<1>4. known' \in [Symbol -> 0..MaxAlerts]
  <2>1. \A s \in Symbol : known'[s] \in 0..MaxAlerts
    BY <1>1, <1>3, LatestIs
  <2>2. known' = [s \in Symbol |-> known'[s]]
    BY DEF Call
  <2> QED BY <2>1, <2>2
<1>5. TypeOK'
  <2>1. args'.limit \in Nat \ {0}
    BY <1>2, ConstantTypes DEF Args
  <2>2. Cardinality(answer'.shown) <= args'.limit
    BY <1>2, <2>1, EmptyAnswers
  <2> QED BY <1>2, <1>4, <2>2 DEF IInv, TypeOK
<1>6. CallTrue'
  <2>1. ASSUME NEW s \in Symbol PROVE Latest(Recent(alerts'), s) >= known'[s]
    <3>1. Latest(Recent(alerts), s) \in 0..MaxAlerts
      BY <1>1, LatestIs
    <3> QED BY <1>2, <1>3, <3>1
  <2>2. ASSUME NEW s \in steady' PROVE s \in standing' \/ Alerted(alerts', s)
    BY <1>2
  <2> QED BY <1>2, <2>1, <2>2 DEF CallTrue
<1>7. (NothingMissed /\ NewestAlertShown)'
  BY <1>2 DEF NothingMissed, NewestAlertShown, Answered
<1> QED BY <1>5, <1>6, <1>7 DEF IInv

LEMMA FetchCandidatesStep == IInv /\ FetchCandidates => IInv'
<1> SUFFICES ASSUME IInv, FetchCandidates PROVE IInv'
  OBVIOUS
<1>1. /\ pc = "candidates" /\ pc' = "alerts" /\ UNCHANGED <<engineVars, args, answer, historyVars>>
      /\ fetched' = [fetched EXCEPT !.candidates = candidates]
  BY DEF FetchCandidates
<1>2. /\ candidates' = candidates /\ alerts' = alerts /\ round' = round
      /\ standing' = standing /\ steady' = steady /\ known' = known
  BY <1>1 DEF engineVars, historyVars
<1>3. /\ fetched' \in [candidates : Published, alerts : SUBSET ServedAlert]
      /\ fetched'.candidates = candidates /\ fetched'.alerts = fetched.alerts
  BY <1>1, Typed DEF IInv
<1>4. TypeOK'
  BY <1>1, <1>2, <1>3 DEF IInv, TypeOK, ServedAlert
<1>5. CallTrue'
  BY <1>1, <1>2, <1>3 DEF IInv, CallTrue
<1>6. (NothingMissed /\ NewestAlertShown)'
  BY <1>1 DEF NothingMissed, NewestAlertShown, Answered
<1> QED BY <1>4, <1>5, <1>6 DEF IInv

LEMMA FetchAlertsStep == IInv /\ FetchAlerts => IInv'
<1> SUFFICES ASSUME IInv, FetchAlerts PROVE IInv'
  OBVIOUS
<1>1. /\ pc = "alerts" /\ pc' = "health" /\ UNCHANGED <<engineVars, args, answer, historyVars>>
      /\ fetched' = [fetched EXCEPT !.alerts = Recent(alerts)]
  BY DEF FetchAlerts
<1>2. /\ candidates' = candidates /\ alerts' = alerts /\ round' = round
      /\ standing' = standing /\ steady' = steady /\ known' = known
  BY <1>1 DEF engineVars, historyVars
<1>3. /\ fetched' \in [candidates : Published, alerts : SUBSET ServedAlert]
      /\ fetched'.candidates = fetched.candidates /\ fetched'.alerts = Recent(alerts)
      /\ Cardinality(Recent(alerts)) <= Served
  <2>1. alerts \in Seq(Listed) /\ Len(alerts) <= MaxAlerts
    BY Typed DEF IInv
  <2> QED BY <1>1, <2>1, Typed, RecentIs DEF IInv
<1>4. TypeOK'
  BY <1>1, <1>2, <1>3 DEF IInv, TypeOK, ServedAlert
<1>5. CallTrue'
  BY <1>1, <1>2, <1>3 DEF IInv, CallTrue, Alerted
<1>6. (NothingMissed /\ NewestAlertShown)'
  BY <1>1 DEF NothingMissed, NewestAlertShown, Answered
<1> QED BY <1>4, <1>5, <1>6 DEF IInv

LEMMA FetchHealthStep == IInv /\ FetchHealth => IInv'
<1> SUFFICES ASSUME IInv, FetchHealth PROVE IInv'
  OBVIOUS
<1>1. /\ pc = "health" /\ pc' = "metrics"
      /\ UNCHANGED <<engineVars, args, fetched, answer, historyVars>>
  BY DEF FetchHealth
<1>2. /\ candidates' = candidates /\ alerts' = alerts /\ round' = round
      /\ standing' = standing /\ steady' = steady /\ known' = known
  BY <1>1 DEF engineVars, historyVars
<1>3. TypeOK'
  BY <1>1, <1>2 DEF IInv, TypeOK
<1>4. CallTrue'
  BY <1>1, <1>2 DEF IInv, CallTrue
<1>5. (NothingMissed /\ NewestAlertShown)'
  BY <1>1 DEF NothingMissed, NewestAlertShown, Answered
<1> QED BY <1>3, <1>4, <1>5 DEF IInv

\* A symbol that was there at every moment of the call passes an open filter.
LEMMA SteadyPasses ==
  ASSUME IInv, pc = "metrics", args \in Args, NEW s \in steady, Unfiltered(s)
  PROVE  LET o == Opportunity(s, fetched.candidates, fetched.alerts)
         IN  /\ o \in Merged(fetched.candidates, fetched.alerts) /\ Passes(o, args)
             /\ o.symbol = s /\ (known[s] # 0 => Confirmed(o))
<1> DEFINE o == Opportunity(s, fetched.candidates, fetched.alerts)
<1>1. /\ fetched.candidates \in Published /\ fetched.alerts \in SUBSET ServedAlert
      /\ s \in Symbol /\ known[s] \in 0..MaxAlerts
  BY Typed DEF IInv
<1>2. /\ s \in fetched.candidates.symbols \/ Latest(fetched.alerts, s) # 0
      /\ Latest(fetched.alerts, s) >= known[s]
  BY <1>1 DEF IInv, CallTrue
<1>3. o \in Merged(fetched.candidates, fetched.alerts)
  BY <1>1, <1>2, MergedIs
<1>4. /\ o \in Shape /\ o.symbol = s /\ o.alert = Latest(fetched.alerts, s)
      /\ Latest(fetched.alerts, s) \in 0..MaxAlerts
  BY <1>1, OpportunityIs, LatestIs
<1> HIDE DEF o
<1>5. known[s] # 0 => Confirmed(o)
  BY <1>1, <1>2, <1>4 DEF Confirmed
<1>6. args.minStage1 \in Int /\ args.minWatch \in Int /\ args.minStage1 <= 0 /\ args.minWatch <= 0
  BY ConstantTypes DEF Args, Unfiltered
<1>7. o.stage1 \in Nat \cup {None} /\ o.watch \in Nat \cup {None}
  BY <1>4 DEF Shape
<1>8. Passes(o, args)
  <2>1. args.confirmedOnly => Confirmed(o)
    BY <1>5 DEF Unfiltered
  <2> QED BY <1>6, <1>7, <2>1 DEF Passes
<1> QED BY <1>3, <1>4, <1>5, <1>8 DEF o

LEMMA FetchMetricsStep == IInv /\ FetchMetrics => IInv'
<1> SUFFICES ASSUME IInv, FetchMetrics PROVE IInv'
  OBVIOUS
<1> DEFINE R == Response(fetched.candidates, fetched.alerts, args)
           M == Merged(fetched.candidates, fetched.alerts)
<1>1. /\ pc = "metrics" /\ pc' = "returned" /\ UNCHANGED <<engineVars, args, historyVars>>
      /\ answer' = [ok |-> TRUE, shown |-> R] /\ fetched' = Nothing
  BY DEF FetchMetrics
<1>2. /\ candidates' = candidates /\ alerts' = alerts /\ round' = round
      /\ args' = args /\ standing' = standing /\ steady' = steady /\ known' = known
  BY <1>1 DEF engineVars, historyVars
<1>3. args \in Args
  BY <1>1 DEF IInv, CallTrue
<1>4. /\ Cardinality(R) <= args.limit
      /\ \A o \in R : o.alert = Latest(fetched.alerts, o.symbol)
      /\ \A o \in M : Passes(o, args) /\ o \notin R =>
             /\ Cardinality(R) = args.limit
             /\ Confirmed(o) => \A p \in R : Confirmed(p)
  BY <1>3, Typed, ResponseIs DEF IInv
<1>5. TypeOK'
  BY <1>1, <1>2, <1>4, EmptyAnswers DEF IInv, TypeOK, ServedAlert
<1>6. CallTrue'
  BY <1>1, <1>2, <1>3 DEF IInv, CallTrue
<1>7. NothingMissed'
  <2> SUFFICES ASSUME NEW s \in steady, Unfiltered(s), \A o \in R : o.symbol # s
               PROVE  /\ Cardinality(R) = args.limit
                      /\ known[s] # 0 => \A o \in R : Confirmed(o)
    BY <1>1, <1>2 DEF NothingMissed, Unfiltered, Shown
  <2>1. PICK o \in M : Passes(o, args) /\ o.symbol = s /\ (known[s] # 0 => Confirmed(o))
    BY <1>1, <1>3, SteadyPasses
  <2> QED BY <1>4, <2>1
<1>8. NewestAlertShown'
  <2>1. ASSUME NEW o \in R PROVE o.alert >= known[o.symbol]
    <3>1. o \in M /\ M \in SUBSET Shape
      BY Typed, MergedIs DEF IInv, Response
    <3>2. o.symbol \in Symbol
      BY <3>1 DEF Shape
    <3> QED BY <1>1, <1>4, <3>2 DEF IInv, CallTrue
  <2> QED BY <1>1, <1>2, <2>1 DEF NewestAlertShown
<1> QED BY <1>5, <1>6, <1>7, <1>8 DEF IInv

LEMMA FailStep == IInv /\ Fail => IInv'
<1> SUFFICES ASSUME IInv, Fail PROVE IInv'
  OBVIOUS
<1>1. /\ pc \notin {"idle", "returned"} /\ pc' = "returned" /\ UNCHANGED <<engineVars, args, answer, historyVars>>
      /\ fetched' = Nothing
  BY DEF Fail
<1>2. /\ candidates' = candidates /\ alerts' = alerts /\ round' = round /\ answer' = NoAnswer
      /\ standing' = standing /\ steady' = steady /\ known' = known
  BY <1>1 DEF engineVars, historyVars, IInv, CallTrue
<1>3. TypeOK'
  BY <1>1, <1>2, EmptyAnswers DEF IInv, TypeOK, ServedAlert
<1>4. (CallTrue /\ NothingMissed /\ NewestAlertShown)'
  BY <1>1, <1>2, EmptyAnswers DEF IInv, CallTrue, NothingMissed, NewestAlertShown, Answered
<1> QED BY <1>3, <1>4 DEF IInv

LEMMA ReturnStep == IInv /\ Return => IInv'
<1> SUFFICES ASSUME IInv, Return PROVE IInv'
  OBVIOUS
<1>1. /\ pc' = "idle" /\ args' = NoArgs /\ answer' = NoAnswer /\ standing' = {} /\ steady' = {}
      /\ known' = [s \in Symbol |-> 0] /\ UNCHANGED <<engineVars, fetched>>
  BY DEF Return
<1>2. TypeOK'
  <2>1. known' \in [Symbol -> 0..MaxAlerts] /\ NoArgs.limit = 1
    BY <1>1, ConstantTypes DEF NoArgs
  <2>2. Cardinality(answer'.shown) <= args'.limit
    BY <1>1, <2>1, EmptyAnswers
  <2> QED BY <1>1, <2>1, <2>2 DEF IInv, TypeOK, engineVars
<1>3. (CallTrue /\ NothingMissed /\ NewestAlertShown)'
  BY <1>1 DEF CallTrue, NothingMissed, NewestAlertShown, Answered
<1> QED BY <1>2, <1>3 DEF IInv

-----------------------------------------------------------------------------
(* The theorems                                                            *)

\* What a call has been answered so far and what the API can still answer
\* agree on the symbols it must not miss, in every reachable state.
THEOREM InductiveInvariant == Spec => []IInv
<1>1. IInv /\ [Next]_vars => IInv'
  <2> SUFFICES ASSUME IInv, [Next]_vars PROVE IInv'
    OBVIOUS
  <2>1. CASE Engine
    BY <2>1, PublishStep, ListAlertsStep, RestartStep DEF Engine
  <2>2. CASE Plugin
    BY <2>2, CallStep, FetchCandidatesStep, FetchAlertsStep, FetchHealthStep, FetchMetricsStep,
       FailStep, ReturnStep DEF Plugin
  <2>3. CASE UNCHANGED vars
    BY <2>3 DEF vars, engineVars, callVars, historyVars, IInv, TypeOK, CallTrue, NothingMissed,
       NewestAlertShown, Answered, Shown, Unfiltered
  <2> QED
    BY <2>1, <2>2, <2>3 DEF Next
<1> QED
  BY <1>1, InitIInv, PTL DEF Spec

\* The engine's lists and the variables of a call keep their types: /alerts/recent
\* answers Served alerts at most and the response never exceeds its limit.
THEOREM TypeCorrect == Spec => []TypeOK
<1>1. IInv => TypeOK
  BY DEF IInv
<1> QED
  BY <1>1, InductiveInvariant, PTL

\* A symbol that was a candidate at every moment of the call, or served as an alert
\* at every moment since it ceased to be, is shown, unless the filter excludes it
\* or better ones reach the limit (_fetch_payloads, _merge_opportunities,
\* _build_response).
THEOREM NobodyMissed == Spec => []NothingMissed
<1>1. IInv => NothingMissed
  BY DEF IInv
<1> QED
  BY <1>1, InductiveInvariant, PTL

\* A symbol some alert of which was served at every moment of the call is shown
\* with none older than the newest that was served as the call began
\* (_latest_alert_by_symbol, recent_alerts).
THEOREM ShownIsNewest == Spec => []NewestAlertShown
<1>1. IInv => NewestAlertShown
  BY DEF IInv
<1> QED
  BY <1>1, InductiveInvariant, PTL

=============================================================================
