---------------------------- MODULE Scanner_proofs ----------------------------
(***************************************************************************)
(* Proofs about Stage 1: what Scanner publishes is true of the market, for *)
(* any market, any thresholds and any loss or delay of messages, and       *)
(* CandidateManager takes a slot from nobody before the residence is over. *)
(***************************************************************************)
EXTENDS Scanner, CandidateManager, FiniteSetTheorems, WellFoundedInduction, TLAPS

-----------------------------------------------------------------------------
(* Histories                                                               *)

Samples(end) == [time : 1..end, price : Nat \ {0}, volume : Int]

LEMMA ConstantTypes ==
    /\ Window \in Nat /\ Tolerance \in Nat /\ MaxAge \in Nat /\ Horizon \in Nat
    /\ Calm \in Nat /\ Burst \in Nat /\ Hour \in Nat /\ Quiet \in Nat
    /\ BusyAt \in Nat /\ Busy \in Nat
    /\ KlineDelay \in Nat /\ KlineEvery \in Nat \ {0} /\ HistoryPoints \in Nat \ {0} /\ BasePrice \in Nat \ {0}
    /\ Swings \subseteq Nat /\ Btc \in Symbol /\ Permanent \subseteq Symbol
BY ScannerAssumption, RankingAssumption

LEMMA Typed ==
    ASSUME TypeOK
    PROVE  /\ now \in Nat \ {0}
           /\ price \in [Symbol -> [1..now -> Nat \ {0}]]
           /\ traded \in [Symbol -> [1..now -> Nat]]
           /\ history \in [Symbol -> Seq(Samples(now))]
           /\ \A s \in Symbol : Len(history[s]) <= HistoryPoints
           /\ universe \subseteq Symbol /\ streamed \subseteq Symbol
<1>1. now \in Nat \ {0}
  BY ConstantTypes DEF TypeOK
<1>2. history \in [Symbol -> Seq(Samples(now))]
  BY DEF TypeOK, Samples
<1> QED
  BY <1>1, <1>2 DEF TypeOK

LEMMA ElementOf ==
    ASSUME NEW T, NEW q \in Seq(T), NEW i \in DOMAIN q
    PROVE  q[i] \in T
OBVIOUS

LEMMA SampleTyped ==
    ASSUME NEW end \in Nat, NEW r \in Samples(end)
    PROVE  r.time \in 1..end /\ r.price \in Nat \ {0} /\ r.volume \in Int
BY DEF Samples

\* The deque keeps its limit, and holds nothing but what it held and what was
\* put in.
LEMMA PutHolds ==
    ASSUME NEW T, NEW queue \in Seq(T), NEW sample \in T, Len(queue) <= HistoryPoints
    PROVE  /\ Put(queue, sample) \in Seq(T)
           /\ Len(Put(queue, sample)) <= HistoryPoints
           /\ \A i \in DOMAIN Put(queue, sample) :
                 \/ Put(queue, sample)[i] = sample
                 \/ \E j \in DOMAIN queue : Put(queue, sample)[i] = queue[j]
<1>0. HistoryPoints \in Nat \ {0}
  BY ScannerAssumption
<1>1. CASE Len(queue) < HistoryPoints
  <2>1. Put(queue, sample) = Append(queue, sample)
    BY <1>1 DEF Put
  <2> QED
    BY <1>0, <1>1, <2>1
<1>2. CASE ~(Len(queue) < HistoryPoints)
  <2>1. Put(queue, sample) = Append(Tail(queue), sample)
    BY <1>2 DEF Put
  <2>2. queue # <<>> /\ Len(queue) = HistoryPoints
    BY <1>0, <1>2
  <2>3. /\ Tail(queue) \in Seq(T) /\ Len(Tail(queue)) = Len(queue) - 1
        /\ \A i \in 1..Len(Tail(queue)) : Tail(queue)[i] = queue[i + 1] /\ i + 1 \in DOMAIN queue
    BY <2>2
  <2> QED
    BY <1>0, <2>1, <2>2, <2>3
<1> QED
  BY <1>1, <1>2

\* The search finds a sample of the history up to the cutoff, or none.
LEMMA AtOrBeforeFinds ==
    ASSUME NEW h, NEW cutoff, AtOrBefore(h, cutoff) # 0
    PROVE  /\ AtOrBefore(h, cutoff) \in DOMAIN h
           /\ h[AtOrBefore(h, cutoff)].time <= cutoff
<1> DEFINE eligible == {i \in DOMAIN h : h[i].time <= cutoff}
           IsLatest(i) == \A j \in eligible : \/ h[j].time < h[i].time
                                              \/ h[j].time = h[i].time /\ j <= i
<1>1. AtOrBefore(h, cutoff) =
        IF \E i \in eligible : IsLatest(i) THEN CHOOSE i \in eligible : IsLatest(i) ELSE 0
  BY DEF AtOrBefore
<1>2. AtOrBefore(h, cutoff) \in eligible
  <2> HIDE DEF eligible, IsLatest
  <2> QED
    BY <1>1
<1> QED
  BY <1>2

\* A symbol is judged on a fresh sample and on one from the start of the last
\* window, both of its history.
LEMMA JudgedOn ==
    ASSUME NEW s \in Symbol, Judged(s), TypeOK
    PROVE  LET h == history[s]
               newest == Newest(h)
               start == Start(h, 1)
           IN  /\ newest \in DOMAIN h /\ start \in DOMAIN h
               /\ h[newest].time \in (now - MaxAge)..now
               /\ h[start].time \in (h[newest].time - Window - Tolerance)..(h[newest].time - Window)
<1> DEFINE h == history[s]
           newest == Newest(h)
           start == Start(h, 1)
           cutoff == h[newest].time - 1 * Window
<1>0. /\ Window \in Nat /\ Tolerance \in Nat /\ MaxAge \in Nat
      /\ now \in Nat /\ h \in Seq(Samples(now))
  BY ConstantTypes, Typed
<1>1. newest # 0 /\ start # 0 /\ now - h[newest].time <= MaxAge
  BY DEF Judged
<1>2. newest \in DOMAIN h /\ h[newest].time <= now
  BY <1>1, AtOrBeforeFinds DEF Newest
<1>3. start = NearCutoff(h, cutoff)
  BY DEF Start
<1>4. /\ start = AtOrBefore(h, cutoff)
      /\ cutoff - h[start].time <= Tolerance
  BY <1>1, <1>3 DEF NearCutoff
<1>5. start \in DOMAIN h /\ h[start].time <= cutoff
  <2> HIDE DEF cutoff, start, h
  <2> QED
    BY <1>1, <1>4, AtOrBeforeFinds
<1>6. h[newest].time \in Nat /\ h[start].time \in Nat
  <2>1. h[newest] \in Samples(now) /\ h[start] \in Samples(now)
    BY <1>0, <1>2, <1>5, ElementOf
  <2>2. \A r \in Samples(now) : r.time \in Nat
    BY <1>0, SampleTyped
  <2> QED
    BY <2>1, <2>2
<1>7. h[newest].time \in (now - MaxAge)..now
  <2> HIDE DEF newest, h
  <2> QED
    BY <1>0, <1>1, <1>2, <1>6
<1>8. h[start].time \in (h[newest].time - Window - Tolerance)..(h[newest].time - Window)
  <2>1. h[start].time <= h[newest].time - Window
    BY <1>0, <1>5, <1>6
  <2>2. h[newest].time - Window - h[start].time <= Tolerance
    BY <1>0, <1>4, <1>6
  <2> HIDE DEF newest, start, h, cutoff
  <2> QED
    BY <1>0, <1>6, <2>1, <2>2
<1> QED
  BY <1>2, <1>5, <1>7, <1>8

-----------------------------------------------------------------------------
(* What a candidate says                                                   *)

\* The difference of two totals of the hour is at most what was traded between
\* them, and what was traded in a part of a time at most what was in the whole.
LEMMA HourDelta ==
    ASSUME NEW h \in Nat, NEW t \in Nat, NEW u \in Nat, t <= u,
           NEW x \in Nat, NEW y \in Nat, x <= y
    PROVE  Grown(h + x - Left(t), h + y - Left(u)) <= y - x
<1>1. Quiet * t <= Quiet * u /\ Quiet * t \in Nat /\ Quiet * u \in Nat
  <2>1. Quiet \in Nat /\ u - t \in Nat /\ Quiet * (u - t) \in Nat
    BY ConstantTypes
  <2>2. Quiet * u = Quiet * t + Quiet * (u - t)
    BY <2>1
  <2> QED
    BY <2>1, <2>2
<1>2. Left(t) \in Nat /\ Left(u) \in Nat /\ Left(t) <= Left(u)
  <2> DEFINE a == Quiet * t
             b == Quiet * u
  <2>1. a \in Nat /\ b \in Nat /\ a <= b /\ Busy \in Nat /\ BusyAt \in Nat
    BY <1>1, ConstantTypes
  <2>2. Left(t) = a + (IF t >= BusyAt THEN Busy ELSE 0) /\ Left(u) = b + (IF u >= BusyAt THEN Busy ELSE 0)
    BY DEF Left
  <2> HIDE DEF a, b
  <2> QED
    BY <2>1, <2>2
<1> QED
  BY <1>2 DEF Grown

\* A candidate tells a move that happened and, while only the rolling ticker
\* feeds its symbol, a volume that was traded.
LEMMA CandidateTrue ==
    ASSUME NEW s \in Symbol, Judged(s), TypeOK, HistoryTrue, TradedGrows
    PROVE  LET c == Candidate(s)
           IN  /\ c.symbol = s /\ c.at = now /\ c.time \in 1..now
               /\ c.time \in (now - MaxAge)..now
               /\ \E t \in (c.time - Window - Tolerance)..(c.time - Window) :
                     t >= 1 /\ c.change = price[s][c.time] - price[s][t]
               /\ s \notin streamed => c.volume \in 0..TradedSince(c)
<1> DEFINE h == history[s]
           new == h[Newest(h)]
           old == h[Start(h, 1)]
           c == Candidate(s)
<1>1. /\ Newest(h) \in DOMAIN h /\ Start(h, 1) \in DOMAIN h
      /\ new.time \in (now - MaxAge)..now
      /\ old.time \in (new.time - Window - Tolerance)..(new.time - Window)
  BY JudgedOn
<1>2. new \in Samples(now) /\ old \in Samples(now)
  BY <1>1, Typed, ElementOf
<1>3. new.time \in 1..now /\ old.time \in 1..now
  BY <1>2, Typed, SampleTyped
<1>4. new.price = price[s][new.time] /\ old.price = price[s][old.time]
  BY <1>1 DEF HistoryTrue
<1>5. /\ c.symbol = s /\ c.at = now /\ c.time = new.time
      /\ c.change = price[s][new.time] - price[s][old.time]
      /\ c.volume = Grown(old.volume, new.volume)
  BY <1>4 DEF Candidate, Change, VolumeDelta
<1>6. \E t \in (c.time - Window - Tolerance)..(c.time - Window) :
          t >= 1 /\ c.change = price[s][c.time] - price[s][t]
  <2> DEFINE t == old.time
  <2>1. t \in (c.time - Window - Tolerance)..(c.time - Window)
    BY <1>1, <1>5
  <2>2. t >= 1
    BY <1>3, Typed
  <2>3. c.change = price[s][c.time] - price[s][t]
    BY <1>5
  <2> QED
    BY <2>1, <2>2, <2>3
<1>7. ASSUME s \notin streamed PROVE c.volume \in 0..TradedSince(c)
  <2> DEFINE nt == new.time
             ot == old.time
             first == nt - Window - Tolerance
             Sold(t) == traded[s][t]
  <2>1. /\ nt \in Nat /\ ot \in Nat /\ first \in Int /\ ot <= nt
        /\ first <= ot
    <3>1. nt \in Nat /\ ot \in Nat
      <4> HIDE DEF nt, ot
      <4> QED
        BY <1>3, Typed DEF nt, ot
    <3>2. ot \in (nt - Window - Tolerance)..(nt - Window)
      BY <1>1
    <3> HIDE DEF nt, ot
    <3> QED
      BY <3>1, <3>2, ConstantTypes
  <2>2. /\ Sold(nt) \in Nat /\ Sold(ot) \in Nat /\ Sold(ot) <= Sold(nt)
        /\ first >= 1 => Sold(first) \in Nat /\ Sold(first) <= Sold(ot)
    <3>1. \A t \in 1..now : Sold(t) \in Nat
      BY Typed
    <3>2. first >= 1 => first \in 1..now
      BY <2>1, <1>3, Typed
    <3> QED
      BY <1>3, <2>1, <3>1, <3>2 DEF TradedGrows
  <2>3. new.volume = Hour + Sold(nt) - Left(nt) /\ old.volume = Hour + Sold(ot) - Left(ot)
    BY <1>1, <1>7 DEF HistoryTrue, HourTotal
  <2>4. c.volume <= Sold(nt) - Sold(ot)
    <3> HIDE DEF nt, ot, Sold, new, old, c
    <3>1. Grown(Hour + Sold(ot) - Left(ot), Hour + Sold(nt) - Left(nt)) <= Sold(nt) - Sold(ot)
      BY <2>1, <2>2, HourDelta, ConstantTypes
    <3> QED
      BY <1>5, <2>3, <3>1
  <2>5. TradedSince(c) = Sold(nt) - IF first >= 1 THEN Sold(first) ELSE 0
    BY <1>5 DEF TradedSince
  <2>6. c.volume \in Nat
    <3>1. new.volume \in Int /\ old.volume \in Int
      BY <1>2, Typed, SampleTyped
    <3> QED
      BY <1>5, <3>1 DEF Grown
  <2> HIDE DEF first, Sold, c, nt, ot
  <2> QED
    BY <2>1, <2>2, <2>4, <2>5, <2>6
<1> QED
  BY <1>1, <1>3, <1>5, <1>6, <1>7

-----------------------------------------------------------------------------
(* The inductive invariant                                                 *)

LEMMA InitIInv == Init => IInv
<1> SUFFICES ASSUME Init PROVE IInv
  OBVIOUS
<1>1. <<BasePrice>> \in [1..1 -> Nat \ {0}] /\ <<0>> \in [1..1 -> Nat] /\ <<0>>[1] = 0
  BY ConstantTypes
<1>2. TypeOK
  <2>1. now \in 1..(IF Horizon > 1 THEN Horizon ELSE 1)
    BY ConstantTypes DEF Init
  <2>2. /\ price \in [Symbol -> [1..now -> Nat \ {0}]]
        /\ traded \in [Symbol -> [1..now -> Nat]]
    BY <1>1 DEF Init
  <2>3. /\ history \in [Symbol -> Seq([time : 1..now, price : Nat \ {0}, volume : Int])]
        /\ \A s \in Symbol : Len(history[s]) <= HistoryPoints
    BY ConstantTypes DEF Init
  <2>4. /\ heard \in [Symbol -> SUBSET (1..now)] /\ closed \in [Symbol -> SUBSET (1..now)]
        /\ quoted \cup universe \cup streamed \subseteq Symbol
        /\ phase \in {"starting", "due", "sleeping", "ended"}
    BY DEF Init
  <2> QED
    BY <2>1, <2>2, <2>3, <2>4 DEF TypeOK
<1>3. HistoryTrue
  BY DEF Init, HistoryTrue
<1>4. TradedGrows
  BY <1>1 DEF Init, TradedGrows
<1>5. PublishedTyped /\ MoveHappened
  BY DEF Init, PublishedTyped, MoveHappened
<1> QED
  BY <1>2, <1>3, <1>4, <1>5 DEF IInv

LEMMA FunctionOf ==
    ASSUME NEW T, NEW q \in Seq(T)
    PROVE  q \in [1..Len(q) -> T]
OBVIOUS

LEMMA SequenceOf ==
    ASSUME NEW T, NEW n \in Nat, NEW f \in [1..n -> T]
    PROVE  f \in Seq(T) /\ Len(f) = n
OBVIOUS

LEMMA AppendTo ==
    ASSUME NEW T, NEW f \in Seq(T), NEW x \in T
    PROVE  /\ Append(f, x) \in [1..(Len(f) + 1) -> T]
           /\ \A i \in 1..Len(f) : Append(f, x)[i] = f[i]
           /\ Append(f, x)[Len(f) + 1] = x
<1>2. /\ Append(f, x) \in Seq(T) /\ Len(Append(f, x)) = Len(f) + 1
      /\ \A i \in 1..Len(f) : Append(f, x)[i] = f[i]
      /\ Append(f, x)[Len(f) + 1] = x
  OBVIOUS
<1>3. Append(f, x) \in [1..Len(Append(f, x)) -> T]
  BY <1>2, FunctionOf
<1> QED
  BY <1>2, <1>3

\* A new moment leaves the past as it was.
LEMMA TickKeeps == IInv /\ Tick => IInv'
<1> SUFFICES ASSUME IInv, Tick PROVE IInv'
  OBVIOUS
<1>1. /\ now' = now + 1 /\ now < Horizon /\ phase' \in {"due", "sleeping"}
      /\ UNCHANGED <<heard, closed, history, quoted, universe, published, streamed>>
  BY DEF Tick, inputVars, outVars
<1>2. TypeOK /\ now \in Nat \ {0} /\ now \in 1..(now + 1) /\ 1..now \subseteq 1..(now + 1)
  BY Typed DEF IInv
<1>3. PICK swing \in [Symbol -> {0} \cup Swings \cup {-x : x \in Swings}] :
          /\ \A s \in Symbol : price[s][now] + swing[s] > 0
          /\ price' = [s \in Symbol |-> Append(price[s], price[s][now] + swing[s])]
          /\ traded' = [s \in Symbol |-> Append(traded[s],
                            traded[s][now] + IF swing[s] = 0 THEN Calm ELSE Burst)]
  BY DEF Tick
<1> DEFINE sold(s) == traded[s][now] + IF swing[s] = 0 THEN Calm ELSE Burst
           cost(s) == price[s][now] + swing[s]
<1>4. \A s \in Symbol : /\ cost(s) \in Nat \ {0}
                        /\ sold(s) \in Nat /\ sold(s) >= traded[s][now]
  <2> SUFFICES ASSUME NEW s \in Symbol
               PROVE  cost(s) \in Nat \ {0} /\ sold(s) \in Nat /\ sold(s) >= traded[s][now]
    OBVIOUS
  <2>1. price[s][now] \in Nat \ {0} /\ traded[s][now] \in Nat
    BY <1>2, Typed
  <2>2. swing[s] \in Int
    <3>1. swing[s] \in {0} \cup Swings \cup {-x : x \in Swings}
      BY <1>3
    <3>2. CASE swing[s] \in {0} \cup Swings
      <4>1. CASE swing[s] = 0
        BY <4>1
      <4>2. CASE swing[s] \in Swings
        <5>1. Swings \subseteq Nat
          BY ConstantTypes
        <5>2. swing[s] \in Nat
          BY <4>2, <5>1
        <5> QED
          BY <5>2
      <4> QED
        BY <3>2, <4>1, <4>2
    <3>3. CASE swing[s] \in {-x : x \in Swings}
      <4>1. PICK x \in Swings : swing[s] = -x
        BY <3>3
      <4> QED
        BY <4>1, ConstantTypes
    <3> QED
      BY <3>1, <3>2, <3>3
  <2>3. cost(s) > 0
    BY <1>3
  <2> QED
    BY <2>1, <2>2, <2>3, ConstantTypes
<1>5. \A s \in Symbol :
         /\ price'[s] \in [1..now' -> Nat \ {0}] /\ traded'[s] \in [1..now' -> Nat]
         /\ \A t \in 1..now : price'[s][t] = price[s][t] /\ traded'[s][t] = traded[s][t]
         /\ traded'[s][now + 1] = sold(s)
  <2> SUFFICES ASSUME NEW s \in Symbol
               PROVE  /\ price'[s] \in [1..now' -> Nat \ {0}] /\ traded'[s] \in [1..now' -> Nat]
                      /\ \A t \in 1..now :
                            price'[s][t] = price[s][t] /\ traded'[s][t] = traded[s][t]
                      /\ traded'[s][now + 1] = sold(s)
    OBVIOUS
  <2>1. price'[s] = Append(price[s], cost(s)) /\ traded'[s] = Append(traded[s], sold(s))
    BY <1>3
  <2>2. price[s] \in [1..now -> Nat \ {0}] /\ traded[s] \in [1..now -> Nat]
    BY <1>2, Typed
  <2>3. cost(s) \in Nat \ {0} /\ sold(s) \in Nat /\ now \in Nat
    BY <1>2, <1>4
  <2> HIDE DEF cost, sold
  <2>4. /\ price'[s] \in [1..(now + 1) -> Nat \ {0}]
        /\ \A t \in 1..now : price'[s][t] = price[s][t]
    <3> DEFINE T == Nat \ {0}
               f == price[s]
               x == cost(s)
    <3>1. f \in Seq(T) /\ Len(f) = now /\ x \in T
      BY <2>2, <2>3, SequenceOf
    <3> HIDE DEF T, f, x
    <3>2. /\ Append(f, x) \in [1..(now + 1) -> T]
          /\ \A i \in 1..now : Append(f, x)[i] = f[i]
      BY <3>1, AppendTo
    <3> QED
      BY <2>1, <3>2 DEF T, f, x
  <2>5. /\ traded'[s] \in [1..(now + 1) -> Nat]
        /\ \A t \in 1..now : traded'[s][t] = traded[s][t]
        /\ traded'[s][now + 1] = sold(s)
    <3> DEFINE T == Nat
               f == traded[s]
               x == sold(s)
    <3>1. f \in Seq(T) /\ Len(f) = now /\ x \in T
      BY <2>2, <2>3, SequenceOf
    <3> HIDE DEF T, f, x
    <3>2. /\ Append(f, x) \in [1..(now + 1) -> T]
          /\ \A i \in 1..now : Append(f, x)[i] = f[i]
      BY <3>1, AppendTo
    <3>3. Append(f, x)[now + 1] = x
      BY <3>1, AppendTo
    <3> QED
      BY <2>1, <3>2, <3>3 DEF T, f, x
  <2> QED
    BY <1>1, <2>4, <2>5
<1>6. TypeOK'
  <2>1. now' \in 1..(IF Horizon > 1 THEN Horizon ELSE 1)
    BY <1>1, <1>2, ConstantTypes
  <2>2. DOMAIN price' = Symbol /\ DOMAIN traded' = Symbol
    BY <1>3
  <2>3. /\ price' \in [Symbol -> [1..now' -> Nat \ {0}]]
        /\ traded' \in [Symbol -> [1..now' -> Nat]]
    BY <1>3, <1>5
  <2>4. history \in [Symbol -> Seq([time : 1..(now + 1), price : Nat \ {0}, volume : Int])]
    <3>1. Samples(now) \subseteq Samples(now + 1)
      BY <1>2 DEF Samples
    <3>2. history \in [Symbol -> Seq(Samples(now + 1))]
      <4>1. \A q \in Seq(Samples(now)) : q \in Seq(Samples(now + 1))
        BY <3>1
      <4> QED
        BY <1>2, <4>1, Typed
    <3> QED
      BY <3>2 DEF Samples
  <2>5. heard \in [Symbol -> SUBSET (1..(now + 1))] /\ closed \in [Symbol -> SUBSET (1..(now + 1))]
    BY <1>2 DEF TypeOK
  <2> QED
    BY <1>1, <1>2, <2>1, <2>3, <2>4, <2>5 DEF TypeOK
<1>7. \A s \in Symbol : \A i \in DOMAIN history[s] : history[s][i].time \in 1..now
  BY <1>2, Typed, ElementOf, SampleTyped
<1>8. HistoryTrue'
  <2> SUFFICES ASSUME NEW s \in Symbol, NEW i \in DOMAIN history[s]
               PROVE  LET sample == history[s][i]
                      IN  /\ sample.price = price'[s][sample.time]
                          /\ s \notin streamed => sample.volume = HourTotal(s, sample.time)'
    BY <1>1 DEF HistoryTrue
  <2> DEFINE sample == history[s][i]
  <2>1. sample.time \in 1..now
    BY <1>7
  <2>2. /\ sample.price = price[s][sample.time]
        /\ s \notin streamed => sample.volume = HourTotal(s, sample.time)
    BY DEF IInv, HistoryTrue
  <2>3. /\ price'[s][sample.time] = price[s][sample.time]
        /\ traded'[s][sample.time] = traded[s][sample.time]
    BY <1>5, <2>1
  <2> QED
    BY <2>2, <2>3, <1>1 DEF HourTotal
<1>9. TradedGrows'
  <2> SUFFICES ASSUME NEW s \in Symbol, NEW t \in 1..(now + 1), NEW u \in 1..(now + 1), t <= u
               PROVE  traded'[s][t] <= traded'[s][u]
    BY <1>1 DEF TradedGrows
  <2>1. CASE u \in 1..now
    <3>1. t \in 1..now
      BY <2>1, <1>2
    <3> QED
      BY <2>1, <3>1, <1>5 DEF IInv, TradedGrows
  <2>2. CASE u = now + 1 /\ t \in 1..now
    <3>1. traded[s][t] <= traded[s][now]
      BY <2>2, <1>2 DEF IInv, TradedGrows
    <3>2. traded'[s][t] = traded[s][t] /\ traded'[s][u] = sold(s)
      BY <2>2, <1>5
    <3>3. traded[s][t] \in Nat /\ traded[s][now] \in Nat /\ sold(s) \in Nat /\ sold(s) >= traded[s][now]
      BY <2>2, <1>2, <1>4, Typed
    <3> HIDE DEF sold
    <3> QED
      BY <3>1, <3>2, <3>3
  <2>3. CASE u = now + 1 /\ t = now + 1
    <3>1. traded'[s][t] \in Nat
      BY <1>5, <1>1
    <3> QED
      BY <2>3, <3>1
  <2>4. (u \in 1..now \/ u = now + 1) /\ (t \in 1..now \/ t = now + 1)
    BY <1>2
  <2> QED
    BY <2>1, <2>2, <2>3, <2>4
<1>10. PublishedTyped'
  BY <1>1, <1>2 DEF IInv, PublishedTyped
<1>11. MoveHappened'
  <2> SUFFICES ASSUME NEW c \in published
               PROVE  /\ c.time \in (c.at - MaxAge)..c.at
                      /\ \E t \in (c.time - Window - Tolerance)..(c.time - Window) :
                            t >= 1 /\ c.change = price'[c.symbol][c.time] - price'[c.symbol][t]
    BY <1>1 DEF MoveHappened
  <2>1. c.symbol \in Symbol /\ c.time \in 1..now
    BY DEF IInv, PublishedTyped
  <2>2. PICK t \in (c.time - Window - Tolerance)..(c.time - Window) :
            t >= 1 /\ c.change = price[c.symbol][c.time] - price[c.symbol][t]
    BY DEF IInv, MoveHappened
  <2>3. t \in 1..now
    BY <1>2, <2>1, <2>2, ConstantTypes
  <2>4. c.change = price'[c.symbol][c.time] - price'[c.symbol][t]
    BY <1>5, <2>1, <2>2, <2>3
  <2> QED
    BY <2>2, <2>4 DEF IInv, MoveHappened
<1> QED
  BY <1>6, <1>8, <1>9, <1>10, <1>11 DEF IInv

\* A history that takes a true sample stays true.
LEMMA PutKeeps ==
    ASSUME TypeOK, HistoryTrue, NEW s \in Symbol, NEW t \in 1..now, NEW v \in Int,
           s \notin streamed => v = HourTotal(s, t)
    PROVE  LET queue == Put(history[s], Sample(s, t, v))
           IN  /\ queue \in Seq(Samples(now)) /\ Len(queue) <= HistoryPoints
               /\ \A i \in DOMAIN queue :
                     /\ queue[i].price = price[s][queue[i].time]
                     /\ s \notin streamed => queue[i].volume = HourTotal(s, queue[i].time)
<1> DEFINE sample == Sample(s, t, v)
           queue == Put(history[s], sample)
           IsTrue(r) == /\ r.price = price[s][r.time]
                        /\ s \notin streamed => r.volume = HourTotal(s, r.time)
<1>1. price[s][t] \in Nat \ {0}
  BY Typed
<1>2. sample \in Samples(now)
  BY <1>1 DEF Sample, Samples
<1>3. IsTrue(sample)
  BY DEF Sample
<1>4. history[s] \in Seq(Samples(now)) /\ Len(history[s]) <= HistoryPoints
  BY Typed
<1>5. \A j \in DOMAIN history[s] : IsTrue(history[s][j])
  BY DEF HistoryTrue
<1> HIDE DEF sample, IsTrue
<1>6. /\ queue \in Seq(Samples(now)) /\ Len(queue) <= HistoryPoints
      /\ \A i \in DOMAIN queue :
            queue[i] = sample \/ \E j \in DOMAIN history[s] : queue[i] = history[s][j]
  BY <1>2, <1>4, PutHolds
<1>7. \A i \in DOMAIN queue : IsTrue(queue[i])
  BY <1>3, <1>5, <1>6
<1> QED
  BY <1>6, <1>7 DEF IsTrue, sample

LEMMA HandlersKeep ==
    ASSUME IInv, UNCHANGED <<phase, truthVars, outVars>>,
           heard' \in [Symbol -> SUBSET (1..now)], closed' \in [Symbol -> SUBSET (1..now)],
           quoted' \subseteq Symbol, DOMAIN history' = Symbol,
           history' = [s \in Symbol |-> history'[s]],
           \A s \in Symbol :
              \/ history'[s] = history[s]
              \/ \E t \in 1..now, v \in Int :
                    /\ s \notin streamed => v = HourTotal(s, t)
                    /\ history'[s] = Put(history[s], Sample(s, t, v))
    PROVE  IInv'
<1>0. UNCHANGED <<phase, now, price, traded, universe, published, streamed>>
  BY DEF truthVars, outVars
<1>1. TypeOK /\ HistoryTrue
  BY DEF IInv
<1>2. \A s \in Symbol :
         /\ history'[s] \in Seq(Samples(now)) /\ Len(history'[s]) <= HistoryPoints
         /\ \A i \in DOMAIN history'[s] :
               LET sample == history'[s][i]
               IN  /\ sample.price = price[s][sample.time]
                   /\ s \notin streamed => sample.volume = HourTotal(s, sample.time)
  <2> SUFFICES ASSUME NEW s \in Symbol
               PROVE  /\ history'[s] \in Seq(Samples(now)) /\ Len(history'[s]) <= HistoryPoints
                      /\ \A i \in DOMAIN history'[s] :
                            LET sample == history'[s][i]
                            IN  /\ sample.price = price[s][sample.time]
                                /\ s \notin streamed => sample.volume = HourTotal(s, sample.time)
    OBVIOUS
  <2>1. CASE history'[s] = history[s]
    BY <1>1, <2>1, Typed DEF HistoryTrue
  <2>2. CASE history'[s] # history[s]
    <3>1. PICK t \in 1..now, v \in Int :
              /\ s \notin streamed => v = HourTotal(s, t)
              /\ history'[s] = Put(history[s], Sample(s, t, v))
      BY <2>2
    <3> DEFINE queue == Put(history[s], Sample(s, t, v))
    <3>2. /\ queue \in Seq(Samples(now)) /\ Len(queue) <= HistoryPoints
          /\ \A i \in DOMAIN queue :
                /\ queue[i].price = price[s][queue[i].time]
                /\ s \notin streamed => queue[i].volume = HourTotal(s, queue[i].time)
      BY <1>1, <3>1, PutKeeps
    <3> HIDE DEF queue
    <3>3. history'[s] = queue
      BY <3>1 DEF queue
    <3> QED
      BY <3>2, <3>3
  <2> QED
    BY <2>1, <2>2
<1>3. history' \in [Symbol -> Seq([time : 1..now, price : Nat \ {0}, volume : Int])]
  BY <1>2 DEF Samples
<1>4. TypeOK'
  BY <1>0, <1>1, <1>2, <1>3 DEF TypeOK
<1>5. HistoryTrue'
  BY <1>0, <1>2 DEF HistoryTrue, HourTotal
<1>6. TradedGrows' /\ PublishedTyped' /\ MoveHappened'
  BY <1>0 DEF IInv, TradedGrows, PublishedTyped, MoveHappened
<1> QED
  BY <1>4, <1>5, <1>6 DEF IInv

LEMMA HourTotalTyped ==
    ASSUME TypeOK, NEW s \in Symbol
    PROVE  HourTotal(s, now) \in Int
<1>1. now \in 1..now /\ traded[s][now] \in Nat
  BY Typed
<1>2. Left(now) \in Int
  <2>1. now \in Nat /\ Quiet \in Nat /\ Busy \in Nat
    BY Typed, ConstantTypes
  <2> QED
    BY <2>1 DEF Left
<1>3. Hour \in Nat
  BY ConstantTypes
<1> QED
  BY <1>1, <1>2, <1>3 DEF HourTotal

LEMMA RollingTickerKeeps ==
    ASSUME IInv, NEW items \in SUBSET Symbol, RollingTicker(items)
    PROVE  IInv'
<1>1. /\ UNCHANGED <<phase, truthVars, closed, quoted, outVars>>
      /\ heard' = [s \in Symbol |-> IF s \in items THEN heard[s] \cup {now} ELSE heard[s]]
      /\ history' = [s \in Symbol |->
                        IF s \in items /\ Accepted(s)
                        THEN Put(history[s], Sample(s, now, HourTotal(s, now)))
                        ELSE history[s]]
  BY DEF RollingTicker
<1>2. TypeOK /\ now \in 1..now
  BY Typed DEF IInv
<1>3. \A s \in Symbol : HourTotal(s, now) \in Int
  BY <1>2, HourTotalTyped
<1>4. \A s \in Symbol :
         \/ history'[s] = history[s]
         \/ \E t \in 1..now, v \in Int :
               /\ s \notin streamed => v = HourTotal(s, t)
               /\ history'[s] = Put(history[s], Sample(s, t, v))
  BY <1>1, <1>2, <1>3
<1>5. /\ heard' \in [Symbol -> SUBSET (1..now)] /\ closed' \in [Symbol -> SUBSET (1..now)]
      /\ quoted' \subseteq Symbol
  BY <1>1, <1>2 DEF TypeOK
<1>6. DOMAIN history' = Symbol /\ history' = [s \in Symbol |-> history'[s]]
  BY <1>1
<1>7. UNCHANGED <<phase, truthVars, outVars>>
  BY <1>1
<1> QED
  BY <1>4, <1>5, <1>6, <1>7, HandlersKeep

LEMMA KlineVolumeTyped ==
    ASSUME TypeOK, NEW s \in Symbol, NEW t \in 1..now
    PROVE  KlineVolume(s, t) \in Int
<1>1. /\ traded[s] \in [1..now -> Nat] /\ now \in Nat
      /\ Calm \in Nat /\ KlineEvery \in Nat
  BY Typed, ConstantTypes, ScannerAssumption
<1>2. \A u \in Int : u <= now => (IF u >= 1 THEN traded[s][u] ELSE Calm * (u - 1)) \in Int
  <2> SUFFICES ASSUME NEW u \in Int, u <= now
               PROVE  (IF u >= 1 THEN traded[s][u] ELSE Calm * (u - 1)) \in Int
    OBVIOUS
  <2>1. CASE u >= 1
    BY <1>1, <2>1
  <2>2. CASE ~(u >= 1)
    BY <1>1, <2>2
  <2> QED
    BY <2>1, <2>2
<1>3. t \in Int /\ t <= now /\ t - KlineEvery \in Int /\ t - KlineEvery <= now
  BY <1>1
<1> QED
  BY <1>2, <1>3 DEF KlineVolume

LEMMA ClosedKlineKeeps ==
    ASSUME IInv, NEW s \in Symbol, NEW t \in (now - KlineDelay)..now, ClosedKline(s, t)
    PROVE  IInv'
<1>1. /\ UNCHANGED <<phase, truthVars, heard, quoted, outVars>>
      /\ closed' = [closed EXCEPT ![s] = @ \cup {t}]
      /\ history' = IF Accepted(s)
                    THEN [history EXCEPT ![s] = Put(@, Sample(s, t, KlineVolume(s, t)))]
                    ELSE history
      /\ s \in streamed /\ t >= 1
  BY DEF ClosedKline
<1>2. TypeOK /\ t \in 1..now
  BY <1>1, Typed, ConstantTypes DEF IInv
<1>3. KlineVolume(s, t) \in Int
  BY <1>2, KlineVolumeTyped
<1>4. history \in [Symbol -> Seq(Samples(now))]
  BY <1>2, Typed
<1>5. \A r \in Symbol :
         \/ history'[r] = history[r]
         \/ \E u \in 1..now, v \in Int :
               /\ r \notin streamed => v = HourTotal(r, u)
               /\ history'[r] = Put(history[r], Sample(r, u, v))
  <2> SUFFICES ASSUME NEW r \in Symbol, history'[r] # history[r]
               PROVE  \E u \in 1..now, v \in Int :
                         /\ r \notin streamed => v = HourTotal(r, u)
                         /\ history'[r] = Put(history[r], Sample(r, u, v))
    OBVIOUS
  <2>1. r = s /\ history'[r] = Put(history[r], Sample(s, t, KlineVolume(s, t)))
    BY <1>1, <1>4
  <2> QED
    BY <1>1, <1>2, <1>3, <2>1
<1>6. /\ heard' \in [Symbol -> SUBSET (1..now)] /\ closed' \in [Symbol -> SUBSET (1..now)]
      /\ quoted' \subseteq Symbol
  BY <1>1, <1>2 DEF TypeOK
<1>7. DOMAIN history' = Symbol /\ history' = [r \in Symbol |-> history'[r]]
  BY <1>1, <1>4
<1>8. UNCHANGED <<phase, truthVars, outVars>>
  BY <1>1
<1> QED
  BY <1>5, <1>6, <1>7, <1>8, HandlersKeep

LEMMA BookTickerKeeps ==
    ASSUME IInv, NEW s \in Symbol, BookTicker(s)
    PROVE  IInv'
<1>1. /\ UNCHANGED <<phase, truthVars, heard, closed, history, outVars>>
      /\ quoted' \in {quoted \cup {s}, quoted \ {s}}
  BY DEF BookTicker
<1>2. TypeOK
  BY DEF IInv
<1>3. /\ heard' \in [Symbol -> SUBSET (1..now)] /\ closed' \in [Symbol -> SUBSET (1..now)]
      /\ quoted' \subseteq Symbol
  BY <1>1, <1>2 DEF TypeOK
<1>4. DOMAIN history' = Symbol /\ history' = [r \in Symbol |-> history'[r]]
  BY <1>1, <1>2, Typed
<1>5. \A r \in Symbol : history'[r] = history[r]
  BY <1>1
<1>6. UNCHANGED <<phase, truthVars, outVars>>
  BY <1>1
<1> QED
  BY <1>3, <1>4, <1>5, <1>6, HandlersKeep

LEMMA BootstrapKeeps ==
    ASSUME IInv, Bootstrap
    PROVE  IInv'
<1>1. /\ UNCHANGED <<truthVars, inputVars, published, streamed>>
      /\ phase' \in {"due", "ended"}
      /\ \/ universe' = universe
         \/ \E listing \in [Symbol -> Metadata], volumes \in Volumes :
               universe' = Selected(listing, volumes)
  BY DEF Bootstrap
<1>2. UNCHANGED <<now, price, traded, heard, closed, history, quoted, published, streamed>>
  BY <1>1 DEF truthVars, inputVars
<1>3. universe' \subseteq Symbol
  <2>1. CASE universe' = universe
    BY <2>1 DEF IInv, TypeOK
  <2>2. CASE universe' # universe
    <3>1. PICK listing \in [Symbol -> Metadata], volumes \in Volumes :
              universe' = Selected(listing, volumes)
      BY <1>1, <2>2
    <3>2. DOMAIN listing = Symbol
      OBVIOUS
    <3> QED
      BY <3>1, <3>2 DEF Selected, Filtered
  <2> QED
    BY <2>1, <2>2
<1>4. TypeOK'
  BY <1>1, <1>2, <1>3 DEF IInv, TypeOK
<1>5. HistoryTrue' /\ TradedGrows'
  BY <1>2 DEF IInv, HistoryTrue, HourTotal, TradedGrows
<1>6. PublishedTyped' /\ MoveHappened'
  BY <1>2 DEF IInv, PublishedTyped, MoveHappened
<1> QED
  BY <1>4, <1>5, <1>6 DEF IInv

\* What an evaluation publishes are candidates of judged symbols.
LEMMA EvaluateOutput ==
    ASSUME IInv, Evaluate
    PROVE  /\ UNCHANGED <<now, price, traded, heard, closed, history, quoted, universe>>
           /\ phase' \in {"sleeping", "ended"}
           /\ streamed \subseteq streamed' /\ streamed' \subseteq Symbol
           /\ \A c \in published' : \E s \in Symbol : Judged(s) /\ c = Candidate(s)
<1>1. UNCHANGED <<now, price, traded, heard, closed, history, quoted, universe>>
  BY DEF Evaluate, truthVars, inputVars
<1>2. \E ranked :
         /\ ranked \subseteq {s \in universe : Judged(s)}
         /\ published' = {Candidate(s) : s \in ranked}
         /\ \/ phase' = "sleeping" /\ streamed' = streamed \cup Permanent \cup ranked
            \/ phase' = "ended" /\ streamed' = streamed
  <2> DEFINE judged == {s \in universe : Judged(s)}
             possible == {s \in judged : Cardinality(Reasons(history[s])
                                             \cup OtherReasons(history[s])) >= 3}
  <2>1. PICK hot \in SUBSET possible : \E score \in [hot -> Score] :
           /\ published' = {Candidate(s) : s \in First(hot, score, MaxDynamic)}
           /\ \/ /\ phase' = "sleeping"
                 /\ streamed' = streamed \cup Permanent \cup First(hot, score, MaxDynamic)
              \/ phase' = "ended" /\ streamed' = streamed
    BY DEF Evaluate
  <2>2. PICK score \in [hot -> Score] :
           /\ published' = {Candidate(s) : s \in First(hot, score, MaxDynamic)}
           /\ \/ /\ phase' = "sleeping"
                 /\ streamed' = streamed \cup Permanent \cup First(hot, score, MaxDynamic)
              \/ phase' = "ended" /\ streamed' = streamed
    BY <2>1
  <2>3. First(hot, score, MaxDynamic) \subseteq judged
    BY DEF First
  <2> HIDE DEF judged
  <2> QED
    BY <2>2, <2>3 DEF judged
<1>3. PICK ranked :
         /\ ranked \subseteq {s \in universe : Judged(s)}
         /\ published' = {Candidate(s) : s \in ranked}
         /\ \/ phase' = "sleeping" /\ streamed' = streamed \cup Permanent \cup ranked
            \/ phase' = "ended" /\ streamed' = streamed
  BY <1>2
<1>4. ranked \subseteq Symbol /\ \A s \in ranked : Judged(s)
  BY <1>3 DEF IInv, TypeOK
<1>5. streamed \subseteq streamed' /\ streamed' \subseteq Symbol
  BY <1>3, <1>4, ConstantTypes DEF IInv, TypeOK
<1>6. \A c \in published' : \E s \in Symbol : Judged(s) /\ c = Candidate(s)
  BY <1>3, <1>4
<1> QED
  BY <1>1, <1>3, <1>5, <1>6

LEMMA EvaluateKeeps ==
    ASSUME IInv, Evaluate
    PROVE  IInv'
<1>1. /\ UNCHANGED <<now, price, traded, heard, closed, history, quoted, universe>>
      /\ phase' \in {"sleeping", "ended"}
      /\ streamed \subseteq streamed' /\ streamed' \subseteq Symbol
      /\ \A c \in published' : \E s \in Symbol : Judged(s) /\ c = Candidate(s)
  BY EvaluateOutput
<1>2. TypeOK'
  BY <1>1 DEF IInv, TypeOK
<1>3. HistoryTrue' /\ TradedGrows'
  BY <1>1 DEF IInv, HistoryTrue, HourTotal, TradedGrows
<1>4. ASSUME NEW c \in published'
      PROVE  /\ c.symbol \in Symbol /\ c.at = now /\ c.at \in 1..now /\ c.time \in 1..now
             /\ c.time \in (c.at - MaxAge)..c.at
             /\ \E t \in (c.time - Window - Tolerance)..(c.time - Window) :
                   t >= 1 /\ c.change = price[c.symbol][c.time] - price[c.symbol][t]
  <2>1. PICK s \in Symbol : Judged(s) /\ c = Candidate(s)
    BY <1>1
  <2>2. TypeOK /\ HistoryTrue /\ TradedGrows /\ now \in 1..now
    BY Typed DEF IInv
  <2>3. /\ c.symbol = s /\ c.at = now /\ c.time \in 1..now
        /\ c.time \in (now - MaxAge)..now
        /\ \E t \in (c.time - Window - Tolerance)..(c.time - Window) :
              t >= 1 /\ c.change = price[s][c.time] - price[s][t]
    BY <2>1, <2>2, CandidateTrue
  <2> QED
    BY <2>2, <2>3
<1>5. PublishedTyped'
  BY <1>1, <1>4 DEF PublishedTyped
<1>6. MoveHappened'
  BY <1>1, <1>4 DEF MoveHappened
<1> QED
  BY <1>2, <1>3, <1>5, <1>6 DEF IInv

LEMMA NextIInv == IInv /\ [Next]_vars => IInv'
<1> SUFFICES ASSUME IInv, [Next]_vars PROVE IInv'
  OBVIOUS
<1>1. CASE Tick
  BY <1>1, TickKeeps
<1>2. CASE Stream
  <2>1. ASSUME NEW items \in SUBSET Symbol, RollingTicker(items) PROVE IInv'
    BY <2>1, RollingTickerKeeps
  <2>2. ASSUME NEW s \in Symbol, BookTicker(s) PROVE IInv'
    BY <2>2, BookTickerKeeps
  <2>3. ASSUME NEW s \in Symbol, NEW t \in (now - KlineDelay)..now, ClosedKline(s, t)
        PROVE  IInv'
    BY <2>3, ClosedKlineKeeps
  <2> QED
    BY <1>2, <2>1, <2>2, <2>3 DEF Stream
<1>3. CASE Bootstrap
  BY <1>3, BootstrapKeeps
<1>4. CASE Evaluate
  BY <1>4, EvaluateKeeps
<1>5. CASE UNCHANGED vars
  <2>1. UNCHANGED <<phase, now, price, traded, heard, closed, history, quoted,
                    universe, published, streamed>>
    BY <1>5 DEF vars, truthVars, inputVars, outVars
  <2> QED
    BY <2>1 DEF IInv, TypeOK, HistoryTrue, HourTotal, TradedGrows, PublishedTyped,
                MoveHappened
<1> QED
  BY <1>1, <1>2, <1>3, <1>4, <1>5 DEF Next

\* Histories hold what was true, whatever messages were lost or came late, and
\* so does all that Stage 1 publishes.
THEOREM InductiveInvariant == Spec => []IInv
<1> QED
  BY InitIInv, NextIInv, PTL DEF Spec

-----------------------------------------------------------------------------
(* The properties                                                          *)

\* Every variable keeps its type, and no history exceeds its deque's limit.
THEOREM TypeCorrect == Spec => []TypeOK
<1>1. IInv => TypeOK
  BY DEF IInv
<1> QED
  BY <1>1, InductiveInvariant, PTL

\* What a candidate says of the price happened, whatever was lost, came late or
\* came from two streams.
THEOREM MovesAreReal == Spec => []MoveHappened
<1>1. IInv => MoveHappened
  BY DEF IInv
<1> QED
  BY <1>1, InductiveInvariant, PTL

\* While only the rolling ticker feeds a symbol, the volume its candidate claims
\* was traded within the last window and the tolerance.
THEOREM VolumeIsTraded == Spec => VolumeWasTraded
<1> DEFINE Told == \A c \in published' \ published :
                      c.symbol \notin streamed => c.volume \in 0..TradedSince(c)
<1>1. IInv /\ [Next]_vars => [Told]_vars
  <2> SUFFICES ASSUME IInv, Next, NEW c \in published' \ published, c.symbol \notin streamed
               PROVE  c.volume \in 0..TradedSince(c)
    OBVIOUS
  <2>1. Tick \/ Stream \/ Bootstrap => published' = published
    BY DEF Tick, Stream, Bootstrap, RollingTicker, BookTicker, ClosedKline, outVars
  <2>2. Evaluate
    BY <2>1 DEF Next
  <2>3. PICK s \in Symbol : Judged(s) /\ c = Candidate(s)
    BY <2>2, EvaluateOutput
  <2>4. TypeOK /\ HistoryTrue /\ TradedGrows
    BY DEF IInv
  <2>5. c.symbol = s /\ (s \notin streamed => c.volume \in 0..TradedSince(c))
    BY <2>3, <2>4, CandidateTrue
  <2> QED
    BY <2>5
<1>2. Spec => [][Told]_vars
  <2> HIDE DEF Told
  <2> QED
    BY <1>1, InductiveInvariant, PTL DEF Spec
<1> QED
  BY <1>2 DEF VolumeWasTraded

-----------------------------------------------------------------------------
(* What a history remembers                                                *)

\* A sample that is not too far back stays when another is put in.
LEMMA PutRemembers ==
    ASSUME NEW T, NEW queue \in Seq(T), NEW sample \in T, Len(queue) <= HistoryPoints
    PROVE  LET longer == Put(queue, sample)
           IN  /\ Len(longer) \in DOMAIN longer /\ longer[Len(longer)] = sample
               /\ \A i \in DOMAIN queue, n \in Nat :
                     Len(queue) - i <= n /\ n + 1 < HistoryPoints =>
                        \E j \in DOMAIN longer :
                            longer[j] = queue[i] /\ Len(longer) - j <= n + 1
<1>0. HistoryPoints \in Nat \ {0}
  BY ScannerAssumption
<1>1. CASE Len(queue) < HistoryPoints
  <2> DEFINE longer == Append(queue, sample)
  <2>1. Put(queue, sample) = longer
    BY <1>1 DEF Put
  <2>2. /\ Len(longer) = Len(queue) + 1 /\ DOMAIN longer = 1..Len(longer)
        /\ longer[Len(longer)] = sample
        /\ Len(queue) \in Nat /\ DOMAIN queue = 1..Len(queue)
        /\ \A i \in 1..Len(queue) : longer[i] = queue[i]
    OBVIOUS
  <2> HIDE DEF longer
  <2>3. ASSUME NEW i \in DOMAIN queue, NEW n \in Nat, Len(queue) - i <= n
        PROVE  i \in DOMAIN longer /\ longer[i] = queue[i] /\ Len(longer) - i <= n + 1
    BY <2>2, <2>3
  <2> QED
    BY <2>1, <2>2, <2>3
<1>2. CASE ~(Len(queue) < HistoryPoints)
  <2> DEFINE longer == Append(Tail(queue), sample)
  <2>1. Put(queue, sample) = longer
    BY <1>2 DEF Put
  <2>2. queue # <<>> /\ Len(queue) = HistoryPoints
    BY <1>0, <1>2
  <2>3. /\ Tail(queue) \in Seq(T) /\ Len(Tail(queue)) = Len(queue) - 1
        /\ \A i \in 1..(Len(queue) - 1) : Tail(queue)[i] = queue[i + 1]
    BY <2>2
  <2>4. /\ Len(longer) = Len(queue) /\ DOMAIN longer = 1..Len(longer)
        /\ longer[Len(longer)] = sample
        /\ Len(queue) \in Nat \ {0} /\ DOMAIN queue = 1..Len(queue)
        /\ \A i \in 1..(Len(queue) - 1) : longer[i] = queue[i + 1]
    BY <1>0, <2>2, <2>3
  <2> HIDE DEF longer
  <2>5. ASSUME NEW i \in DOMAIN queue, NEW n \in Nat, Len(queue) - i <= n, n + 1 < HistoryPoints
        PROVE  /\ i - 1 \in DOMAIN longer /\ longer[i - 1] = queue[i]
               /\ Len(longer) - (i - 1) <= n + 1
    <3>1. i \in Int /\ i > 1 /\ i <= Len(queue)
      BY <1>0, <2>2, <2>4, <2>5
    <3>2. i - 1 \in 1..(Len(queue) - 1)
      BY <3>1, <2>4
    <3>3. longer[i - 1] = queue[(i - 1) + 1] /\ (i - 1) + 1 = i
      BY <3>1, <3>2, <2>4
    <3> QED
      BY <3>1, <3>2, <3>3, <2>4, <2>5
  <2> QED
    BY <2>1, <2>4, <2>5
<1> QED
  BY <1>1, <1>2

\* A set that takes one more element counts one more.
LEMMA CountMore ==
    ASSUME NEW S, IsFiniteSet(S), NEW x, x \notin S
    PROVE  /\ IsFiniteSet(S \cup {x}) /\ Cardinality(S) \in Nat
           /\ Cardinality(S \cup {x}) = Cardinality(S) + 1
BY FS_AddElement, FS_CardinalityType

LEMMA SinceTyped ==
    ASSUME TypeOK, NEW s \in Symbol, NEW t
    PROVE  /\ IsFiniteSet({u \in heard[s] : u > t})
           /\ IsFiniteSet({u \in closed[s] : u >= t - KlineDelay})
           /\ IsFiniteSet(heard[s]) /\ IsFiniteSet(closed[s])
           /\ Cardinality({u \in heard[s] : u > t}) \in Nat
           /\ Cardinality({u \in closed[s] : u >= t - KlineDelay}) \in Nat
           /\ Since(s, t) \in Nat
<1>1. now \in Int /\ IsFiniteSet(1..now)
  BY Typed, FS_Interval
<1>2. heard[s] \in SUBSET (1..now) /\ closed[s] \in SUBSET (1..now)
  BY DEF TypeOK
<1>3. \A S \in SUBSET (1..now) : IsFiniteSet(S) /\ Cardinality(S) \in Nat
  BY <1>1, FS_Subset, FS_CardinalityType
<1>4. /\ {u \in heard[s] : u > t} \in SUBSET (1..now)
      /\ {u \in closed[s] : u >= t - KlineDelay} \in SUBSET (1..now)
  BY <1>2
<1> QED
  BY <1>2, <1>3, <1>4 DEF Since

LEMMA InitRInv == Init => RInv
<1> SUFFICES ASSUME Init PROVE RInv
  OBVIOUS
<1> QED
  BY DEF Init, RInv, TickersRemembered, Apart

\* A message leaves behind what is remembered, whichever feed it is of.
LEMMA RollingTickerRemembers ==
    ASSUME IInv, RInv, NEW items \in SUBSET Symbol, RollingTicker(items)
    PROVE  RInv'
<1>1. /\ UNCHANGED <<phase, now, closed, universe>> /\ phase # "starting"
      /\ \A s \in items : now \notin heard[s]
      /\ \A s \in Symbol : heard'[s] = IF s \in items THEN heard[s] \cup {now} ELSE heard[s]
      /\ \A s \in Symbol :
            history'[s] = IF s \in items /\ Accepted(s)
                          THEN Put(history[s], Sample(s, now, HourTotal(s, now)))
                          ELSE history[s]
  BY DEF RollingTicker, Live, outVars, truthVars
<1>2. TypeOK /\ universe \subseteq Symbol /\ now \in Nat \ {0}
  BY Typed DEF IInv
<1>3. ASSUME NEW s \in universe, NEW t \in heard'[s], Since(s, t)' < HistoryPoints
      PROVE  \E i \in DOMAIN history'[s] :
                history'[s][i].time = t /\ Len(history'[s]) - i <= Since(s, t)'
  <2>1. s \in Symbol
    BY <1>2
  <2>2. CASE s \notin items
    <3>1. heard'[s] = heard[s] /\ closed' = closed /\ history'[s] = history[s]
      BY <1>1, <2>1, <2>2
    <3>2. Since(s, t)' = Since(s, t)
      BY <3>1 DEF Since
    <3> QED
      BY <1>3, <3>1, <3>2 DEF RInv, TickersRemembered
  <2>3. CASE s \in items
    <3> DEFINE h == history[s]
               new == Sample(s, now, HourTotal(s, now))
               longer == Put(h, new)
    <3>1. history'[s] = longer /\ heard'[s] = heard[s] \cup {now} /\ now \notin heard[s]
      BY <1>1, <2>1, <2>3 DEF Accepted
    <3>2. h \in Seq(Samples(now)) /\ Len(h) <= HistoryPoints /\ new \in Samples(now)
      <4>1. /\ price \in [Symbol -> [1..now -> Nat \ {0}]] /\ now \in 1..now
            /\ h \in Seq(Samples(now)) /\ Len(h) <= HistoryPoints
        BY <1>2, <2>1, Typed
      <4>2. price[s][now] \in Nat \ {0}
        BY <2>1, <4>1
      <4>3. HourTotal(s, now) \in Int
        BY <1>2, <2>1, HourTotalTyped
      <4>4. new \in Samples(now)
        BY <4>1, <4>2, <4>3 DEF Sample, Samples
      <4> QED
        BY <4>1, <4>4
    <3>3. /\ Len(longer) \in DOMAIN longer /\ longer[Len(longer)] = new
          /\ \A i \in DOMAIN h, n \in Nat :
                Len(h) - i <= n /\ n + 1 < HistoryPoints =>
                   \E j \in DOMAIN longer : longer[j] = h[i] /\ Len(longer) - j <= n + 1
      BY <3>2, PutRemembers
    <3>4. Len(longer) \in Nat
      BY <3>2, PutHolds
    <3>5. CASE t = now
      <4>1. Since(s, t)' \in Nat
        <5>1. /\ {u \in heard'[s] : u > t} = {u \in heard[s] : u > t} 
          BY <3>1, <3>5, <1>2
        <5>2. Since(s, t)' = Since(s, t)
          BY <1>1, <5>1 DEF Since
        <5> QED
          BY <5>2, <1>2, <2>1, SinceTyped
      <4>2. new.time = t
        BY <3>5 DEF Sample
      <4>3. Len(longer) - Len(longer) <= Since(s, t)'
        BY <3>4, <4>1
      <4> QED
        BY <3>1, <3>3, <4>2, <4>3
    <3>6. CASE t # now
      <4>1. t \in heard[s] /\ t \in 1..now /\ t < now
        BY <3>1, <3>6, <1>2, <2>1 DEF TypeOK
      <4>2. Since(s, t) \in Nat /\ Since(s, t)' = Since(s, t) + 1
        <5> DEFINE A == {u \in heard[s] : u > t}
        <5>1. {u \in heard'[s] : u > t} = A \cup {now}
          BY <3>1, <4>1
        <5>2. now \notin A /\ IsFiniteSet(A)
          BY <3>1, <1>2, <2>1, SinceTyped
        <5>3. Cardinality(A \cup {now}) = Cardinality(A) + 1
          BY <5>2, CountMore
        <5>4. /\ Cardinality(A) \in Nat /\ Since(s, t) \in Nat
              /\ Cardinality({u \in closed[s] : u >= t - KlineDelay}) \in Nat
          BY <1>2, <2>1, SinceTyped
        <5>5. Since(s, t)' = Cardinality(A \cup {now})
                                + Cardinality({u \in closed[s] : u >= t - KlineDelay})
          BY <1>1, <5>1 DEF Since
        <5>6. Since(s, t) = Cardinality(A) + Cardinality({u \in closed[s] : u >= t - KlineDelay})
          BY DEF Since
        <5> QED
          BY <5>3, <5>4, <5>5, <5>6
      <4>3. Since(s, t) < HistoryPoints /\ Since(s, t) + 1 < HistoryPoints
        BY <1>3, <4>2, ConstantTypes
      <4>4. PICK i \in DOMAIN h : h[i].time = t /\ Len(h) - i <= Since(s, t)
        BY <4>1, <4>3 DEF RInv, TickersRemembered
      <4>5. PICK j \in DOMAIN longer : longer[j] = h[i] /\ Len(longer) - j <= Since(s, t) + 1
        BY <3>3, <4>2, <4>3, <4>4
      <4> QED
        BY <3>1, <4>2, <4>4, <4>5
    <3> QED
      BY <3>5, <3>6
  <2> QED
    BY <2>2, <2>3
<1>4. TickersRemembered'
  BY <1>1, <1>3 DEF TickersRemembered
<1>5. Apart'
  BY <1>1 DEF RInv, Apart
<1> QED
  BY <1>4, <1>5 DEF RInv

LEMMA ClosedKlineRemembers ==
    ASSUME IInv, RInv, NEW r \in Symbol, NEW v \in (now - KlineDelay)..now, ClosedKline(r, v)
    PROVE  RInv'
<1>1. /\ UNCHANGED <<phase, now, heard, universe>>
      /\ closed' = [closed EXCEPT ![r] = @ \cup {v}]
      /\ history' = IF Accepted(r)
                    THEN [history EXCEPT ![r] = Put(@, Sample(r, v, KlineVolume(r, v)))]
                    ELSE history
      /\ v >= 1 /\ (\A u \in closed[r] : u + KlineEvery <= v)
  BY DEF ClosedKline, outVars, truthVars
<1>2. TypeOK /\ universe \subseteq Symbol /\ now \in Nat \ {0} /\ v \in 1..now
  BY <1>1, Typed, ConstantTypes DEF IInv
<1>3. v \notin closed[r] /\ \A u \in closed[r] : u < v
  <2>1. closed[r] \in SUBSET (1..now)
    BY <1>2 DEF TypeOK
  <2> QED
    BY <1>1, <1>2, <2>1, ConstantTypes
<1>4. closed'[r] = closed[r] \cup {v} /\ \A s \in Symbol \ {r} : closed'[s] = closed[s]
  BY <1>1, <1>2 DEF TypeOK
<1>5. ASSUME NEW s \in universe, NEW t \in heard[s], Since(s, t)' < HistoryPoints
      PROVE  \E i \in DOMAIN history'[s] :
                history'[s][i].time = t /\ Len(history'[s]) - i <= Since(s, t)'
  <2>1. s \in Symbol /\ t \in 1..now
    BY <1>2 DEF TypeOK
  <2>2. CASE s # r
    <3>1. heard'[s] = heard[s] /\ closed'[s] = closed[s] /\ history'[s] = history[s]
      BY <1>1, <1>2, <1>4, <2>1, <2>2, Typed
    <3>2. Since(s, t)' = Since(s, t)
      BY <3>1 DEF Since
    <3> QED
      BY <1>5, <3>1, <3>2 DEF RInv, TickersRemembered
  <2>3. CASE s = r
    <3> DEFINE h == history[s]
               new == Sample(s, v, KlineVolume(s, v))
               longer == Put(h, new)
    <3>1. history'[s] = longer
      BY <1>1, <1>2, <2>1, <2>3, Typed DEF Accepted
    <3>2. h \in Seq(Samples(now)) /\ Len(h) <= HistoryPoints /\ new \in Samples(now)
      <4>1. price[s][v] \in Nat \ {0} /\ KlineVolume(s, v) \in Int
        BY <1>2, <2>1, KlineVolumeTyped, Typed
      <4> QED
        BY <1>2, <2>1, <4>1, Typed DEF Sample, Samples
    <3>3. \A i \in DOMAIN h, n \in Nat :
                Len(h) - i <= n /\ n + 1 < HistoryPoints =>
                   \E j \in DOMAIN longer : longer[j] = h[i] /\ Len(longer) - j <= n + 1
      BY <3>2, PutRemembers
    <3>4. Since(s, t) \in Nat /\ Since(s, t)' = Since(s, t) + 1
      <4> DEFINE A == {u \in closed[s] : u >= t - KlineDelay}
                 n == Cardinality({u \in heard[s] : u > t})
      <4>1. {u \in closed'[s] : u >= t - KlineDelay} = A \cup {v}
        <5>1. v >= t - KlineDelay
          BY <1>2, <2>1, ConstantTypes
        <5> QED
          BY <5>1, <1>4, <2>3
      <4>2. v \notin A /\ IsFiniteSet(A)
        BY <1>2, <1>3, <2>1, <2>3, SinceTyped
      <4>3. Cardinality(A \cup {v}) = Cardinality(A) + 1
        BY <4>2, CountMore
      <4>4. Cardinality(A) \in Nat /\ Since(s, t) \in Nat /\ n \in Nat
        BY <1>2, <2>1, SinceTyped
      <4>5. Since(s, t)' = n + Cardinality(A \cup {v})
        BY <1>1, <4>1 DEF Since
      <4>6. Since(s, t) = n + Cardinality(A)
        BY DEF Since
      <4> QED
        BY <4>3, <4>4, <4>5, <4>6
    <3>5. Since(s, t) < HistoryPoints /\ Since(s, t) + 1 < HistoryPoints
      BY <1>5, <3>4, ConstantTypes
    <3>6. PICK i \in DOMAIN h : h[i].time = t /\ Len(h) - i <= Since(s, t)
      BY <3>5 DEF RInv, TickersRemembered
    <3>7. PICK j \in DOMAIN longer : longer[j] = h[i] /\ Len(longer) - j <= Since(s, t) + 1
      BY <3>3, <3>4, <3>5, <3>6
    <3> QED
      BY <3>1, <3>4, <3>6, <3>7
  <2> QED
    BY <2>2, <2>3
<1>6. TickersRemembered'
  BY <1>1, <1>5 DEF TickersRemembered
<1>7. Apart'
  <2>1. ASSUME NEW s \in Symbol, NEW u \in closed'[s], NEW w \in closed'[s], u < w
        PROVE  u + KlineEvery <= w
    <3>1. closed[s] \in SUBSET (1..now)
      BY <1>2 DEF TypeOK
    <3>2. CASE u \in closed[s] /\ w \in closed[s]
      BY <2>1, <3>2 DEF RInv, Apart
    <3>3. CASE s = r /\ w = v /\ u \in closed[r]
      BY <1>1, <3>3
    <3>4. CASE s = r /\ u = v /\ w \in closed[r]
      BY <1>2, <1>3, <2>1, <3>1, <3>4
    <3> QED
      BY <1>2, <1>4, <2>1, <3>1, <3>2, <3>3, <3>4
  <2> QED
    BY <1>1, <2>1 DEF RInv, Apart
<1> QED
  BY <1>6, <1>7 DEF RInv

LEMMA NextRInv == IInv /\ RInv /\ [Next]_vars => RInv'
<1> SUFFICES ASSUME IInv, RInv, [Next]_vars PROVE RInv'
  OBVIOUS
<1>1. CASE UNCHANGED <<heard, closed, history, universe>> /\ phase' # "starting"
  <2>1. \A s, t : Since(s, t)' = Since(s, t)
    BY <1>1 DEF Since
  <2> QED
    BY <1>1, <2>1 DEF RInv, TickersRemembered, Apart
<1>2. CASE Tick
  BY <1>1, <1>2 DEF Tick, inputVars, outVars
<1>3. CASE Evaluate
  BY <1>1, <1>3 DEF Evaluate, inputVars
<1>4. CASE Bootstrap
  <2>1. phase = "starting" /\ phase' # "starting" /\ UNCHANGED <<heard, closed, history>>
    BY <1>4 DEF Bootstrap, inputVars
  <2>2. universe' \subseteq Symbol
    BY <1>4, BootstrapKeeps DEF IInv, TypeOK
  <2>3. \A s \in universe' : heard'[s] = {}
    BY <2>1, <2>2 DEF RInv, Apart
  <2> QED
    BY <2>1, <2>3 DEF RInv, TickersRemembered, Apart
<1>5. CASE Stream
  <2>1. ASSUME NEW items \in SUBSET Symbol, RollingTicker(items) PROVE RInv'
    BY <2>1, RollingTickerRemembers
  <2>2. ASSUME NEW s \in Symbol, BookTicker(s) PROVE RInv'
    BY <1>1, <2>2 DEF BookTicker, Live, outVars
  <2>3. ASSUME NEW s \in Symbol, NEW t \in (now - KlineDelay)..now, ClosedKline(s, t)
        PROVE  RInv'
    BY <2>3, ClosedKlineRemembers
  <2> QED
    BY <1>5, <2>1, <2>2, <2>3 DEF Stream
<1>6. CASE UNCHANGED vars
  <2>1. UNCHANGED <<phase, heard, closed, history, universe>>
    BY <1>6 DEF vars, inputVars, outVars
  <2>2. \A s, t : Since(s, t)' = Since(s, t)
    BY <2>1 DEF Since
  <2> QED
    BY <2>1, <2>2 DEF RInv, TickersRemembered, Apart
<1> QED
  BY <1>2, <1>3, <1>4, <1>5, <1>6 DEF Next

\* The history of a watched symbol keeps a ticker until as many messages came
\* after it as it has places.
THEOREM TickersAreRemembered == Spec => []TickersRemembered
<1>1. Spec => []RInv
  BY InitRInv, NextRInv, InductiveInvariant, PTL DEF Spec
<1>2. RInv => TickersRemembered
  BY DEF RInv
<1> QED
  BY <1>1, <1>2, PTL

-----------------------------------------------------------------------------
(* A surge is judged                                                       *)

\* A nonempty set of naturals has a least element.
LEMMA LeastNat ==
    ASSUME NEW T \in SUBSET Nat, T # {}
    PROVE  \E m \in T : \A k \in T : m <= k
<1> DEFINE I == {0..n : n \in T}
<1>1. I \subseteq FiniteSubsetsOf(Nat)
  <2>1. ASSUME NEW n \in T PROVE 0..n \in SUBSET Nat /\ IsFiniteSet(0..n)
    BY FS_Interval
  <2> QED
    BY <2>1 DEF FiniteSubsetsOf
<1>2. I # {}
  OBVIOUS
<1>3. PICK x \in I : \A y \in I : ~(<<y, x>> \in StrictSubsetOrdering(Nat))
  <2> HIDE DEF I
  <2> QED
    BY <1>1, <1>2, FS_StrictSubsetOrderingWellFounded, WFMin
<1>4. PICK m \in T : x = 0..m
  OBVIOUS
<1>5. ASSUME NEW k \in T, k < m PROVE FALSE
  <2>1. 0..k \in I
    OBVIOUS
  <2>2. 0..k \subseteq 0..m /\ 0..k # 0..m /\ 0..k \in SUBSET Nat /\ 0..m \in SUBSET Nat
    <3>1. m \in 0..m /\ m \notin 0..k
      BY <1>5
    <3> QED
      BY <3>1, <1>5
  <2> QED
    BY <2>1, <2>2, <1>3, <1>4 DEF StrictSubsetOrdering
<1> QED
  BY <1>5

\* A nonempty set of naturals up to a bound has a greatest element.
LEMMA GreatestNat ==
    ASSUME NEW b \in Nat, NEW S \in SUBSET (0..b), S # {}
    PROVE  \E m \in S : \A k \in S : k <= m
<1> DEFINE T == {b - x : x \in S}
<1>1. T \in SUBSET Nat /\ T # {}
  <2>1. \A x \in S : b - x \in Nat
    OBVIOUS
  <2> QED
    BY <2>1
<1>2. PICK m \in T : \A k \in T : m <= k
  <2> HIDE DEF T
  <2> QED
    BY <1>1, LeastNat
<1>3. PICK y \in S : m = b - y
  OBVIOUS
<1>4. ASSUME NEW x \in S PROVE x <= y
  <2>1. b - y <= b - x
    BY <1>2, <1>3
  <2>2. x \in Int /\ y \in Int
    OBVIOUS
  <2> HIDE DEF T
  <2> QED
    BY <2>1, <2>2
<1> QED
  BY <1>4

\* The search finds a sample whenever there is one, and none that is older.
LEMMA AtOrBeforeIsLatest ==
    ASSUME NEW end \in Nat, NEW h \in Seq(Samples(end)), NEW cutoff \in Int,
           NEW k \in DOMAIN h, h[k].time <= cutoff
    PROVE  /\ AtOrBefore(h, cutoff) \in DOMAIN h
           /\ h[AtOrBefore(h, cutoff)].time \in h[k].time..cutoff
<1> DEFINE eligible == {i \in DOMAIN h : h[i].time <= cutoff}
           IsLatest(i) == \A j \in eligible : \/ h[j].time < h[i].time
                                              \/ h[j].time = h[i].time /\ j <= i
           times == {h[i].time : i \in eligible}
<1>1. \A i \in DOMAIN h : h[i].time \in 1..end /\ h[i].time \in Nat
  BY ElementOf, SampleTyped
<1>2. DOMAIN h = 1..Len(h) /\ Len(h) \in Nat
  OBVIOUS
<1>3. times \in SUBSET (0..end) /\ times # {}
  BY <1>1
<1>4. PICK last \in times : \A u \in times : u <= last
  <2> HIDE DEF times
  <2> QED
    BY <1>3, GreatestNat
<1> DEFINE places == {i \in eligible : h[i].time = last}
<1>5. places \in SUBSET (0..Len(h)) /\ places # {}
  BY <1>2
<1>6. PICK i \in places : \A j \in places : j <= i
  <2> HIDE DEF places
  <2> QED
    BY <1>2, <1>5, GreatestNat
<1>7. i \in eligible /\ IsLatest(i)
  <2> SUFFICES ASSUME NEW j \in eligible
               PROVE  h[j].time < h[i].time \/ (h[j].time = h[i].time /\ j <= i)
    BY <1>6
  <2>1. h[i].time = last /\ i \in eligible
    BY <1>6
  <2>2. h[j].time <= last
    BY <1>4
  <2>3. h[j].time \in Nat /\ last \in Nat
    BY <1>1, <2>1
  <2>4. h[j].time = last => j <= i
    BY <1>6
  <2> QED
    BY <2>1, <2>2, <2>3, <2>4
<1> DEFINE found == CHOOSE x \in eligible : IsLatest(x)
<1>8. found \in eligible /\ IsLatest(found)
  <2> HIDE DEF eligible, IsLatest
  <2> QED
    BY <1>7
<1>9. AtOrBefore(h, cutoff) = found
  <2>1. AtOrBefore(h, cutoff) =
          IF \E x \in eligible : IsLatest(x) THEN found ELSE 0
    BY DEF AtOrBefore
  <2> HIDE DEF eligible, IsLatest, found
  <2> QED
    BY <1>7, <2>1
<1>10. found \in DOMAIN h /\ h[found].time <= cutoff /\ h[k].time <= h[found].time
  <2>1. k \in eligible
    OBVIOUS
  <2>2. h[k].time < h[found].time \/ h[k].time = h[found].time
    BY <1>8, <2>1
  <2>3. found \in DOMAIN h /\ h[found].time <= cutoff
    BY <1>8
  <2> HIDE DEF found
  <2> QED
    BY <1>1, <2>2, <2>3
<1> HIDE DEF found
<1>11. h[found].time \in h[k].time..cutoff
  BY <1>1, <1>10
<1> QED
  BY <1>9, <1>10, <1>11

\* Numbers that are apart by k or more, from an interval shorter than n times k,
\* are n at most: each has the k numbers from it on to itself.
LEMMA SpacedCount ==
    ASSUME NEW a \in Int, NEW b \in Int, NEW k \in Nat \ {0}, NEW n \in Nat,
           NEW S \in SUBSET (a..b), \A u, v \in S : u < v => u + k <= v,
           n * k > b - a
    PROVE  Cardinality(S) \in Nat /\ Cardinality(S) <= n
<1>1. IsFiniteSet(S) /\ Cardinality(S) \in Nat
  BY FS_Interval, FS_Subset, FS_CardinalityType
<1> DEFINE K == 0..(k - 1)
           T == a..(b + k - 1)
           f == [p \in S \X K |-> p[1] + p[2]]
<1>2. IsFiniteSet(K) /\ Cardinality(K) = k
  <2>1. 0 \in Int /\ k - 1 \in Int /\ ~(0 > k - 1) /\ (k - 1) - 0 + 1 = k
    OBVIOUS
  <2> QED
    BY <2>1, FS_Interval
<1>3. IsFiniteSet(S \X K) /\ Cardinality(S \X K) = Cardinality(S) * k
  <2> HIDE DEF K
  <2> QED
    BY <1>1, <1>2, FS_Product
<1>4. f \in Injection(S \X K, T)
  <2>1. f \in [S \X K -> T]
    <3>1. \A u \in S, i \in K : u + i \in T
      OBVIOUS
    <3> HIDE DEF K, T
    <3> QED
      BY <3>1
  <2>2. ASSUME NEW u \in S, NEW v \in S, NEW i \in K, NEW j \in K, u + i = v + j
        PROVE  u = v /\ i = j
    <3>1. u \in Int /\ v \in Int /\ i \in Int /\ j \in Int /\ 0 <= i /\ i < k /\ 0 <= j /\ j < k
      OBVIOUS
    <3>2. ~(u < v) /\ ~(v < u)
      BY <2>2, <3>1
    <3> QED
      BY <2>2, <3>1, <3>2
  <2>3. \A p, q \in S \X K : f[p] = f[q] => p = q
    <3> SUFFICES ASSUME NEW p \in S \X K, NEW q \in S \X K, f[p] = f[q] PROVE p = q
      OBVIOUS
    <3>1. p = <<p[1], p[2]>> /\ q = <<q[1], q[2]>> /\ p[1] + p[2] = q[1] + q[2]
      OBVIOUS
    <3>2. p[1] \in S /\ q[1] \in S /\ p[2] \in K /\ q[2] \in K
      OBVIOUS
    <3> HIDE DEF f, K, T
    <3>3. p[1] = q[1] /\ p[2] = q[2]
      <4> DEFINE u == p[1]
                 v == q[1]
                 i == p[2]
                 j == q[2]
      <4>1. u \in S /\ v \in S /\ i \in K /\ j \in K /\ u + i = v + j
        BY <3>1, <3>2
      <4> HIDE DEF u, v, i, j
      <4>2. u = v /\ i = j
        BY <2>2, <4>1
      <4> QED
        BY <4>2 DEF u, v, i, j
    <3> QED
      BY <3>1, <3>3
  <2> HIDE DEF f, K, T
  <2> QED
    BY <2>1, <2>3 DEF Injection, IsInjective
<1>5. CASE S = {}
  BY <1>5, FS_EmptySet
<1>6. CASE S # {}
  <2>1. a <= b
    <3>1. PICK x \in S : x \in a..b
      BY <1>6
    <3> QED
      BY <3>1
  <2>2. IsFiniteSet(T) /\ Cardinality(T) = b - a + k
    <3>1. b + k - 1 \in Int /\ ~(a > b + k - 1) /\ (b + k - 1) - a + 1 = b - a + k
      BY <2>1
    <3> QED
      BY <3>1, FS_Interval
  <2>3. Cardinality(S) * k <= b - a + k
    <3> HIDE DEF f, K, T
    <3> QED
      BY <1>3, <1>4, <2>2, FS_Injection
  <2>4. ASSUME NEW m \in Nat, m * k <= b - a + k PROVE m <= n
    <3>1. m * k < (n + 1) * k
      <4>1. (n + 1) * k = n * k + k /\ n * k \in Int /\ m * k \in Int
        OBVIOUS
      <4> QED
        BY <2>4, <4>1
    <3>2. m > n => (n + 1) * k <= m * k
      OBVIOUS
    <3>3. (n + 1) * k \in Int /\ m * k \in Int
      OBVIOUS
    <3> QED
      BY <3>1, <3>2, <3>3
  <2> QED
    BY <1>1, <2>3, <2>4
<1> QED
  BY <1>1, <1>5, <1>6

\* Each of the last 15 minutes of a surge is in the history.
LEMMA SurgeRemembered ==
    ASSUME FifteenMinutesFit, IInv, RInv, NEW s \in universe, Surges(s),
           NEW t \in (now - 3 * Window)..now
    PROVE  \E i \in DOMAIN history[s] : history[s][i].time = t
<1> DEFINE A == {u \in heard[s] : u > t}
           B == {u \in closed[s] : u >= t - KlineDelay}
<1>1. /\ TypeOK /\ s \in Symbol /\ now \in Nat /\ Window \in Nat /\ KlineDelay \in Nat
      /\ HistoryPoints \in Nat
  BY Typed, ConstantTypes, ScannerAssumption DEF IInv
<1>2. t \in heard[s] /\ t \in Int
  BY <1>1 DEF Surges
<1>3. heard[s] \in SUBSET (1..now) /\ closed[s] \in SUBSET (1..now)
  BY <1>1 DEF TypeOK
<1>4. Cardinality(A) <= 3 * Window
  <2>1. A \in SUBSET ((t + 1)..now)
    BY <1>2, <1>3
  <2>2. /\ IsFiniteSet((t + 1)..now)
        /\ Cardinality((t + 1)..now) = IF t + 1 > now THEN 0 ELSE now - (t + 1) + 1
    BY <1>1, <1>2, FS_Interval
  <2>3. Cardinality(A) <= Cardinality((t + 1)..now)
    BY <2>1, <2>2, FS_Subset
  <2>4. Cardinality(A) \in Nat
    BY <1>1, SinceTyped
  <2>5. t >= now - 3 * Window /\ t <= now
    OBVIOUS
  <2> HIDE DEF A
  <2> QED
    BY <1>1, <1>2, <2>2, <2>3, <2>4, <2>5
<1>5. PICK klines \in Nat : /\ klines * KlineEvery > 3 * Window + KlineDelay
                            /\ 3 * Window + klines < HistoryPoints
  BY <1>1 DEF FifteenMinutesFit
<1>6. Cardinality(B) <= klines
  <2>1. t - KlineDelay \in Int /\ now \in Int /\ KlineEvery \in Nat \ {0}
    BY <1>1, <1>2, ConstantTypes
  <2>2. B \in SUBSET ((t - KlineDelay)..now)
    BY <1>1, <1>2, <1>3
  <2>3. \A u, v \in B : u < v => u + KlineEvery <= v
    BY <1>1 DEF RInv, Apart
  <2>4. klines * KlineEvery > now - (t - KlineDelay)
    <3>1. klines * KlineEvery \in Int /\ t >= now - 3 * Window
      BY <1>1, <2>1
    <3> QED
      BY <1>1, <1>2, <1>5, <3>1
  <2> HIDE DEF B
  <2> QED
    BY <2>1, <2>2, <2>3, <2>4, SpacedCount
<1>7. Since(s, t) < HistoryPoints
  <2>1. Since(s, t) = Cardinality(A) + Cardinality(B)
    BY DEF Since
  <2>2. Cardinality(A) \in Nat /\ Cardinality(B) \in Nat
    BY <1>1, SinceTyped
  <2> HIDE DEF A, B
  <2> QED
    BY <1>1, <1>4, <1>5, <1>6, <2>1, <2>2
<1> QED
  BY <1>2, <1>7 DEF RInv, TickersRemembered

\* The samples that Stage 1 takes of a surging symbol are those of now and of 5,
\* 10 and 15 minutes before, and no gate holds it back.
LEMMA SurgeJudged ==
    ASSUME FifteenMinutesFit, IInv, RInv, NEW s \in universe, s \in quoted, Surges(s)
    PROVE  LET h == history[s]
           IN  /\ Judged(s)
               /\ Newest(h) \in DOMAIN h /\ h[Newest(h)].time = now
               /\ Start(h, 1) \in DOMAIN h /\ h[Start(h, 1)].time = now - Window
<1> DEFINE h == history[s]
           moments == (now - 3 * Window)..now
<1>1. /\ TypeOK /\ s \in Symbol /\ now \in Nat /\ Window \in Nat /\ MaxAge \in Nat
      /\ Tolerance \in Nat /\ MinPoints \in Nat /\ MinSpan \in Nat
      /\ h \in Seq(Samples(now)) /\ Len(h) \in Nat /\ DOMAIN h = 1..Len(h)
  BY Typed, ConstantTypes, ScannerAssumption DEF IInv
<1>2. \A t \in moments : \E i \in DOMAIN h : h[i].time = t
  BY SurgeRemembered
<1> HIDE DEF h
<1>3. ASSUME NEW t \in moments
      PROVE  /\ AtOrBefore(h, t) \in DOMAIN h /\ h[AtOrBefore(h, t)].time = t
             /\ AtOrBefore(h, t) # 0
  <2>1. PICK k \in DOMAIN h : h[k].time = t
    BY <1>2
  <2>2. t \in Int /\ h[k].time <= t
    BY <1>1, <2>1
  <2>3. AtOrBefore(h, t) \in DOMAIN h /\ h[AtOrBefore(h, t)].time \in h[k].time..t
    BY <1>1, <2>2, AtOrBeforeIsLatest
  <2>4. h[AtOrBefore(h, t)].time = t
    BY <2>1, <2>2, <2>3
  <2> QED
    BY <1>1, <2>3, <2>4
<1>4. /\ Newest(h) \in DOMAIN h /\ Newest(h) # 0 /\ h[Newest(h)].time = now
  <2>1. now \in moments
    BY <1>1
  <2> QED
    BY <1>3, <2>1 DEF Newest
<1>5. ASSUME NEW windows \in {1, 2, 3}
      PROVE  /\ Start(h, windows) \in DOMAIN h /\ Start(h, windows) # 0
             /\ h[Start(h, windows)].time = now - windows * Window
  <2> DEFINE t == now - windows * Window
  <2>1. t \in moments /\ t \in Int
    BY <1>1
  <2>2. Start(h, windows) = NearCutoff(h, t)
    BY <1>4 DEF Start
  <2> HIDE DEF t
  <2>3. /\ AtOrBefore(h, t) \in DOMAIN h /\ h[AtOrBefore(h, t)].time = t
        /\ AtOrBefore(h, t) # 0
    BY <1>3, <2>1
  <2>4. t - h[AtOrBefore(h, t)].time <= Tolerance
    BY <1>1, <2>1, <2>3
  <2>5. NearCutoff(h, t) = AtOrBefore(h, t)
    BY <2>3, <2>4 DEF NearCutoff
  <2>6. Start(h, windows) \in DOMAIN h /\ Start(h, windows) # 0 /\ h[Start(h, windows)].time = t
    BY <2>2, <2>3, <2>5
  <2> QED
    BY <2>6 DEF t
<1>6. Len(h) >= MinPoints
  <2> DEFINE f == [t \in moments |-> AtOrBefore(h, t)]
  <2>1. f \in [moments -> 1..Len(h)]
    BY <1>1, <1>3
  <2>2. \A t, u \in moments : f[t] = f[u] => t = u
    BY <1>3
  <2>3. f \in Injection(moments, 1..Len(h))
    <3> HIDE DEF f, moments
    <3> QED
      BY <2>1, <2>2 DEF Injection, IsInjective
  <2>4. IsFiniteSet(1..Len(h)) /\ Cardinality(1..Len(h)) = Len(h)
    <3>1. 1 \in Int /\ Len(h) \in Int
      BY <1>1
    <3>2. /\ IsFiniteSet(1..Len(h))
          /\ Cardinality(1..Len(h)) = IF 1 > Len(h) THEN 0 ELSE Len(h) - 1 + 1
      BY <3>1, FS_Interval
    <3> QED
      BY <1>1, <3>2
  <2>5. Cardinality(moments) = 3 * Window + 1
    <3>1. now - 3 * Window \in Int /\ now \in Int
      BY <1>1
    <3>2. Cardinality(moments) = IF now - 3 * Window > now THEN 0
                                 ELSE now - (now - 3 * Window) + 1
      BY <3>1, FS_Interval
    <3> QED
      BY <1>1, <3>2
  <2>6. Cardinality(moments) <= Cardinality(1..Len(h))
    <3> HIDE DEF f, moments
    <3> QED
      BY <2>3, <2>4, FS_Injection
  <2>7. MinPoints <= 3 * Window + 1
    BY DEF FifteenMinutesFit
  <2> HIDE DEF f, moments
  <2> QED
    BY <1>1, <2>4, <2>5, <2>6, <2>7
<1>7. \E i \in DOMAIN h : h[Newest(h)].time - h[i].time >= MinSpan
  <2>1. MinSpan <= 3 * Window
    BY DEF FifteenMinutesFit
  <2>2. h[Newest(h)].time - h[Start(h, 3)].time = 3 * Window /\ Start(h, 3) \in DOMAIN h
    BY <1>1, <1>4, <1>5
  <2> QED
    BY <2>1, <2>2
<1>8. now - h[Newest(h)].time <= MaxAge
  BY <1>1, <1>4
<1>9. Judged(s)
  BY <1>4, <1>5, <1>6, <1>7, <1>8 DEF Judged, h
<1>10. h[Start(h, 1)].time = now - Window /\ Start(h, 1) \in DOMAIN h
  BY <1>1, <1>5
<1> QED
  BY <1>4, <1>9, <1>10 DEF h

\* A surge alone gives three reasons.
LEMMA SurgeReasons ==
    ASSUME FifteenMinutesFit, IInv, RInv, NEW s \in universe, s \in quoted, Surges(s)
    PROVE  /\ IsFiniteSet(Reasons(history[s]))
           /\ {"momentum", "price_rise_5m", "local_high_proximity"} \subseteq Reasons(history[s])
           /\ Cardinality(Reasons(history[s])) >= 3
<1> DEFINE h == history[s]
           last == price[s][now]
           start == price[s][now - Window]
<1>1. /\ TypeOK /\ s \in Symbol /\ now \in Nat /\ Window \in Nat /\ Proximity \in Nat
      /\ h \in Seq(Samples(now)) /\ MinMove \in Nat
  BY Typed, ConstantTypes, ScannerAssumption DEF IInv
<1>2. /\ Newest(h) \in DOMAIN h /\ h[Newest(h)].time = now
      /\ Start(h, 1) \in DOMAIN h /\ h[Start(h, 1)].time = now - Window
  BY SurgeJudged
<1>3. /\ \A i \in DOMAIN h : h[i].price = price[s][h[i].time]
      /\ \A i \in DOMAIN h : h[i].time \in 1..now /\ h[i].price \in Nat \ {0}
  <2>1. \A i \in DOMAIN h : h[i] \in Samples(now)
    BY <1>1, ElementOf
  <2> QED
    BY <1>1, <2>1, SampleTyped DEF IInv, HistoryTrue
<1>4. h[Newest(h)].price = last /\ h[Start(h, 1)].price = start
  BY <1>2, <1>3
<1>5. last \in Nat /\ start \in Nat
  BY <1>2, <1>3, <1>4
<1>6. 100 * (last - start) >= MinMove * start /\ last > start
  BY DEF Surges
<1>7. \A p \in RecentPrices(h) : p \in Nat /\ p <= last
  <2> SUFFICES ASSUME NEW j \in DOMAIN h, h[j].time >= now - 3 * Window
               PROVE  h[j].price \in Nat /\ h[j].price <= last
    BY <1>2 DEF RecentPrices
  <2>1. h[j].time \in (now - 3 * Window)..now
    BY <1>1, <1>3
  <2>2. price[s][h[j].time] <= last
    BY <2>1 DEF Surges
  <2> QED
    BY <1>3, <2>2
<1> HIDE DEF h, last, start
<1>8. Change(h) = last - start /\ Change(h) > 0
  BY <1>4, <1>5, <1>6 DEF Change
<1>9. AtHigh(h)
  <2> SUFFICES ASSUME NEW p \in RecentPrices(h)
               PROVE  (p - last) * 10000 <= Proximity * p
    BY <1>4 DEF AtHigh
  <2>1. p \in Nat /\ p <= last
    BY <1>7
  <2>2. Proximity * p \in Nat
    BY <1>1, <2>1
  <2>3. (p - last) * 10000 <= 0
    BY <1>5, <2>1
  <2>4. (p - last) * 10000 \in Int
    BY <1>5, <2>1
  <2> DEFINE a == Proximity * p
             b == (p - last) * 10000
  <2> HIDE DEF a, b
  <2>5. a \in Nat /\ b \in Int /\ b <= 0
    BY <2>2, <2>3, <2>4 DEF a, b
  <2>6. b <= a
    BY <2>5
  <2> QED
    BY <2>6 DEF a, b
<1>10. {"momentum", "price_rise_5m", "local_high_proximity"} \subseteq Reasons(h)
  <2>1. 100 * Change(h) >= MinMove * h[Start(h, 1)].price
    BY <1>4, <1>6, <1>8
  <2> QED
    BY <1>8, <1>9, <2>1 DEF Reasons, When
<1>11. IsFiniteSet(Reasons(h))
  <2> DEFINE A == {"momentum", "price_rise_5m", "price_fall_5m", "relative_volume"}
             B == {"volume_expansion", "btc_relative_strength", "local_high_proximity",
                   "local_low_proximity"}
  <2>1. Reasons(h) \in SUBSET (A \cup B)
    BY DEF Reasons, When
  <2>2. /\ {} \cup {"momentum"} \cup {"price_rise_5m"} \cup {"price_fall_5m"}
             \cup {"relative_volume"} = A
        /\ {} \cup {"volume_expansion"} \cup {"btc_relative_strength"}
             \cup {"local_high_proximity"} \cup {"local_low_proximity"} = B
    OBVIOUS
  <2>3. \A S, x : IsFiniteSet(S) => IsFiniteSet(S \cup {x})
    BY FS_AddElement
  <2>4. IsFiniteSet({})
    BY FS_EmptySet
  <2> HIDE DEF A, B
  <2>5. IsFiniteSet(A) /\ IsFiniteSet(B)
    BY <2>2, <2>3, <2>4
  <2>6. IsFiniteSet(A \cup B)
    BY <2>5, FS_Union
  <2> QED
    BY <2>1, <2>6, FS_Subset
<1>12. Cardinality(Reasons(h)) >= 3
  <2> DEFINE three == {"momentum", "price_rise_5m", "local_high_proximity"}
             one == {"momentum"}
             two == {"momentum", "price_rise_5m"}
  <2>1. IsFiniteSet(one) /\ Cardinality(one) = 1
    BY FS_Singleton
  <2>2. two = one \cup {"price_rise_5m"} /\ "price_rise_5m" \notin one
    OBVIOUS
  <2>3. three = two \cup {"local_high_proximity"} /\ "local_high_proximity" \notin two
    OBVIOUS
  <2> HIDE DEF one, two, three
  <2>4. IsFiniteSet(two) /\ Cardinality(two) = 2
    BY <2>1, <2>2, CountMore
  <2>5. Cardinality(three) = 3
    BY <2>3, <2>4, CountMore
  <2>6. three \in SUBSET Reasons(h)
    BY <1>10 DEF three
  <2>7. Cardinality(three) <= Cardinality(Reasons(h)) /\ Cardinality(Reasons(h)) \in Nat
    BY <1>11, <2>6, FS_Subset, FS_CardinalityType
  <2> QED
    BY <2>5, <2>7
<1> QED
  BY <1>10, <1>11, <1>12 DEF h

-----------------------------------------------------------------------------
(* Lists that are ranked and cut                                           *)

\* Ranks are naturals that put the candidates into one order.
LEMMA Ranks ==
    ASSUME NEW hot \in SUBSET Symbol, NEW score, \A s \in hot : score[s] \in Nat
    PROVE  /\ IsFiniteSet(hot) /\ Cardinality(hot) \in Nat
           /\ \A s \in hot : IsFiniteSet(Ahead(hot, score, s))
           /\ \A s \in hot : Cardinality(Ahead(hot, score, s)) \in 0..(Cardinality(hot) - 1)
           /\ \A s \in hot : \A r \in Ahead(hot, score, s) :
                 /\ r \in hot
                 /\ Cardinality(Ahead(hot, score, r)) < Cardinality(Ahead(hot, score, s))
           /\ \A r, s \in hot : r # s =>
                 Cardinality(Ahead(hot, score, r)) # Cardinality(Ahead(hot, score, s))
<1> DEFINE rank(s) == Cardinality(Ahead(hot, score, s))
<1>0. /\ Symbol \subseteq Nat /\ Score \subseteq Nat
      /\ IsFiniteSet(hot) /\ Cardinality(hot) \in Nat
  BY RankingAssumption, CandidateAssumption, FS_Subset, FS_CardinalityType
<1>1. \A s \in hot : s \in Nat /\ score[s] \in Nat
  BY <1>0
<1>2. \A s \in hot : IsFiniteSet(Ahead(hot, score, s)) /\ rank(s) \in Nat
  <2> TAKE s \in hot
  <2>1. Ahead(hot, score, s) \in SUBSET hot
    BY DEF Ahead, Before
  <2> QED
    BY <1>0, <2>1, FS_Subset, FS_CardinalityType
<1>3. \A s \in hot : rank(s) \in 0..(Cardinality(hot) - 1)
  <2> TAKE s \in hot
  <2>1. Ahead(hot, score, s) \in SUBSET (hot \ {s})
    BY <1>1 DEF Ahead, Before
  <2>2. IsFiniteSet(hot \ {s}) /\ Cardinality(hot \ {s}) = Cardinality(hot) - 1
    BY <1>0, FS_RemoveElement
  <2>3. rank(s) <= Cardinality(hot) - 1
    BY <2>1, <2>2, FS_Subset
  <2>4. rank(s) \in Nat
    BY <1>2
  <2> HIDE DEF rank
  <2> QED
    BY <1>0, <2>3, <2>4
<1>4. \A s \in hot : \A r \in Ahead(hot, score, s) : r \in hot /\ rank(r) < rank(s)
  <2> TAKE s \in hot
  <2> TAKE r \in Ahead(hot, score, s)
  <2>1. r \in hot
    BY DEF Ahead, Before
  <2>2. Ahead(hot, score, r) \in SUBSET Ahead(hot, score, s)
    BY <1>1, <2>1 DEF Ahead, Before
  <2>3. r \notin Ahead(hot, score, r)
    BY <1>1, <2>1 DEF Ahead, Before
  <2>4. /\ Cardinality(Ahead(hot, score, r)) <= Cardinality(Ahead(hot, score, s))
        /\ Cardinality(Ahead(hot, score, r)) # Cardinality(Ahead(hot, score, s))
    BY <1>2, <2>2, <2>3, FS_Subset
  <2> QED
    BY <1>2, <2>1, <2>4
<1>5. \A r, s \in hot : r # s => rank(r) # rank(s)
  <2> SUFFICES ASSUME NEW r \in hot, NEW s \in hot, r # s PROVE rank(r) # rank(s)
    OBVIOUS
  <2>1. r \in Ahead(hot, score, s) \/ s \in Ahead(hot, score, r)
    BY <1>1 DEF Ahead, Before
  <2>2. rank(r) \in Nat /\ rank(s) \in Nat /\ (rank(r) < rank(s) \/ rank(s) < rank(r))
    BY <1>2, <1>4, <2>1
  <2> HIDE DEF rank
  <2> QED
    BY <2>2
<1> QED
  BY <1>0, <1>2, <1>3, <1>4, <1>5

\* No more than n candidates have fewer than n ahead of them.
LEMMA FirstFits ==
    ASSUME NEW hot \in SUBSET Symbol, NEW score, \A s \in hot : score[s] \in Nat,
           NEW n \in Nat
    PROVE  /\ First(hot, score, n) \in SUBSET hot
           /\ IsFiniteSet(First(hot, score, n))
           /\ Cardinality(First(hot, score, n)) \in 0..n
<1> DEFINE rank(s) == Cardinality(Ahead(hot, score, s))
           list == First(hot, score, n)
<1>1. list \in SUBSET hot
  BY DEF First
<1>2. IsFiniteSet(list) /\ Cardinality(list) \in Nat
  BY <1>1, Ranks, FS_Subset, FS_CardinalityType
<1>3. \A s \in list : rank(s) \in Nat /\ rank(s) < n
  BY Ranks DEF First
<1>4. \A x, y \in list : x # y => rank(x) # rank(y)
  BY <1>1, Ranks
<1> HIDE DEF rank, list
<1>5. ASSUME n < Cardinality(list) PROVE FALSE
  <2> DEFINE f == [s \in list |-> rank(s)]
             T == 0..(n - 1)
  <2>1. f \in [list -> T]
    <3>1. \A s \in list : rank(s) \in T
      BY <1>3
    <3> HIDE DEF T
    <3> QED
      BY <3>1
  <2>2. IsFiniteSet(T) /\ Cardinality(T) = n
    <3>1. n - 1 \in Int
      OBVIOUS
    <3>2. /\ IsFiniteSet(T)
          /\ Cardinality(T) = IF 0 > n - 1 THEN 0 ELSE (n - 1) - 0 + 1
      BY <3>1, FS_Interval
    <3> HIDE DEF T
    <3> QED
      BY <3>2
  <2>3. \A x, y \in list : x # y => f[x] # f[y]
    BY <1>4
  <2> HIDE DEF f, T
  <2> QED
    BY <1>2, <1>5, <2>1, <2>2, <2>3, FS_PigeonHole
<1> QED
  BY <1>1, <1>2, <1>5 DEF list

\* Every place of the ranking has its candidate.
LEMMA RankTaken ==
    ASSUME NEW hot \in SUBSET Symbol, NEW score, \A s \in hot : score[s] \in Nat,
           NEW i \in 0..(Cardinality(hot) - 1)
    PROVE  \E s \in hot : Cardinality(Ahead(hot, score, s)) = i
<1> DEFINE T == 0..(Cardinality(hot) - 1)
           f == [s \in hot |-> Cardinality(Ahead(hot, score, s))]
<1>1. IsFiniteSet(hot) /\ Cardinality(hot) \in Nat
  BY Ranks
<1>2. IsFiniteSet(T) /\ Cardinality(T) = Cardinality(hot)
  <2> DEFINE m == Cardinality(hot) - 1
  <2>1. m \in Int /\ T = 0..m /\ m + 1 \in Nat /\ m + 1 = Cardinality(hot)
    BY <1>1
  <2> HIDE DEF m, T
  <2>2. /\ IsFiniteSet(0..m)
        /\ Cardinality(0..m) = IF 0 > m THEN 0 ELSE m - 0 + 1
    BY <2>1, FS_Interval
  <2> QED
    BY <2>1, <2>2
<1>3. f \in [hot -> T]
  BY Ranks
<1>4. \A r, s \in hot : f[r] = f[s] => r = s
  BY Ranks
<1> HIDE DEF T
<1>5. f \in Injection(hot, T)
  <2> HIDE DEF f
  <2> QED
    BY <1>3, <1>4 DEF Injection, IsInjective
<1>6. f \in Surjection(hot, T)
  <2> HIDE DEF f
  <2> QED
    BY <1>2, <1>5, FS_Injection
<1>7. i \in T
  BY DEF T
<1>8. \E s \in hot : f[s] = i
  <2> HIDE DEF f
  <2> QED
    BY <1>6, <1>7 DEF Surjection
<1> QED
  BY <1>8

\* The list is full when a candidate is left out.
LEMMA FullList ==
    ASSUME NEW hot \in SUBSET Symbol, NEW score, \A s \in hot : score[s] \in Nat,
           NEW n \in Nat
    PROVE  \A s \in hot : s \notin First(hot, score, n) =>
               Cardinality(First(hot, score, n)) = n
<1> DEFINE rank(s) == Cardinality(Ahead(hot, score, s))
           list == First(hot, score, n)
           out == {rank(r) : r \in hot \ list}
<1> SUFFICES ASSUME NEW s \in hot, s \notin list PROVE Cardinality(list) = n
  OBVIOUS
<1>1. /\ IsFiniteSet(list) /\ Cardinality(list) \in 0..n
  BY FirstFits
<1>2. /\ \A r \in hot : rank(r) \in Nat
      /\ \A q \in hot : \A r \in Ahead(hot, score, q) : r \in hot /\ rank(r) < rank(q)
  BY Ranks
<1>3. list = {r \in hot : rank(r) < n}
  BY DEF First
<1> HIDE DEF rank, list
<1>4. out \in SUBSET Nat /\ out # {}
  BY <1>2
<1>5. PICK m \in out : \A k \in out : m <= k
  <2> HIDE DEF out
  <2> QED
    BY <1>4, LeastNat
<1>6. PICK q \in hot \ list : m = rank(q)
  OBVIOUS
<1>7. Ahead(hot, score, q) \in SUBSET list
  <2> SUFFICES ASSUME NEW r \in Ahead(hot, score, q), r \notin list PROVE FALSE
    OBVIOUS
  <2>1. r \in hot /\ rank(r) < rank(q) /\ rank(r) \in Nat /\ rank(q) \in Nat
    BY <1>2
  <2>2. rank(q) <= rank(r)
    BY <1>5, <1>6, <2>1
  <2> QED
    BY <2>1, <2>2
<1>8. rank(q) <= Cardinality(list)
  BY <1>1, <1>7, FS_Subset DEF rank
<1>9. n <= rank(q) /\ rank(q) \in Nat
  BY <1>2, <1>3
<1> QED
  BY <1>1, <1>8, <1>9

\* Who is left out is behind everyone who is not.
LEMMA FirstAreAhead ==
    ASSUME NEW hot \in SUBSET Symbol, NEW score, \A s \in hot : score[s] \in Nat,
           NEW n \in Nat,
           NEW r \in First(hot, score, n), NEW s \in hot, s \notin First(hot, score, n)
    PROVE  Before(score, r, s)
<1>1. r \in hot /\ r # s
  BY DEF First
<1>2. /\ Cardinality(Ahead(hot, score, r)) \in Nat /\ Cardinality(Ahead(hot, score, s)) \in Nat
      /\ Cardinality(Ahead(hot, score, r)) < n
      /\ ~(Cardinality(Ahead(hot, score, s)) < n)
  BY <1>1, Ranks DEF First
<1>3. s \notin Ahead(hot, score, r)
  <2>1. s \in Ahead(hot, score, r) =>
          Cardinality(Ahead(hot, score, s)) < Cardinality(Ahead(hot, score, r))
    BY <1>1, Ranks
  <2> QED
    BY <1>2, <2>1
<1>4. ~Before(score, s, r)
  BY <1>3 DEF Ahead
<1>5. r \in Nat /\ s \in Nat /\ score[r] \in Nat /\ score[s] \in Nat
  BY <1>1, RankingAssumption
<1> QED
  BY <1>1, <1>4, <1>5 DEF Before

\* One candidate per symbol.
LEMMA OneEach ==
    ASSUME NEW list \in SUBSET Symbol
    PROVE  Cardinality({Candidate(s) : s \in list}) = Cardinality(list)
<1> DEFINE told == {Candidate(s) : s \in list}
           f == [s \in list |-> Candidate(s)]
<1>1. IsFiniteSet(list)
  BY RankingAssumption, FS_Subset
<1>2. \A r, s \in list : f[r] = f[s] => r = s
  <2>1. \A s \in list : Candidate(s).symbol = s
    BY DEF Candidate
  <2> QED
    BY <2>1
<1>3. f \in [list -> told] /\ \A c \in told : \E s \in list : f[s] = c
  OBVIOUS
<1> HIDE DEF f, told
<1>4. f \in Bijection(list, told)
  BY <1>2, <1>3 DEF Bijection, Injection, IsInjective, Surjection
<1> QED
  BY <1>1, <1>4, FS_Bijection DEF ExistsBijection, told

\* select_spot_universe: only eligible markets are watched, no more than the
\* cap, and one that is left out leaves the places to others that are traded no
\* less, whatever the exchange lists and the volumes it tells.
THEOREM UniverseIsMostTraded ==
    ASSUME NEW listing \in [Symbol -> Metadata], NEW volumes \in Volumes
    PROVE  LET eligible == Filtered(listing, volumes)
               chosen == Selected(listing, volumes)
           IN  /\ chosen \subseteq eligible /\ Cardinality(chosen) <= MaxUniverse
               /\ \A s \in eligible \ chosen :
                     /\ Cardinality(chosen) = MaxUniverse
                     /\ \A r \in chosen : volumes[r] >= volumes[s]
<1> DEFINE eligible == Filtered(listing, volumes)
           chosen == Selected(listing, volumes)
<1>1. MaxUniverse \in Nat /\ MinQuoteVolume \in Nat /\ MaxQuoteVolume \in Nat
  BY UniverseAssumption
<1>2. eligible \in SUBSET Symbol
  BY DEF Filtered
<1>3. \A s \in eligible : volumes[s] \in Nat
  <2>1. \A s \in eligible : Eligible(listing[s], volumes[s])
    BY DEF Filtered
  <2>2. \A s \in eligible : volumes[s] \in {NoVolume} \cup 0..MaxQuoteVolume
    BY <1>2 DEF Volumes
  <2> QED
    BY <1>1, <2>1, <2>2 DEF Eligible
<1>4. chosen = First(eligible, volumes, MaxUniverse)
  BY DEF Selected, First, Ahead, Before
<1> HIDE DEF eligible, chosen
<1>5. chosen \subseteq eligible /\ Cardinality(chosen) \in 0..MaxUniverse
  BY <1>1, <1>2, <1>3, <1>4, FirstFits
<1>6. ASSUME NEW s \in eligible \ chosen
      PROVE  /\ Cardinality(chosen) = MaxUniverse
             /\ \A r \in chosen : volumes[r] >= volumes[s]
  <2>1. Cardinality(chosen) = MaxUniverse
    BY <1>1, <1>2, <1>3, <1>4, FullList
  <2>2. ASSUME NEW r \in chosen PROVE volumes[r] >= volumes[s]
    <3>1. Before(volumes, r, s)
      BY <1>1, <1>2, <1>3, <1>4, FirstAreAhead
    <3>2. volumes[r] \in Nat /\ volumes[s] \in Nat
      BY <1>3, <1>5
    <3> QED
      BY <3>1, <3>2 DEF Before
  <2> QED
    BY <2>1, <2>2
<1> QED
  BY <1>1, <1>5, <1>6 DEF eligible, chosen

\* Neither the watched markets nor the candidates ever exceed their caps.
THEOREM ListsAreCapped == Spec => []ListsFit
<1>1. Init => ListsFit
  <2>1. Cardinality({}) = 0
    BY FS_EmptySet
  <2> QED
    BY <2>1, RankingAssumption, UniverseAssumption DEF Init, ListsFit
<1>2. ListsFit /\ IInv /\ [Next]_vars => ListsFit'
  <2> SUFFICES ASSUME ListsFit, IInv, [Next]_vars PROVE ListsFit'
    OBVIOUS
  <2>1. Cardinality(universe') <= MaxUniverse
    <3>1. CASE universe' = universe
      BY <3>1 DEF ListsFit
    <3>2. CASE universe' # universe
      <4>1. Bootstrap
        BY <3>2 DEF Next, Tick, Stream, RollingTicker, BookTicker, ClosedKline,
                    Evaluate, vars, outVars
      <4>2. PICK listing \in [Symbol -> Metadata] : \E volumes \in Volumes :
              universe' = Selected(listing, volumes)
        BY <3>2, <4>1 DEF Bootstrap
      <4>3. PICK volumes \in Volumes : universe' = Selected(listing, volumes)
        BY <4>2
      <4> QED
        BY <4>3, UniverseIsMostTraded
    <3> QED
      BY <3>1, <3>2
  <2>2. Cardinality(published') <= MaxDynamic
    <3>1. CASE published' = published
      BY <3>1 DEF ListsFit
    <3>2. CASE published' # published
      <4>1. Evaluate
        BY <3>2 DEF Next, Tick, Stream, RollingTicker, BookTicker, ClosedKline,
                    Bootstrap, vars, outVars
      <4>2. PICK hot \in SUBSET universe : \E score \in [hot -> Score] :
              published' = {Candidate(s) : s \in First(hot, score, MaxDynamic)}
        BY <4>1 DEF Evaluate
      <4>3. PICK score \in [hot -> Score] :
              published' = {Candidate(s) : s \in First(hot, score, MaxDynamic)}
        BY <4>2
      <4>4. hot \in SUBSET Symbol /\ MaxDynamic \in Nat /\ \A s \in hot : score[s] \in Nat
        <5>1. universe \in SUBSET Symbol
          BY DEF IInv, TypeOK
        <5>2. Score \subseteq Nat /\ MaxDynamic \in Nat
          BY RankingAssumption
        <5>3. \A s \in hot : score[s] \in Score
          OBVIOUS
        <5> QED
          BY <5>1, <5>2, <5>3
      <4>5. /\ First(hot, score, MaxDynamic) \in SUBSET Symbol
            /\ Cardinality(First(hot, score, MaxDynamic)) \in 0..MaxDynamic
        BY <4>4, FirstFits
      <4>6. Cardinality(published') = Cardinality(First(hot, score, MaxDynamic))
        BY <4>3, <4>5, OneEach
      <4> QED
        BY <4>4, <4>5, <4>6
    <3> QED
      BY <3>1, <3>2
  <2> QED
    BY <2>1, <2>2 DEF ListsFit
<1> QED
  BY <1>1, <1>2, InductiveInvariant, PTL DEF Spec

\* Where 15 minutes fit into a history, a tradable pair that surges is published
\* by the next evaluation, or the list is full: nothing that was lost elsewhere,
\* came late or came from the other feed hides it.
THEOREM SurgesArePublished ==
    ASSUME FifteenMinutesFit
    PROVE  Spec => SurgeIsPublished
<1> DEFINE Shown == phase = "due" /\ phase' # "due" =>
                       \A s \in universe \cap quoted :
                          Surges(s) => \/ \E c \in published' : c.symbol = s
                                       \/ Cardinality(published') = MaxDynamic
<1>1. IInv /\ RInv /\ [Next]_vars => [Shown]_vars
  <2> SUFFICES ASSUME IInv, RInv, Next, phase = "due", phase' # "due",
                      NEW s \in universe \cap quoted, Surges(s)
               PROVE  \/ \E c \in published' : c.symbol = s
                      \/ Cardinality(published') = MaxDynamic
    OBVIOUS
  <2>1. Evaluate
    BY DEF Next, Tick, Stream, Bootstrap, RollingTicker, BookTicker, ClosedKline
  <2> DEFINE judged == {r \in universe : Judged(r)}
             sure == {r \in judged : Cardinality(Reasons(history[r])) >= 3}
  <2>2. s \in sure
    BY SurgeJudged, SurgeReasons
  <2> DEFINE possible == {r \in judged : Cardinality(Reasons(history[r])
                                             \cup OtherReasons(history[r])) >= 3}
  <2>3. \E hot \in SUBSET possible : \E score \in [hot -> Score] :
           sure \subseteq hot /\ published' = {Candidate(r) : r \in First(hot, score, MaxDynamic)}
    BY <2>1 DEF Evaluate, First, Ahead
  <2>4. PICK hot \in SUBSET judged : \E score \in [hot -> Score] :
           sure \subseteq hot /\ published' = {Candidate(r) : r \in First(hot, score, MaxDynamic)}
    <3>1. possible \subseteq judged
      OBVIOUS
    <3> HIDE DEF possible, judged, sure
    <3> QED
      BY <2>3, <3>1
  <2>5. PICK score \in [hot -> Score] :
           sure \subseteq hot /\ published' = {Candidate(r) : r \in First(hot, score, MaxDynamic)}
    BY <2>4
  <2>6. hot \in SUBSET Symbol /\ s \in hot /\ First(hot, score, MaxDynamic) \in SUBSET Symbol
    BY <2>2, <2>5 DEF IInv, TypeOK, First
  <2>7. CASE s \in First(hot, score, MaxDynamic)
    <3>1. Candidate(s) \in published' /\ Candidate(s).symbol = s
      BY <2>5, <2>7 DEF Candidate
    <3> QED
      BY <3>1
  <2>8. CASE s \notin First(hot, score, MaxDynamic)
    <3>1. Cardinality(First(hot, score, MaxDynamic)) = MaxDynamic
      <4>1. MaxDynamic \in Nat /\ \A r \in hot : score[r] \in Nat
        BY RankingAssumption
      <4> QED
        BY <2>6, <2>8, <4>1, FullList
    <3>2. Cardinality(published') = Cardinality(First(hot, score, MaxDynamic))
      BY <2>5, <2>6, OneEach
    <3> QED
      BY <3>1, <3>2
  <2> QED
    BY <2>7, <2>8
<1>2. Spec => []RInv
  BY InitRInv, NextRInv, InductiveInvariant, PTL DEF Spec
<1>3. Spec => [][Shown]_vars
  <2> HIDE DEF Shown
  <2> QED
    BY <1>1, <1>2, InductiveInvariant, PTL DEF Spec
<1> QED
  BY <1>3 DEF SurgeIsPublished

-----------------------------------------------------------------------------
(* The candidate manager                                                   *)

\* rank_stage1_candidates loses no candidate and adds none.
LEMMA RankedOnce ==
    ASSUME NEW S \in SUBSET Symbol, NEW score \in [S -> Score]
    PROVE  Ranked(score) \in Seq(S)
<1> DEFINE D == DOMAIN score
           n == Cardinality(D)
           at(i) == CHOOSE s \in D : Cardinality(Ahead(D, score, s)) = i - 1
<1>0. D = S
  OBVIOUS
<1>1. /\ D \in SUBSET Symbol /\ \A s \in D : score[s] \in Nat
      /\ n \in Nat
  <2> HIDE DEF D
  <2>1. D \in SUBSET Symbol /\ \A s \in D : score[s] \in Nat
    BY <1>0, RankingAssumption
  <2> QED
    BY <2>1, Ranks
<1>2. Ranked(score) = [i \in 1..n |-> at(i)]
  BY DEF Ranked
<1> HIDE DEF D
<1>3. \A i \in 1..n : at(i) \in S
  <2> TAKE i \in 1..n
  <2>1. i - 1 \in 0..(n - 1)
    BY <1>1
  <2>2. \E s \in D : Cardinality(Ahead(D, score, s)) = i - 1
    BY <1>1, <2>1, RankTaken
  <2> QED
    BY <1>0, <2>2
<1> HIDE DEF n, at
<1>4. [i \in 1..n |-> at(i)] \in [1..n -> S]
  BY <1>3
<1> QED
  BY <1>1, <1>2, <1>4, SequenceOf

\* There is a weakest of the selected.
LEMMA WeakestSelected ==
    ASSUME NEW S \in SUBSET Symbol, NEW score \in [S -> Score], S # {}
    PROVE  Weakest(score) \in S
<1>0. \A s \in S : score[s] \in Nat
  BY RankingAssumption
<1>1. IsFiniteSet(S) /\ Cardinality(S) \in Nat
  BY <1>0, Ranks
<1>2. Cardinality(S) # 0
  BY <1>1, FS_EmptySet
<1>3. Cardinality(S) - 1 \in 0..(Cardinality(S) - 1)
  BY <1>1, <1>2
<1>4. PICK w \in S : Cardinality(Ahead(S, score, w)) = Cardinality(S) - 1
  BY <1>0, <1>3, RankTaken
<1>5. Ahead(S, score, w) \in SUBSET (S \ {w})
  <2>1. Symbol \subseteq Nat /\ Score \subseteq Nat
    BY RankingAssumption, CandidateAssumption
  <2>2. w \in Nat /\ score[w] \in Nat
    BY <2>1
  <2>3. w \notin Ahead(S, score, w)
    BY <2>2 DEF Ahead, Before
  <2>4. Ahead(S, score, w) \subseteq S
    BY DEF Ahead, Before
  <2> QED
    BY <2>3, <2>4
<1>6. Ahead(S, score, w) = S \ {w}
  <2>1. IsFiniteSet(S \ {w}) /\ Cardinality(S \ {w}) = Cardinality(S) - 1
    BY <1>1, FS_RemoveElement
  <2> QED
    BY <1>4, <1>5, <2>1, FS_Subset
<1>7. \A r \in S \ {w} : Before(score, r, w)
  BY <1>6 DEF Ahead
<1>8. DOMAIN score = S
  OBVIOUS
<1> QED
  BY <1>7, <1>8 DEF Weakest

\* A set that holds 0 and the successor of each natural in it holds them all.
LEMMA NatSetInduction ==
    ASSUME NEW T, 0 \in T, \A n \in Nat : n \in T => n + 1 \in T
    PROVE  \A n \in Nat : n \in T
<1> SUFFICES ASSUME NEW b \in Nat, b \notin T PROVE FALSE
  OBVIOUS
<1> DEFINE B == {n \in Nat : n \notin T}
<1>1. PICK m \in B : \A k \in B : m <= k
  <2>1. b \in B /\ B \in SUBSET Nat
    OBVIOUS
  <2> HIDE DEF B
  <2> QED
    BY <2>1, LeastNat
<1>2. m # 0 /\ m - 1 \in Nat /\ m - 1 \notin B
  BY <1>1
<1> QED
  BY <1>1, <1>2

\* The selections after 0, 1, ... n turns.
Turns(selection, challengers, n, after) ==
    after = [k \in 0..n |->
                IF k = 0 THEN {selection}
                ELSE {Challenge(previous, challengers[k]) : previous \in after[k - 1]}]

LEMMA TurnsExist ==
    ASSUME NEW selection, NEW challengers
    PROVE  \A n \in Nat : \E after : Turns(selection, challengers, n, after)
<1> DEFINE next(set, k) == {Challenge(previous, challengers[k]) : previous \in set}
           T == {n \in Nat : \E after : Turns(selection, challengers, n, after)}
<1>1. 0 \in T
  <2> DEFINE g == [k \in 0..0 |-> {selection}]
  <2>1. Turns(selection, challengers, 0, g)
    BY DEF Turns
  <2> QED
    BY <2>1
<1>2. ASSUME NEW n \in Nat, n \in T PROVE n + 1 \in T
  <2>1. PICK f : Turns(selection, challengers, n, f)
    BY <1>2
  <2> DEFINE g == [k \in 0..(n + 1) |-> IF k = n + 1 THEN next(f[n], n + 1) ELSE f[k]]
  <2>2. f = [k \in 0..n |-> IF k = 0 THEN {selection} ELSE next(f[k - 1], k)]
    BY <2>1 DEF Turns
  <2> HIDE DEF next
  <2>3. ASSUME NEW k \in 0..(n + 1)
        PROVE  g[k] = IF k = 0 THEN {selection} ELSE next(g[k - 1], k)
    <3>1. CASE k = n + 1
      BY <3>1
    <3>2. CASE k \in 0..n
      <4>1. f[k] = IF k = 0 THEN {selection} ELSE next(f[k - 1], k)
        BY <2>2, <3>2
      <4>2. g[k] = f[k]
        BY <3>2
      <4>3. k # 0 => g[k - 1] = f[k - 1]
        BY <3>2
      <4> QED
        BY <4>1, <4>2, <4>3
    <3> QED
      BY <3>1, <3>2
  <2>4. g = [k \in 0..(n + 1) |-> IF k = 0 THEN {selection} ELSE next(g[k - 1], k)]
    <3>1. g = [k \in 0..(n + 1) |-> g[k]]
      OBVIOUS
    <3> HIDE DEF g
    <3> QED
      BY <2>3, <3>1
  <2>5. Turns(selection, challengers, n + 1, g)
    <3> HIDE DEF g
    <3> QED
      BY <2>4 DEF next, Turns
  <2> QED
    BY <2>5
<1> HIDE DEF T
<1>3. \A n \in Nat : n \in T
  BY <1>1, <1>2, NatSetInduction
<1> QED
  BY <1>3 DEF T

\* What a turn keeps, the loop of _apply_hysteresis keeps.
LEMMA LoopKeeps ==
    ASSUME NEW Good, NEW selection \in Good, NEW challengers, Len(challengers) \in Nat,
           \A previous \in Good : \A k \in 1..Len(challengers) :
               Challenge(previous, challengers[k]) \in Good
    PROVE  Challenged(selection, challengers) \subseteq Good
<1> DEFINE last == Len(challengers)
           after == CHOOSE f : Turns(selection, challengers, last, f)
<1>1. Turns(selection, challengers, last, after)
  BY TurnsExist
<1>2. Challenged(selection, challengers) = after[last]
  BY DEF Challenged, Turns
<1> HIDE DEF after
<1> DEFINE T == {n \in Nat : n <= last => after[n] \subseteq Good}
<1>3. after[0] = {selection}
  BY <1>1 DEF Turns
<1>4. 0 \in T
  BY <1>3
<1>5. ASSUME NEW n \in Nat, n \in T PROVE n + 1 \in T
  <2> SUFFICES ASSUME n + 1 <= last PROVE after[n + 1] \subseteq Good
    OBVIOUS
  <2> DEFINE next(set, k) == {Challenge(previous, challengers[k]) : previous \in set}
  <2>1. after[n + 1] = next(after[n], n + 1)
    <3>1. after = [k \in 0..last |-> IF k = 0 THEN {selection} ELSE next(after[k - 1], k)]
      BY <1>1 DEF Turns
    <3>2. n + 1 \in 0..last /\ n + 1 # 0 /\ (n + 1) - 1 = n
      OBVIOUS
    <3> HIDE DEF next, last
    <3> QED
      BY <3>1, <3>2
  <2>2. after[n] \subseteq Good /\ n + 1 \in 1..last
    BY <1>5
  <2> QED
    BY <2>1, <2>2
<1> HIDE DEF T
<1>6. \A n \in Nat : n \in T
  BY <1>4, <1>5, NatSetInduction
<1> QED
  BY <1>2, <1>6 DEF T

\* What a selection is on the way through the loop: no larger than at first,
\* with the true ages; who is still in it has its score, and who is not made
\* room after the residence for one that is better by the margin.
Selections ==
    [score   : UNION {[S -> Score] : S \in SUBSET (Symbol \ Permanent)},
     entered : UNION {[S -> 0..Residence] : S \in SUBSET Symbol}]

FairSelections ==
    {selection \in Selections :
        /\ Cardinality(DOMAIN selection.score) = Cardinality(DOMAIN Filled.score)
        /\ \A s \in Symbol :
              Age(selection, s) = IF s \in DOMAIN dynamic THEN held[s] ELSE 0
        /\ \A s \in DOMAIN dynamic \cap DOMAIN selection.score :
              selection.score[s] = Retained[s]
        /\ \A s \in DOMAIN dynamic \ DOMAIN selection.score :
              /\ held[s] >= Residence
              /\ \E c \in DOMAIN selection.score \ DOMAIN dynamic :
                    selection.score[c] >= Margin + Retained[s]}

LEMMA SlotsTyped ==
    ASSUME SlotsInv
    PROVE  /\ Residence \in Nat /\ Warmup \in Nat /\ Margin \in Nat /\ MaxDynamic \in Nat
           /\ Symbol \subseteq Nat /\ Score \subseteq Nat /\ Permanent \subseteq Symbol
           /\ uptime \in 0..Warmup
           /\ DOMAIN ranking \in SUBSET Symbol /\ ranking \in [DOMAIN ranking -> Score]
           /\ DOMAIN dynamic \in SUBSET (Symbol \ Permanent)
           /\ dynamic \in [DOMAIN dynamic -> Score]
           /\ IsFiniteSet(DOMAIN dynamic)
           /\ Cardinality(DOMAIN dynamic) \in 0..MaxDynamic
           /\ held \in [DOMAIN dynamic -> 0..Residence]
           /\ entered = held
           /\ Retained \in [DOMAIN dynamic -> Score]
<1>1. /\ Residence \in Nat /\ Warmup \in Nat /\ Margin \in Nat /\ MaxDynamic \in Nat
      /\ Symbol \subseteq Nat /\ Score \subseteq Nat /\ Permanent \subseteq Symbol
  BY RankingAssumption, CandidateAssumption
<1>2. /\ uptime \in 0..Warmup
      /\ held \in [DOMAIN dynamic -> 0..Residence]
      /\ entered = held
  BY DEF SlotsInv, SlotsTypeOK, EntriesTrue
<1>3. PICK S \in SUBSET Symbol : ranking \in [S -> Score]
  BY DEF SlotsInv, SlotsTypeOK
<1>4. PICK D \in SUBSET (Symbol \ Permanent) : dynamic \in [D -> Score]
  BY DEF SlotsInv, SlotsTypeOK
<1>5. DOMAIN ranking = S /\ DOMAIN dynamic = D
  BY <1>3, <1>4
<1>6. IsFiniteSet(D)
  <2>1. D \in SUBSET Symbol
    OBVIOUS
  <2> QED
    BY <2>1, RankingAssumption, FS_Subset
<1>7. Cardinality(D) \in Nat /\ Cardinality(D) <= MaxDynamic
  <2>1. Cardinality(DOMAIN dynamic) <= MaxDynamic
    BY DEF SlotsInv, SlotsTypeOK
  <2> QED
    BY <1>5, <1>6, <2>1, FS_CardinalityType
<1>8. Retained \in [DOMAIN dynamic -> Score]
  BY <1>3, <1>4, <1>5 DEF Retained
<1> QED
  BY <1>1, <1>2, <1>3, <1>4, <1>5, <1>6, <1>7, <1>8

\* The best of the others fit into the free slots.
LEMMA AdmittedFit ==
    ASSUME SlotsInv
    PROVE  /\ Admitted \in SUBSET (DOMAIN ranking \ (DOMAIN dynamic \cup Permanent))
           /\ IsFiniteSet(DOMAIN dynamic \cup Admitted)
           /\ Cardinality(DOMAIN dynamic \cup Admitted) \in 0..MaxDynamic
<1> DEFINE free == MaxDynamic - Cardinality(DOMAIN dynamic)
           open == DOMAIN ranking \ (DOMAIN dynamic \cup Permanent)
<1>1. free \in Nat /\ open \in SUBSET Symbol /\ \A s \in open : ranking[s] \in Score
  BY SlotsTyped
<1>0. \A s \in open : ranking[s] \in Nat
  BY <1>1, RankingAssumption
<1>2. Admitted = First(open, ranking, free)
  <2>1. DOMAIN Others \ Permanent = open
    BY DEF Others, Restrict
  <2> QED
    BY <2>1 DEF Admitted, Free
<1>3. /\ Admitted \in SUBSET open
      /\ IsFiniteSet(Admitted)
      /\ Cardinality(Admitted) \in 0..free
  <2> HIDE DEF free, open
  <2> QED
    BY <1>0, <1>1, <1>2, FirstFits
<1>4. /\ IsFiniteSet(DOMAIN dynamic) /\ Cardinality(DOMAIN dynamic) \in 0..MaxDynamic
      /\ MaxDynamic \in Nat
  BY SlotsTyped
<1>5. /\ IsFiniteSet(DOMAIN dynamic \cup Admitted)
      /\ Cardinality(DOMAIN dynamic \cup Admitted) =
           Cardinality(DOMAIN dynamic) + Cardinality(Admitted)
             - Cardinality(DOMAIN dynamic \cap Admitted)
  BY <1>3, <1>4, FS_Union
<1>6. Cardinality(DOMAIN dynamic \cap Admitted) = 0
  <2>1. DOMAIN dynamic \cap Admitted = {}
    BY <1>3
  <2> QED
    BY <2>1, FS_EmptySet
<1> QED
  BY <1>3, <1>4, <1>5, <1>6

\* The loop starts from a fair selection.
LEMMA FilledFair ==
    ASSUME SlotsInv
    PROVE  /\ Filled \in FairSelections
           /\ Cardinality(DOMAIN Filled.score) \in 0..MaxDynamic
<1> DEFINE D == DOMAIN dynamic
           A == Admitted
           filled == Filled
<1>1. /\ D \in SUBSET (Symbol \ Permanent) /\ A \in SUBSET (Symbol \ Permanent)
      /\ D \cap A = {} /\ \A s \in A : ranking[s] \in Score
      /\ Retained \in [D -> Score]
      /\ held \in [D -> 0..Residence] /\ entered = held /\ Residence \in Nat
  BY SlotsTyped, AdmittedFit
<1>2. /\ filled.score = [s \in D \cup A |-> IF s \in D THEN Retained[s] ELSE ranking[s]]
      /\ filled.entered = [s \in D \cup A |-> IF s \in D THEN held[s] ELSE 0]
      /\ filled = [score |-> filled.score, entered |-> filled.entered]
  BY <1>1 DEF Filled
<1> HIDE DEF D, A, filled
<1>3. filled \in Selections
  <2>1. filled.score \in [D \cup A -> Score]
    BY <1>1, <1>2
  <2>2. filled.entered \in [D \cup A -> 0..Residence]
    BY <1>1, <1>2
  <2>3. D \cup A \in SUBSET (Symbol \ Permanent) /\ D \cup A \in SUBSET Symbol
    BY <1>1
  <2> QED
    BY <1>2, <2>1, <2>2, <2>3 DEF Selections
<1>4. \A s \in Symbol : Age(filled, s) = IF s \in D THEN held[s] ELSE 0
  BY <1>2 DEF Age
<1>5. DOMAIN filled.score = D \cup A
  BY <1>2
<1>6. \A s \in D \cap DOMAIN filled.score : filled.score[s] = Retained[s]
  BY <1>2
<1>7. filled \in FairSelections
  BY <1>3, <1>4, <1>5, <1>6 DEF FairSelections, filled, D
<1> QED
  BY <1>5, <1>7, AdmittedFit DEF filled, D, A

\* A turn keeps a selection fair: who made room for a candidate that is itself
\* displaced now was worse than the new one, too.
LEMMA ChallengeFair ==
    ASSUME SlotsInv, Cardinality(DOMAIN Filled.score) # 0,
           NEW selection \in FairSelections, NEW c \in DOMAIN Others
    PROVE  Challenge(selection, c) \in FairSelections
<1> DEFINE score == selection.score
           S == DOMAIN score
           D == DOMAIN dynamic
           w == Weakest(score)
           exchanged == Exchanged(selection, w, c)
<1> SUFFICES ASSUME Displaces(c, selection, w) PROVE exchanged \in FairSelections
  BY DEF Challenge
<1>1. /\ S \in SUBSET (Symbol \ Permanent) /\ score \in [S -> Score]
      /\ selection.entered \in [DOMAIN selection.entered -> 0..Residence]
      /\ DOMAIN selection.entered \in SUBSET Symbol
  <2>1. selection.score \in UNION {[R -> Score] : R \in SUBSET (Symbol \ Permanent)}
    BY DEF FairSelections, Selections
  <2>2. selection.entered \in UNION {[R -> 0..Residence] : R \in SUBSET Symbol}
    BY DEF FairSelections, Selections
  <2> QED
    BY <2>1, <2>2
<1>2. IsFiniteSet(S) /\ S # {} /\ S \in SUBSET Symbol
  <2>1. IsFiniteSet(S) /\ S \in SUBSET Symbol
    BY <1>1, RankingAssumption, FS_Subset
  <2>2. Cardinality(S) # 0
    BY DEF FairSelections
  <2> QED
    BY <2>1, <2>2, FS_EmptySet
<1>3. w \in S
  BY <1>1, <1>2, WeakestSelected
<1>4. /\ c \in Symbol \ Permanent /\ c \notin S /\ c \notin D
      /\ ranking[c] \in Score
      /\ Age(selection, w) >= Residence
      /\ ranking[c] >= score[w] + Margin
  BY SlotsTyped DEF Others, Restrict, Displaces
<1>5. /\ exchanged.score = [r \in (S \ {w}) \cup {c} |-> IF r = c THEN ranking[c] ELSE score[r]]
      /\ exchanged.entered = [r \in DOMAIN selection.entered \cup {c} |-> Age(selection, r)]
      /\ exchanged = [score |-> exchanged.score, entered |-> exchanged.entered]
  BY DEF Exchanged
<1>6. DOMAIN exchanged.score = (S \ {w}) \cup {c}
  BY <1>5
<1>7. exchanged \in Selections
  <2>1. exchanged.score \in [(S \ {w}) \cup {c} -> Score]
    BY <1>1, <1>4, <1>5
  <2>2. \A r \in Symbol : Age(selection, r) \in 0..Residence
    BY <1>1, SlotsTyped DEF Age
  <2>3. exchanged.entered \in [DOMAIN selection.entered \cup {c} -> 0..Residence]
    BY <1>1, <1>4, <1>5, <2>2
  <2>4. /\ (S \ {w}) \cup {c} \in SUBSET (Symbol \ Permanent)
        /\ DOMAIN selection.entered \cup {c} \in SUBSET Symbol
    BY <1>1, <1>4
  <2> HIDE DEF exchanged
  <2> QED
    BY <1>5, <2>1, <2>3, <2>4 DEF Selections
<1>8. Cardinality(DOMAIN exchanged.score) = Cardinality(DOMAIN Filled.score)
  <2>1. IsFiniteSet(S \ {w}) /\ Cardinality(S \ {w}) = Cardinality(S) - 1
    BY <1>2, <1>3, FS_RemoveElement
  <2>2. Cardinality((S \ {w}) \cup {c}) = Cardinality(S \ {w}) + 1
    BY <1>4, <2>1, FS_AddElement
  <2>3. Cardinality(S) \in Nat
    BY <1>2, FS_CardinalityType
  <2>4. Cardinality(S) = Cardinality(DOMAIN Filled.score)
    BY DEF FairSelections
  <2> QED
    BY <1>6, <2>1, <2>2, <2>3, <2>4
<1>9. \A s \in Symbol : Age(exchanged, s) = IF s \in D THEN held[s] ELSE 0
  <2> TAKE s \in Symbol
  <2>1. Age(selection, s) = IF s \in D THEN held[s] ELSE 0
    BY DEF FairSelections
  <2>2. Age(exchanged, s) = Age(selection, s)
    <3> HIDE DEF exchanged
    <3> QED
      BY <1>5 DEF Age
  <2> QED
    BY <2>1, <2>2
<1>10. \A s \in D \cap DOMAIN exchanged.score : exchanged.score[s] = Retained[s]
  <2> TAKE s \in D \cap DOMAIN exchanged.score
  <2>1. s \in S /\ exchanged.score[s] = score[s]
    BY <1>4, <1>5, <1>6
  <2> QED
    BY <2>1 DEF FairSelections
<1>11. ASSUME NEW s \in D \ DOMAIN exchanged.score
       PROVE  /\ held[s] >= Residence
              /\ \E b \in DOMAIN exchanged.score \ D :
                    exchanged.score[b] >= Margin + Retained[s]
  <2>1. /\ c \in DOMAIN exchanged.score \ D /\ exchanged.score[c] = ranking[c]
        /\ Margin \in Nat /\ ranking[c] \in Nat /\ score[w] \in Nat /\ Retained[s] \in Nat
        /\ s \in Symbol
    BY <1>1, <1>3, <1>4, <1>5, <1>6, SlotsTyped
  <2>2. CASE s \in S
    <3>1. s = w
      BY <1>6, <2>2
    <3>2. held[s] >= Residence /\ score[w] = Retained[s]
      BY <1>3, <1>4, <2>1, <3>1 DEF FairSelections
    <3>3. exchanged.score[c] >= Margin + Retained[s]
      BY <1>4, <2>1, <3>2
    <3> QED
      BY <2>1, <3>2, <3>3
  <2>3. CASE s \notin S
    <3>1. /\ held[s] >= Residence
          /\ \E b \in S \ D : score[b] >= Margin + Retained[s]
      BY <2>3 DEF FairSelections
    <3>2. PICK b \in S \ D : score[b] >= Margin + Retained[s]
      BY <3>1
    <3>3. CASE b = w
      <4>1. exchanged.score[c] >= Margin + Retained[s]
        BY <1>4, <2>1, <3>2, <3>3
      <4> QED
        BY <2>1, <3>1, <4>1
    <3>4. CASE b # w
      <4>1. b \in DOMAIN exchanged.score \ D /\ exchanged.score[b] = score[b]
        BY <1>4, <1>5, <1>6, <3>4
      <4> QED
        BY <3>1, <3>2, <4>1
    <3> QED
      BY <3>3, <3>4
  <2> QED
    BY <2>2, <2>3
<1> QED
  BY <1>7, <1>8, <1>9, <1>10, <1>11 DEF FairSelections

\* What update leaves behind is a fair selection.
LEMMA UpdateFair ==
    ASSUME SlotsInv, Update
    PROVE  \E selection \in FairSelections :
              /\ dynamic' = selection.score
              /\ entered' = Cleaned(selection)
              /\ Cardinality(DOMAIN dynamic') \in 0..MaxDynamic
<1> DEFINE challengers == Ranked(Others)
           chosen == IF Cardinality(DOMAIN Filled.score) >= MaxDynamic
                     THEN Challenged(Filled, challengers) ELSE {Filled}
<1>1. PICK selection \in chosen :
        dynamic' = selection.score /\ entered' = Cleaned(selection)
  BY DEF Update
<1>2. MaxDynamic \in Nat \ {0}
  BY SlotsTyped DEF Update
<1>3. /\ Filled \in FairSelections
      /\ Cardinality(DOMAIN Filled.score) \in 0..MaxDynamic
  BY FilledFair
<1>4. selection \in FairSelections
  <2>1. CASE Cardinality(DOMAIN Filled.score) >= MaxDynamic
    <3>1. selection \in Challenged(Filled, challengers)
      BY <1>1, <2>1
    <3>2. Cardinality(DOMAIN Filled.score) # 0
      BY <1>2, <1>3, <2>1
    <3>3. challengers \in Seq(DOMAIN Others)
      <4>1. /\ DOMAIN Others \in SUBSET Symbol
            /\ Others \in [DOMAIN Others -> Score]
        BY SlotsTyped DEF Others, Restrict
      <4> QED
        BY <4>1, RankedOnce
    <3> HIDE DEF challengers
    <3>4. /\ Len(challengers) \in Nat
          /\ \A k \in 1..Len(challengers) : challengers[k] \in DOMAIN Others
      BY <3>3
    <3>5. \A previous \in FairSelections : \A k \in 1..Len(challengers) :
             Challenge(previous, challengers[k]) \in FairSelections
      BY <3>2, <3>4, ChallengeFair
    <3>6. Challenged(Filled, challengers) \subseteq FairSelections
      BY <1>3, <3>4, <3>5, LoopKeeps
    <3> QED
      BY <3>1, <3>6
  <2>2. CASE ~(Cardinality(DOMAIN Filled.score) >= MaxDynamic)
    BY <1>1, <1>3, <2>2
  <2> QED
    BY <2>1, <2>2
<1>5. Cardinality(DOMAIN dynamic') \in 0..MaxDynamic
  BY <1>1, <1>3, <1>4 DEF FairSelections
<1> QED
  BY <1>1, <1>4, <1>5

LEMMA UpdateKeepsSlots == SlotsInv /\ Update => SlotsInv'
<1> SUFFICES ASSUME SlotsInv, Update PROVE SlotsInv'
  OBVIOUS
<1>1. PICK selection \in FairSelections :
        /\ dynamic' = selection.score
        /\ entered' = Cleaned(selection)
        /\ Cardinality(DOMAIN dynamic') \in 0..MaxDynamic
  BY UpdateFair
<1>2. /\ held' = [s \in DOMAIN dynamic' |-> IF s \in DOMAIN dynamic THEN held[s] ELSE 0]
      /\ uptime' = uptime /\ ranking' = ranking
  BY DEF Update
<1>3. PICK S \in SUBSET (Symbol \ Permanent) : dynamic' \in [S -> Score]
  BY <1>1 DEF FairSelections, Selections
<1>4. DOMAIN dynamic' = S
  BY <1>3
<1>5. held \in [DOMAIN dynamic -> 0..Residence] /\ Residence \in Nat /\ MaxDynamic \in Nat
  BY SlotsTyped
<1>6. held' \in [DOMAIN dynamic' -> 0..Residence]
  BY <1>2, <1>5
<1>7. entered' = held'
  <2>1. \A s \in S : Age(selection, s) = IF s \in DOMAIN dynamic THEN held[s] ELSE 0
    BY <1>3 DEF FairSelections
  <2> QED
    BY <1>1, <1>2, <1>4, <2>1 DEF Cleaned
<1>8. SlotsTypeOK'
  <2>1. uptime' \in 0..Warmup /\ ranking' \in UNION {[R -> Score] : R \in SUBSET Symbol}
    BY <1>2 DEF SlotsInv, SlotsTypeOK
  <2>2. dynamic' \in UNION {[R -> Score] : R \in SUBSET (Symbol \ Permanent)}
    BY <1>3
  <2>3. Cardinality(DOMAIN dynamic') <= MaxDynamic
    BY <1>1, <1>5
  <2>4. entered' \in [DOMAIN entered' -> 0..Residence]
    BY <1>6, <1>7
  <2> QED
    BY <1>6, <2>1, <2>2, <2>3, <2>4 DEF SlotsTypeOK
<1> QED
  BY <1>7, <1>8 DEF SlotsInv, EntriesTrue

LEMMA TickKeepsSlots == SlotsInv /\ Elapse => SlotsInv'
<1> SUFFICES ASSUME SlotsInv, Elapse PROVE SlotsInv'
  OBVIOUS
<1>1. /\ uptime' = IF uptime < Warmup THEN uptime + 1 ELSE uptime
      /\ entered' = Older(entered) /\ held' = Older(held)
      /\ ranking' = ranking /\ dynamic' = dynamic
  BY DEF Elapse
<1>2. /\ uptime \in 0..Warmup /\ Warmup \in Nat /\ Residence \in Nat
      /\ held \in [DOMAIN dynamic -> 0..Residence] /\ entered = held
  BY SlotsTyped
<1>3. uptime' \in 0..Warmup
  BY <1>1, <1>2
<1>4. held' \in [DOMAIN dynamic -> 0..Residence]
  BY <1>1, <1>2 DEF Older
<1>5. entered' = held'
  BY <1>1, <1>2
<1>6. entered' \in [DOMAIN entered' -> 0..Residence]
  BY <1>4, <1>5
<1> QED
  BY <1>1, <1>3, <1>4, <1>5, <1>6 DEF SlotsInv, SlotsTypeOK, EntriesTrue

LEMMA RankKeepsSlots ==
    ASSUME SlotsInv, NEW s \in Symbol, Rank(s)
    PROVE  SlotsInv'
<1>1. uptime' = uptime /\ dynamic' = dynamic /\ entered' = entered /\ held' = held
  BY DEF Rank
<1>2. \E S \in SUBSET Symbol : ranking' \in [S -> Score]
  <2>1. DOMAIN ranking \in SUBSET Symbol /\ ranking \in [DOMAIN ranking -> Score]
    BY SlotsTyped
  <2>2. CASE ranking' = Restrict(ranking, DOMAIN ranking \ {s})
    <3>1. ranking' \in [DOMAIN ranking \ {s} -> Score]
      BY <2>1, <2>2 DEF Restrict
    <3> QED
      BY <2>1, <3>1
  <2>3. ASSUME NEW score \in Score,
               ranking' = [r \in DOMAIN ranking \cup {s} |-> IF r = s THEN score ELSE ranking[r]]
        PROVE  \E S \in SUBSET Symbol : ranking' \in [S -> Score]
    <3>1. ranking' \in [DOMAIN ranking \cup {s} -> Score]
      BY <2>1, <2>3
    <3> QED
      BY <2>1, <3>1
  <2> QED
    BY <2>2, <2>3 DEF Rank
<1>3. ranking' \in UNION {[S -> Score] : S \in SUBSET Symbol}
  BY <1>2
<1> QED
  BY <1>1, <1>3 DEF SlotsInv, SlotsTypeOK, EntriesTrue

LEMMA InitSlots == SlotsInit => SlotsInv
<1> SUFFICES ASSUME SlotsInit PROVE SlotsInv
  OBVIOUS
<1>1. /\ uptime = 0 /\ ranking = <<>> /\ dynamic = <<>>
      /\ entered = <<>> /\ held = <<>>
  BY DEF SlotsInit
<1>2. Warmup \in Nat /\ Residence \in Nat /\ MaxDynamic \in Nat
  BY RankingAssumption, CandidateAssumption
<1>3. <<>> \in [{} -> Score] /\ <<>> \in [{} -> 0..Residence] /\ DOMAIN <<>> = {}
  OBVIOUS
<1>4. Cardinality(DOMAIN dynamic) <= MaxDynamic
  <2>1. DOMAIN dynamic = {} /\ Cardinality({}) = 0
    BY <1>1, <1>3, FS_EmptySet
  <2>2. Cardinality(DOMAIN dynamic) <= MaxDynamic
    BY <1>2, <2>1
  <2> QED
    BY <2>2
<1>5. /\ uptime \in 0..Warmup
      /\ ranking \in UNION {[S -> Score] : S \in SUBSET Symbol}
      /\ dynamic \in UNION {[S -> Score] : S \in SUBSET (Symbol \ Permanent)}
  <2>1. {} \in SUBSET Symbol /\ {} \in SUBSET (Symbol \ Permanent)
    OBVIOUS
  <2>2. \E S \in SUBSET Symbol : <<>> \in [S -> Score]
    BY <1>3, <2>1
  <2>3. \E S \in SUBSET (Symbol \ Permanent) : <<>> \in [S -> Score]
    BY <1>3, <2>1
  <2>4. 0 \in 0..Warmup
    BY <1>2
  <2> QED
    BY <1>1, <2>2, <2>3, <2>4
<1>6. held \in [DOMAIN dynamic -> 0..Residence] /\ entered \in [DOMAIN entered -> 0..Residence]
  BY <1>1, <1>3
<1> QED
  BY <1>1, <1>4, <1>5, <1>6 DEF SlotsInv, SlotsTypeOK, EntriesTrue

LEMMA NextSlots == SlotsInv /\ [SlotsNext]_slotVars => SlotsInv'
<1> SUFFICES ASSUME SlotsInv, [SlotsNext]_slotVars PROVE SlotsInv'
  OBVIOUS
<1>1. CASE Update
  BY <1>1, UpdateKeepsSlots
<1>2. CASE Elapse
  BY <1>2, TickKeepsSlots
<1>3. CASE \E s \in Symbol : Rank(s)
  BY <1>3, RankKeepsSlots
<1>4. CASE UNCHANGED slotVars
  BY <1>4 DEF slotVars, SlotsInv, SlotsTypeOK, EntriesTrue
<1> QED
  BY <1>1, <1>2, <1>3, <1>4 DEF SlotsNext

\* A step that takes a slot from a symbol.
LEMMA SlotLost ==
    ASSUME SlotsInv, [SlotsNext]_slotVars,
           NEW s \in DOMAIN dynamic \ DOMAIN dynamic'
    PROVE  /\ held[s] >= Residence
           /\ \E c \in DOMAIN dynamic' \ DOMAIN dynamic :
                 dynamic'[c] >= Margin +
                     (IF s \in DOMAIN ranking THEN ranking[s] ELSE dynamic[s])
<1>1. Update
  BY DEF SlotsNext, Elapse, Rank, slotVars
<1>2. PICK selection \in FairSelections :
        /\ dynamic' = selection.score
        /\ entered' = Cleaned(selection)
        /\ Cardinality(DOMAIN dynamic') \in 0..MaxDynamic
  BY <1>1, UpdateFair
<1>3. Retained[s] = IF s \in DOMAIN ranking THEN ranking[s] ELSE dynamic[s]
  BY DEF Retained
<1>4. /\ held[s] >= Residence
      /\ \E c \in DOMAIN dynamic' \ DOMAIN dynamic : dynamic'[c] >= Margin + Retained[s]
  BY <1>2 DEF FairSelections
<1> QED
  BY <1>3, <1>4

\* The inductive invariant of the candidate manager: besides the types, the age
\* of an entry is how long the symbol has really held its slot.  An entry that
\* outlived its slot would let a symbol that came back lose it at once.
THEOREM SlotsInvariant == SlotsSpec => []SlotsInv
<1>1. SlotsInit => SlotsInv
  BY InitSlots
<1>2. SlotsInv /\ [SlotsNext]_slotVars => SlotsInv'
  BY NextSlots
<1> QED
  BY <1>1, <1>2, PTL DEF SlotsSpec

\* Never more than max_dynamic_candidates hold a slot, and no permanent symbol
\* is among them, also after an update that displaces several at once.
THEOREM SlotsTypeCorrect == SlotsSpec => []SlotsTypeOK
<1>1. SlotsSpec => []SlotsInv
  BY SlotsInvariant
<1>2. SlotsInv => SlotsTypeOK
  BY DEF SlotsInv
<1> QED
  BY <1>1, <1>2, PTL

\* A symbol gives up its slot only after it has really held it for the
\* residence time, however often it came and went before, and only for one that
\* is better by the margin when it enters, also when one update displaces many.
THEOREM NobodyChurns == SlotsSpec => NoChurn
<1> DEFINE Fair(s) ==
       /\ held[s] >= Residence
       /\ \E c \in DOMAIN dynamic' \ DOMAIN dynamic :
             dynamic'[c] >= Margin + (IF s \in DOMAIN ranking THEN ranking[s] ELSE dynamic[s])
<1>1. SlotsSpec => []SlotsInv
  BY SlotsInvariant
<1>2. SlotsInv /\ [SlotsNext]_slotVars =>
        [\A s \in DOMAIN dynamic \ DOMAIN dynamic' : Fair(s)]_slotVars
  BY SlotLost
<1> QED
  BY <1>1, <1>2, PTL DEF SlotsSpec, NoChurn
=============================================================================
