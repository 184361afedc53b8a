----------------------- MODULE LocalOrderBook_proofs ------------------------
(***************************************************************************)
(* What the methods of LocalOrderBook do to a book whose buffered diffs    *)
(* and whose argument are true of the exchange: the lemmas the proofs of   *)
(* OrderBookFeed and BookSync rest on.                                     *)
(***************************************************************************)
EXTENDS DepthStream, SequenceTheorems, FiniteSetTheorems, WellFoundedInduction, TLAPS

-----------------------------------------------------------------------------
(* Induction over Nat in terms of sets, from the well-foundedness of the   *)
(* finite subsets of Nat.                                                  *)

\* A nonempty set of naturals has a least element.
LEMMA LeastNat ==
  ASSUME NEW T \in SUBSET Nat, T # {}
  PROVE  \E m \in T : \A k \in T : m <= k
<1> DEFINE I == {0..n : n \in T}
<1>1. I \subseteq FiniteSubsetsOf(Nat)
  <2>1. ASSUME NEW n \in T PROVE 0..n \in SUBSET Nat /\ IsFiniteSet(0..n)
    BY FS_Interval
  <2> QED BY <2>1 DEF FiniteSubsetsOf
<1>2. I # {}
  OBVIOUS
<1>3. PICK x \in I : \A y \in I : ~(<<y, x>> \in StrictSubsetOrdering(Nat))
  <2> HIDE DEF I
  <2> QED BY <1>1, <1>2, FS_StrictSubsetOrderingWellFounded, WFMin
<1>4. PICK m \in T : x = 0..m
  OBVIOUS
<1>5. ASSUME NEW k \in T, k < m PROVE FALSE
  <2>1. 0..k \in I
    OBVIOUS
  <2>2. 0..k \subseteq 0..m /\ 0..k # 0..m /\ 0..k \in SUBSET Nat /\ 0..m \in SUBSET Nat
    <3>1. m \in 0..m /\ m \notin 0..k
      BY <1>5
    <3> QED BY <3>1, <1>5
  <2> QED BY <2>1, <2>2, <1>3, <1>4 DEF StrictSubsetOrdering
<1> QED BY <1>5

\* A set that holds 0 and the successor of each natural in it holds them all.
LEMMA NatSetInduction ==
  ASSUME NEW T, 0 \in T, \A n \in Nat : n \in T => n + 1 \in T
  PROVE  \A n \in Nat : n \in T
<1> SUFFICES ASSUME NEW b \in Nat, b \notin T PROVE FALSE
  OBVIOUS
<1> DEFINE B == {n \in Nat : n \notin T}
<1>1. PICK m \in B : \A k \in B : m <= k
  <2>1. b \in B OBVIOUS
  <2>2. B \in SUBSET Nat OBVIOUS
  <2> HIDE DEF B
  <2> QED BY <2>1, <2>2, LeastNat
<1>2. m # 0 /\ m - 1 \in Nat /\ m - 1 \notin B
  BY <1>1
<1> QED BY <1>1, <1>2

\* A set of indices that holds every index below one of its own is 1..k, k its
\* cardinality.
LEMMA InitialSegment ==
  ASSUME NEW n \in Nat, NEW S \in SUBSET (1..n),
         \A j \in S : \A i \in 1..j : i \in S
  PROVE  Cardinality(S) \in 0..n /\ S = 1..Cardinality(S)
<1> DEFINE Out == {i \in 1..(n + 1) : i \notin S}
<1>1. PICK m \in Out : \A i \in Out : m <= i
  <2>1. n + 1 \in Out OBVIOUS
  <2>2. Out \in SUBSET Nat OBVIOUS
  <2> HIDE DEF Out
  <2> QED BY <2>1, <2>2, LeastNat
<1>2. S = 1..(m - 1)
  <2>1. ASSUME NEW i \in 1..(m - 1) PROVE i \in S
    BY <1>1
  <2>2. ASSUME NEW i \in S PROVE i \in 1..(m - 1)
    BY <1>1
  <2> QED BY <2>1, <2>2
<1>3. Cardinality(S) = m - 1
  BY <1>2, FS_Interval
<1> QED BY <1>2, <1>3

-----------------------------------------------------------------------------
(* Replay is defined by recursion on the number of diffs replayed.         *)

Replayed(book, diffs, n, after) ==
    after = [k \in 0..n |-> IF k = 0 THEN book ELSE ApplyDiff(after[k - 1], diffs[k])]

LEMMA ReplayExists ==
  ASSUME NEW book, NEW diffs
  PROVE  \A n \in Nat : \E after : Replayed(book, diffs, n, after)
<1> DEFINE T == {n \in Nat : \E after : Replayed(book, diffs, n, after)}
<1>1. 0 \in T
  <2> DEFINE g == [k \in 0..0 |-> book]
  <2>1. Replayed(book, diffs, 0, g)
    BY DEF Replayed
  <2> QED BY <2>1
<1>2. ASSUME NEW n \in Nat, n \in T PROVE n + 1 \in T
  <2>1. PICK f : Replayed(book, diffs, n, f) BY <1>2
  <2> DEFINE g == [k \in 0..(n+1) |-> IF k = n + 1 THEN ApplyDiff(f[n], diffs[n+1]) ELSE f[k]]
  <2>2. ASSUME NEW k \in 0..(n+1)
        PROVE g[k] = IF k = 0 THEN book ELSE ApplyDiff(g[k-1], diffs[k])
    <3>1. CASE k = n + 1
      BY <3>1
    <3>2. CASE k \in 0..n
      <4>1. f[k] = IF k = 0 THEN book ELSE ApplyDiff(f[k-1], diffs[k])
        BY <2>1, <3>2 DEF Replayed
      <4>2. g[k] = f[k] BY <3>2
      <4>3. k # 0 => g[k-1] = f[k-1] BY <3>2
      <4> QED BY <4>1, <4>2, <4>3
    <3> QED BY <3>1, <3>2
  <2>3. Replayed(book, diffs, n+1, g)
    <3> HIDE DEF g
    <3>1. g = [k \in 0..(n+1) |-> g[k]] BY DEF g
    <3> QED BY <3>1, <2>2 DEF Replayed
  <2> QED BY <2>3
<1> HIDE DEF T
<1>3. \A n \in Nat : n \in T
  BY <1>1, <1>2, NatSetInduction
<1> QED BY <1>3 DEF T

\* The books after 0, 1, ... of the diffs, the last of which Replay returns.
IsTrace(book, diffs, after) ==
    /\ after[0] = book
    /\ \A n \in 0..(Len(diffs) - 1) : after[n + 1] = ApplyDiff(after[n], diffs[n + 1])
    /\ Replay(book, diffs) = after[Len(diffs)]

LEMMA ReplaySteps ==
  ASSUME NEW book, NEW diffs, Len(diffs) \in Nat
  PROVE  \E after : IsTrace(book, diffs, after)
<1> DEFINE f == CHOOSE f : Replayed(book, diffs, Len(diffs), f)
<1>1. Replayed(book, diffs, Len(diffs), f)
  BY ReplayExists
<1>2. Replay(book, diffs) = f[Len(diffs)]
  BY DEF Replay, Replayed
<1> HIDE DEF f
<1>3. f[0] = book
  BY <1>1 DEF Replayed
<1>4. ASSUME NEW n \in 0..(Len(diffs) - 1)
      PROVE f[n + 1] = ApplyDiff(f[n], diffs[n + 1])
  BY <1>1 DEF Replayed
<1> QED BY <1>2, <1>3, <1>4 DEF IsTrace

-----------------------------------------------------------------------------
(* A sound book                                                            *)

LEMMA DiffFields ==
  ASSUME NEW d \in Diff
  PROVE  d.U \in Nat \ {0} /\ d.u \in Nat \ {0} /\ d.pu \in Nat /\ d.U <= d.u
BY DEF Diff

LEMMA NewBookSound ==
  ASSUME NEW exch \in Seq(Content)
  PROVE  \A from : Sound(exch, from, NewBook)
<1>1. NewBook \in Book
  <2>1. EmptyContent \in Content
    BY LevelAssumption DEF EmptyContent, Content
  <2> QED BY <2>1 DEF NewBook, Book, BookState, NoId
<1> QED BY <1>1 DEF Sound, NewBook, NoId, Sorted

\* In a book that is not valid the snapshot it came from does not matter.
LEMMA SoundFromAny ==
  ASSUME NEW exch, NEW book, book.state # "valid", NEW f, Sound(exch, f, book)
  PROVE  \A from : Sound(exch, from, book)
BY DEF Sound

\* A snapshot copies the book it was made of.
LEMMA SnapshotCopies ==
  ASSUME NEW exch \in Seq(Content), NEW k \in DOMAIN exch
  PROVE  Snapshot(exch[k]) \in Content /\ Copies(Snapshot(exch[k]), exch, k, k)
<1> DEFINE c == exch[k]
<1>1. c \in Content /\ k \in Nat
  OBVIOUS
<1>2. \A l \in Level : Snapshot(c)[l] = IF l \in Cut(c) THEN 0 ELSE c[l]
  BY DEF Snapshot
<1>3. Snapshot(c) \in Content
  BY <1>1, LevelAssumption DEF Snapshot, Content
<1> QED BY <1>1, <1>2, <1>3 DEF Copies

\* A copy of an uncrossed book is not crossed: levels may lack, but none is
\* made up.
LEMMA UncrossedCopy ==
  ASSUME NEW exch, NEW content, NEW from, NEW n,
         Copies(content, exch, from, n), ~Crossed(exch[n])
  PROVE  ~Crossed(content)
<1> SUFFICES ASSUME NEW p \in Price, NEW q \in Price, p >= q,
                    content[<<"bid", p>>] # 0, content[<<"ask", q>>] # 0
             PROVE  FALSE
  BY DEF Crossed
<1>1. <<"bid", p>> \in Level /\ <<"ask", q>> \in Level
  BY DEF Level
<1>2. exch[n][<<"bid", p>>] # 0 /\ exch[n][<<"ask", q>>] # 0
  BY <1>1 DEF Copies
<1> QED BY <1>2 DEF Crossed

\* Applying a true diff to a copy of any update it starts from or covers gives
\* a copy of its end.
LEMMA ApplyLevelsTrue ==
  ASSUME NEW exch \in Seq(Content), NEW d \in Diff, IsTrue(exch, d),
         NEW from, NEW n \in Base(d.U, d.pu)..d.u,
         NEW content \in Content, Copies(content, exch, from, n)
  PROVE  /\ ApplyLevels(content, d.levels) \in Content
         /\ Copies(ApplyLevels(content, d.levels), exch, from, d.u)
<1> DEFINE new == ApplyLevels(content, d.levels)
<1>1. /\ d.u \in DOMAIN exch /\ from \in DOMAIN exch /\ n \in DOMAIN exch /\ from <= n
      /\ d.u \in Nat /\ from \in Nat /\ n \in Nat /\ n <= d.u
      /\ Base(d.U, d.pu) \in Nat /\ Base(d.U, d.pu) <= n
  <2>1. d.U \in Nat /\ Base(d.U, d.pu) \in 1..(d.U - 1)
    BY DiffFields DEF IsTrue
  <2> QED BY <2>1 DEF IsTrue, Copies
<1>2. \A l \in Level : new[l] = IF l \in DOMAIN d.levels THEN d.levels[l] ELSE content[l]
  BY DEF ApplyLevels
<1>3. new \in Content
  <2>1. PICK D \in SUBSET Level : d.levels \in [D -> Qty]
    BY DEF Diff
  <2>2. \A l \in Level : (IF l \in DOMAIN d.levels THEN d.levels[l] ELSE content[l]) \in Qty
    BY <2>1 DEF Content
  <2> QED BY <2>2 DEF ApplyLevels, Content
<1> HIDE DEF new
<1>4. ASSUME NEW l \in Level
      PROVE  \/ new[l] = exch[d.u][l]
             \/ /\ new[l] = 0 /\ l \in Cut(exch[from])
                /\ \A k \in from..d.u : exch[k][l] = exch[from][l]
  <2>1. CASE l \in DOMAIN d.levels
    BY <1>2, <2>1 DEF IsTrue
  <2>2. CASE l \notin DOMAIN d.levels
    <3>1. new[l] = content[l]
      BY <1>2, <2>2
    <3>2. \A k \in Base(d.U, d.pu)..d.u : exch[k][l] = exch[d.u][l]
      BY <2>2 DEF IsTrue
    <3>3. exch[n][l] = exch[d.u][l]
      BY <3>2
    <3>4. CASE content[l] = exch[n][l]
      BY <3>1, <3>3, <3>4
    <3>5. CASE /\ content[l] = 0 /\ l \in Cut(exch[from])
               /\ \A k \in from..n : exch[k][l] = exch[from][l]
      <4>1. exch[n][l] = exch[from][l]
        BY <1>1, <3>5
      <4>2. ASSUME NEW k \in from..d.u PROVE exch[k][l] = exch[from][l]
        <5>1. CASE k <= n
          BY <1>1, <3>5, <5>1
        <5>2. CASE ~(k <= n)
          <6>1. k \in Base(d.U, d.pu)..d.u
            BY <1>1, <5>2
          <6> QED BY <3>2, <3>3, <4>1, <6>1
        <5> QED BY <5>1, <5>2
      <4> QED BY <3>1, <3>5, <4>2
    <3> QED BY <3>4, <3>5 DEF Copies
  <2> QED BY <2>1, <2>2
<1>5. from <= d.u
  BY <1>1
<1>6. Copies(new, exch, from, d.u)
  BY <1>1, <1>4, <1>5 DEF Copies
<1> QED BY <1>3, <1>6 DEF new

\* What the exchange sends is true.
LEMMA EventIsTrue ==
  ASSUME NEW exch \in Seq(Content), NEW U \in Nat, NEW u \in DOMAIN exch, NEW pu \in Nat,
         NEW stale \in BOOLEAN, pu < U, U <= u, Base(U, pu) >= 1, Market = "spot" => pu = NoId
  PROVE  Event(exch, U, u, pu, stale) \in Diff /\ IsTrue(exch, Event(exch, U, u, pu, stale))
<1> DEFINE T == Touched(exch, Base(U, pu), u)
           L == [l \in T |-> exch[u][l]]
<1>1. Base(U, pu) \in 1..(U - 1)
  BY DEF Base, NoId
<1>2. T \subseteq Level /\ L \in [T -> Qty]
  <2>1. exch[u] \in Content OBVIOUS
  <2> QED BY <2>1 DEF Touched, Content
<1>3. ASSUME NEW l \in Level \ T, NEW k \in Base(U, pu)..u PROVE exch[k][l] = exch[u][l]
  BY <1>3 DEF Touched
<1> HIDE DEF T
<1>4. Event(exch, U, u, pu, stale) = [U |-> U, u |-> u, pu |-> pu, stale |-> stale, levels |-> L]
  BY DEF Event, T
<1>5. L \in UNION {[D -> Qty] : D \in SUBSET Level}
  BY <1>2
<1>6. DOMAIN L = T /\ \A l \in T : L[l] = exch[u][l]
  OBVIOUS
<1> HIDE DEF L
<1>7. Event(exch, U, u, pu, stale) \in Diff
  BY <1>1, <1>4, <1>5 DEF Diff
<1> QED BY <1>1, <1>3, <1>4, <1>6, <1>7 DEF IsTrue

\* What is sound stays so when the exchange moves on.
LEMMA GrowSound ==
  ASSUME NEW e \in Seq(Content), NEW from, NEW b, Sound(e, from, b), NEW c \in Content
  PROVE  Sound(Append(e, c), from, b)
<1> DEFINE f == Append(e, c)
<1>1. /\ f \in Seq(Content) /\ Len(f) = Len(e) + 1 /\ Len(e) \in Nat
      /\ \A k \in 1..Len(e) : f[k] = e[k]
      /\ DOMAIN e = 1..Len(e) /\ DOMAIN f = 1..(Len(e) + 1)
  BY AppendProperties
<1> HIDE DEF f
<1>2. ASSUME NEW i \in DOMAIN b.buffer PROVE IsTrue(f, b.buffer[i])
  <2> DEFINE d == b.buffer[i]
  <2>1. IsTrue(e, d) /\ d \in Diff
    BY DEF Sound, Book
  <2> HIDE DEF d
  <2>2. /\ d.u \in 1..Len(e) /\ Base(d.U, d.pu) \in 1..(d.U - 1)
        /\ Base(d.U, d.pu) \in Nat /\ Base(d.U, d.pu) >= 1 /\ d.u \in Nat
    BY <1>1, <2>1, DiffFields DEF IsTrue
  <2>3. \A k \in Base(d.U, d.pu)..d.u : f[k] = e[k]
    BY <1>1, <2>2
  <2>4. f[d.u] = e[d.u] /\ d.u \in DOMAIN f
    BY <1>1, <2>2
  <2>5. IsTrue(f, d)
    BY <2>1, <2>3, <2>4 DEF IsTrue
  <2> QED BY <2>5 DEF d
<1>3. b.last \in 0..Len(e) => b.last \in 0..Len(f)
  BY <1>1
<1>4. ASSUME Copies(b.content, e, from, b.last) PROVE Copies(b.content, f, from, b.last)
  <2>1. /\ from \in DOMAIN e /\ b.last \in DOMAIN e /\ from <= b.last
        /\ from \in DOMAIN f /\ b.last \in DOMAIN f
    BY <1>1, <1>4 DEF Copies
  <2>2. f[from] = e[from] /\ \A k \in from..b.last : f[k] = e[k]
    BY <1>1, <2>1
  <2>3. f[b.last] = e[b.last]
    BY <1>1, <2>1
  <2> QED BY <1>4, <2>1, <2>2, <2>3 DEF Copies
<1>5. Sound(f, from, b)
  BY <1>2, <1>3, <1>4 DEF Sound
<1> QED BY <1>5 DEF f

\* The exchange's next book is a book.
LEMMA UpdateType ==
  ASSUME NEW c \in Content
  PROVE  Update(c) \subseteq Content
BY DEF Update, Content

-----------------------------------------------------------------------------
(* buffer_diff in a warming book                                           *)

\* Inserting an element after the first k.
LEMMA InsertShape ==
  ASSUME NEW b \in Seq(Diff), NEW d \in Diff, NEW k \in 0..Len(b)
  PROVE  /\ InsertAfter(b, k, d) \in Seq(Diff) /\ Len(InsertAfter(b, k, d)) = Len(b) + 1
         /\ \A i \in 1..k : InsertAfter(b, k, d)[i] = b[i]
         /\ InsertAfter(b, k, d)[k + 1] = d
         /\ \A i \in (k + 1)..Len(b) : InsertAfter(b, k, d)[i + 1] = b[i]
<1>0. k \in Nat /\ Len(b) \in Nat /\ k <= Len(b)
  OBVIOUS
<1> DEFINE head == SubSeq(b, 1, k)
           tail == SubSeq(b, k + 1, Len(b))
           mid  == head \o <<d>>
<1>1. /\ head \in Seq(Diff) /\ Len(head) = k
      /\ \A i \in 1..k : head[i] = b[i]
  BY SubSeqProperties
<1>2. /\ tail \in Seq(Diff) /\ Len(tail) = Len(b) - k
      /\ \A i \in 1..(Len(b) - k) : tail[i] = b[k + i]
  BY SubSeqProperties
<1> HIDE DEF head, tail
<1>3. /\ mid \in Seq(Diff) /\ Len(mid) = k + 1
      /\ \A i \in 1..k : mid[i] = b[i]
      /\ mid[k + 1] = d
  BY <1>1
<1> HIDE DEF mid
<1>4. /\ mid \o tail \in Seq(Diff) /\ Len(mid \o tail) = Len(b) + 1
      /\ \A i \in 1..(k + 1) : (mid \o tail)[i] = mid[i]
      /\ \A i \in (k + 2)..(Len(b) + 1) : (mid \o tail)[i] = tail[i - (k + 1)]
  <2>1. mid \o tail \in Seq(Diff) /\ Len(mid \o tail) = Len(mid) + Len(tail)
    BY <1>2, <1>3, ConcatProperties
  <2>2. \A i \in 1..(Len(mid) + Len(tail)) :
           (mid \o tail)[i] = IF i <= Len(mid) THEN mid[i] ELSE tail[i - Len(mid)]
    BY <1>2, <1>3, ConcatProperties
  <2>3. Len(mid) = k + 1 /\ Len(mid) + Len(tail) = Len(b) + 1
    BY <1>0, <1>2, <1>3
  <2>4. ASSUME NEW i \in 1..(k + 1) PROVE (mid \o tail)[i] = mid[i]
    BY <1>0, <2>2, <2>3
  <2>5. ASSUME NEW i \in (k + 2)..(Len(b) + 1)
        PROVE (mid \o tail)[i] = tail[i - (k + 1)]
    BY <1>0, <2>2, <2>3
  <2> QED BY <2>1, <2>3, <2>4, <2>5
<1>5. ASSUME NEW i \in (k + 1)..Len(b) PROVE (mid \o tail)[i + 1] = b[i]
  <2>1. i + 1 \in (k + 2)..(Len(b) + 1) /\ (i + 1) - (k + 1) = i - k
    BY <1>0
  <2>2. i - k \in 1..(Len(b) - k) /\ k + (i - k) = i
    BY <1>0
  <2> QED BY <1>2, <1>4, <2>1, <2>2
<1>6. ASSUME NEW i \in 1..k PROVE (mid \o tail)[i] = b[i]
  BY <1>0, <1>3, <1>4
<1>7. (mid \o tail)[k + 1] = d
  BY <1>0, <1>3, <1>4
<1>8. InsertAfter(b, k, d) = mid \o tail
  BY DEF InsertAfter, mid, head, tail
<1> QED BY <1>4, <1>5, <1>6, <1>7, <1>8

LEMMA EnqueueShape ==
  ASSUME NEW book \in Book, NEW d \in Diff, Sorted(book.buffer)
  PROVE  /\ Enqueue(book, d) \in Book
         /\ Enqueue(book, d).state = book.state
         /\ Enqueue(book, d).last = book.last
         /\ Len(Enqueue(book, d).buffer) = Len(book.buffer) + 1
         /\ \E k \in 0..Len(book.buffer) :
               /\ \A i \in 1..Len(book.buffer) : i <= k <=> book.buffer[i].u <= d.u
               /\ \A i \in 1..k : Enqueue(book, d).buffer[i] = book.buffer[i]
               /\ Enqueue(book, d).buffer[k + 1] = d
               /\ \A i \in (k + 1)..Len(book.buffer) :
                     Enqueue(book, d).buffer[i + 1] = book.buffer[i]
<1> DEFINE b == book.buffer
           S == {i \in DOMAIN b : b[i].u <= d.u}
           k == Cardinality(S)
<1>1. b \in Seq(Diff) /\ Len(b) \in Nat /\ DOMAIN b = 1..Len(b)
  BY DEF Book
<1>2. S \in SUBSET (1..Len(b))
  BY <1>1
<1>3. ASSUME NEW j \in S, NEW i \in 1..j PROVE i \in S
  <2>1. i \in DOMAIN b /\ (i < j => b[i].u <= b[j].u)
    BY <1>1 DEF Sorted
  <2>2. b[i].u \in Nat /\ b[j].u \in Nat /\ d.u \in Nat
    BY <1>1, <2>1, DiffFields
  <2> QED BY <2>1, <2>2, <1>1
<1>4. k \in 0..Len(b) /\ S = 1..k
  <2> HIDE DEF S
  <2> QED BY <1>1, <1>2, <1>3, InitialSegment
<1> DEFINE new == InsertAfter(b, k, d)
<1>5. Enqueue(book, d) = [book EXCEPT !.buffer = new]
  BY DEF Enqueue
<1>6. /\ new \in Seq(Diff) /\ Len(new) = Len(b) + 1
      /\ \A i \in 1..k : new[i] = b[i]
      /\ new[k + 1] = d
      /\ \A i \in (k + 1)..Len(b) : new[i + 1] = b[i]
  <2>1. b \in Seq(Diff) /\ k \in 0..Len(b)
    BY <1>1, <1>4
  <2> HIDE DEF k, S, b
  <2> QED BY <2>1, InsertShape
<1>7. \A i \in 1..Len(b) : i <= k <=> b[i].u <= d.u
  BY <1>1, <1>4
<1> HIDE DEF new, k
<1>8. /\ Enqueue(book, d) \in Book
      /\ Enqueue(book, d).state = book.state
      /\ Enqueue(book, d).last = book.last
      /\ Enqueue(book, d).buffer = new
  BY <1>5, <1>6 DEF Book
<1> QED BY <1>4, <1>6, <1>7, <1>8

LEMMA EnqueueSound ==
  ASSUME NEW exch \in Seq(Content), NEW from, NEW book, Sound(exch, from, book),
         book.state = "warming", NEW d \in Diff, IsTrue(exch, d)
  PROVE  Sound(exch, from, Enqueue(book, d)) /\ Enqueue(book, d).state = "warming"
<1> DEFINE b == book.buffer
<1>1. book \in Book /\ Sorted(b)
  BY DEF Sound
<1>2. b \in Seq(Diff) /\ Len(b) \in Nat /\ DOMAIN b = 1..Len(b)
  BY <1>1 DEF Book
<1> DEFINE new == Enqueue(book, d).buffer
<1>3. PICK k \in 0..Len(b) :
         /\ \A i \in 1..Len(b) : i <= k <=> b[i].u <= d.u
         /\ \A i \in 1..k : new[i] = b[i]
         /\ new[k + 1] = d
         /\ \A i \in (k + 1)..Len(b) : new[i + 1] = b[i]
  BY <1>1, EnqueueShape
<1>4. /\ Enqueue(book, d) \in Book
      /\ Enqueue(book, d).state = "warming" /\ Enqueue(book, d).last = book.last
      /\ new \in Seq(Diff) /\ DOMAIN new = 1..(Len(b) + 1)
  BY <1>1, EnqueueShape DEF Book
<1> HIDE DEF new
<1>5. ASSUME NEW i \in DOMAIN new PROVE IsTrue(exch, new[i])
  <2>1. \A j \in DOMAIN b : IsTrue(exch, b[j])
    BY DEF Sound
  <2>2. new[i] = d \/ \E j \in DOMAIN b : new[i] = b[j]
    <3>1. i \in Nat /\ 1 <= i /\ i <= Len(b) + 1
      BY <1>2, <1>4
    <3>2. CASE i <= k
      <4>1. i \in DOMAIN b /\ new[i] = b[i]
        BY <1>2, <1>3, <3>1, <3>2
      <4> QED BY <4>1
    <3>3. CASE i = k + 1
      BY <1>2, <1>3, <3>1, <3>3
    <3>4. CASE i > k + 1
      <4>1. i - 1 \in (k + 1)..Len(b) /\ i = (i - 1) + 1 /\ i - 1 \in DOMAIN b
        BY <1>2, <3>1, <3>4
      <4>2. new[i] = b[i - 1]
        BY <1>3, <4>1
      <4> QED BY <4>1, <4>2
    <3>5. i <= k \/ i = k + 1 \/ i > k + 1
      BY <1>2, <3>1
    <3> QED BY <3>2, <3>3, <3>4, <3>5, Zenon
  <2> QED BY <2>1, <2>2
<1>6. Sorted(new)
  <2> SUFFICES ASSUME NEW i \in DOMAIN new, NEW j \in DOMAIN new, i < j
               PROVE  new[i].u <= new[j].u
    BY DEF Sorted
  <2>1. \A n, m \in 1..Len(b) : n < m => b[n].u <= b[m].u
    BY <1>1, <1>2 DEF Sorted
  <2>2. d.u \in Nat /\ \A n \in 1..Len(b) : b[n].u \in Nat
    BY <1>2, DiffFields
  <2>3. /\ i \in Nat /\ j \in Nat /\ 1 <= i /\ j <= Len(b) + 1 /\ k \in Nat /\ k <= Len(b)
        /\ \A n \in 1..Len(b) : (n <= k => b[n].u <= d.u) /\ (n > k => d.u <= b[n].u)
    BY <1>2, <1>3, <1>4, <2>2
  <2>9. ASSUME NEW n \in 1..(Len(b) + 1)
        PROVE  /\ n <= k => n \in 1..Len(b) /\ new[n] = b[n]
               /\ n = k + 1 => new[n] = d
               /\ n > k + 1 => n - 1 \in 1..Len(b) /\ n - 1 > k /\ new[n] = b[n - 1]
    <3>1. CASE n <= k
      BY <1>3, <2>3, <3>1
    <3>2. CASE n = k + 1
      BY <1>3, <2>3, <3>2
    <3>3. CASE n > k + 1
      <4>1. n - 1 \in (k + 1)..Len(b) /\ (n - 1) + 1 = n /\ n - 1 > k /\ n - 1 \in 1..Len(b)
        BY <2>3, <3>3
      <4>2. new[(n - 1) + 1] = b[n - 1]
        BY <1>3, <4>1
      <4> QED BY <2>3, <3>3, <4>1, <4>2
    <3> QED BY <2>3, <3>1, <3>2, <3>3
  <2>0. i \in 1..(Len(b) + 1) /\ j \in 1..(Len(b) + 1)
    BY <1>4
  <2>4. CASE j <= k
    <3>1. i <= k
      BY <2>3, <2>4
    <3> QED BY <2>0, <2>1, <2>4, <2>9, <3>1
  <2>5. CASE i <= k /\ j = k + 1
    BY <2>0, <2>3, <2>5, <2>9
  <2>6. CASE i <= k /\ j > k + 1
    <3>1. i < j - 1
      BY <2>3, <2>6
    <3> QED BY <2>0, <2>1, <2>6, <2>9, <3>1
  <2>7. CASE i = k + 1
    <3>1. j > k + 1
      BY <2>3, <2>7
    <3> QED BY <2>0, <2>3, <2>7, <2>9, <3>1
  <2>8. CASE i > k + 1
    <3>1. j > k + 1 /\ i - 1 < j - 1
      BY <2>3, <2>8
    <3> QED BY <2>0, <2>1, <2>8, <2>9, <3>1
  <2> QED BY <2>3, <2>4, <2>5, <2>6, <2>7, <2>8
<1> QED BY <1>4, <1>5, <1>6 DEF Sound, new

-----------------------------------------------------------------------------
(* apply_diff                                                              *)

\* apply_diff in a book that is not warming: it never becomes warming, becomes
\* valid only from valid, and then stands at or after the end of the diff.
LEMMA ApplyDiffMoves ==
  ASSUME NEW book \in Book, book.state # "warming", NEW d \in Diff
  PROVE  LET after == ApplyDiff(book, d)
         IN  /\ after.state # "warming"
             /\ after.buffer = book.buffer
             /\ after.state = "valid" => /\ book.state = "valid"
                                        /\ book.last <= after.last
                                        /\ d.u <= after.last
<1>1. book.last \in Nat /\ d.u \in Nat
  BY DEF Book, Diff
<1> QED BY <1>1 DEF ApplyDiff, Invalidate, Book

\* A diff that passes the checks, applied to a copy of update n, leads to a
\* copy of its end.
LEMMA AppliedSound ==
  ASSUME NEW exch \in Seq(Content), NEW book \in Book, book.state = "valid", book.buffer = <<>>,
         book.last \in 0..Len(exch),
         NEW d \in Diff, IsTrue(exch, d), NEW from,
         NEW n \in Base(d.U, d.pu)..d.u, Copies(book.content, exch, from, n),
         book.last < d.u
  PROVE  Sound(exch, from, ApplyDiff(book, d))
<1> DEFINE new == ApplyLevels(book.content, d.levels)
<1>1. new \in Content /\ Copies(new, exch, from, d.u)
  BY ApplyLevelsTrue DEF Book
<1>2. d.u \in 1..Len(exch) /\ d.u \in DOMAIN exch /\ book.last \in Nat
  BY DEF IsTrue
<1> HIDE DEF new
<1>3. CASE ApplyDiff(book, d) = Invalidate(book, "stale")
  BY <1>3 DEF Sound, Invalidate, Book, BookState, Sorted
<1>4. CASE ApplyDiff(book, d) = Invalidate(book, "resync_pending")
  BY <1>4 DEF Sound, Invalidate, Book, BookState, Sorted
<1>5. CASE ApplyDiff(book, d) =
             [state |-> IF Crossed(new) THEN "invalid" ELSE "valid",
              last |-> d.u, content |-> new, buffer |-> book.buffer]
  <2> DEFINE st == IF Crossed(new) THEN "invalid" ELSE "valid"
             after == [state |-> st, last |-> d.u, content |-> new, buffer |-> <<>>]
  <2>1. st \in BookState /\ (st = "valid" => ~Crossed(new))
    BY DEF BookState
  <2>2. ApplyDiff(book, d) = after
    BY <1>5
  <2> HIDE DEF st
  <2>3. after \in Book
    BY <1>1, <1>2, <2>1 DEF Book
  <2>4. Sound(exch, from, after)
    BY <1>1, <1>2, <2>1, <2>3 DEF Sound, Sorted
  <2> QED BY <2>2, <2>4
<1> QED BY <1>2, <1>3, <1>4, <1>5 DEF ApplyDiff, new

LEMMA ApplyDiffSound ==
  ASSUME NEW exch \in Seq(Content), NEW from, NEW book, Sound(exch, from, book),
         NEW d \in Diff, IsTrue(exch, d)
  PROVE  Sound(exch, from, ApplyDiff(book, d))
<1>0. book \in Book
  BY DEF Sound
<1>1. CASE book.state = "warming"
  BY <1>1, EnqueueSound DEF ApplyDiff
<1>2. CASE book.state \notin {"warming", "valid"}
  BY <1>2 DEF ApplyDiff
<1>3. CASE book.state = "valid"
  <2>1. /\ Copies(book.content, exch, from, book.last) /\ book.last \in DOMAIN exch
        /\ book.buffer = <<>> /\ book.last \in 0..Len(exch)
    BY <1>3 DEF Sound, Copies
  <2>2. CASE ApplyDiff(book, d) = book
    BY <2>2
  <2>3. CASE ApplyDiff(book, d) = Invalidate(book, "stale")
    BY <1>0, <2>1, <2>3 DEF Sound, Invalidate, Book, BookState
  <2>4. CASE ApplyDiff(book, d) = Invalidate(book, "resync_pending")
    BY <1>0, <2>1, <2>4 DEF Sound, Invalidate, Book, BookState
  <2>5. CASE Follows(book, d) /\ book.last < d.u
    <3>1. book.last \in Base(d.U, d.pu)..d.u
      BY <2>1, <2>5 DEF Follows, Base, IsTrue, NoId, Diff
    <3> QED BY <1>0, <1>3, <2>1, <2>5, <3>1, AppliedSound
  <2>6. book.last \in Nat /\ d.u \in Nat
    BY <1>0 DEF Book, Diff
  <2> QED BY <1>3, <2>2, <2>3, <2>4, <2>5, <2>6 DEF ApplyDiff
<1> QED BY <1>1, <1>2, <1>3

-----------------------------------------------------------------------------
(* apply_snapshot                                                          *)

\* Replaying true diffs: when the first of them leaves a sound book, so does
\* the last, and a book that is still valid has taken up each one and stands
\* no earlier than the first left it.
LEMMA ReplaySound ==
  ASSUME NEW exch \in Seq(Content), NEW from, NEW start \in Book,
         NEW diffs \in Seq(Diff), Len(diffs) > 0,
         \A i \in DOMAIN diffs : IsTrue(exch, diffs[i]),
         start.state # "warming",
         Sound(exch, from, ApplyDiff(start, diffs[1]))
  PROVE  LET after == Replay(start, diffs)
         IN  /\ Sound(exch, from, after)
             /\ after.state # "warming" /\ after.buffer = start.buffer
             /\ after.state = "valid" =>
                   \A i \in DOMAIN diffs : diffs[i].u <= after.last
<1> DEFINE N == Len(diffs)
<1>0. N \in Nat /\ DOMAIN diffs = 1..N /\ N >= 1
  OBVIOUS
<1>a. PICK after : IsTrace(start, diffs, after)
  BY <1>0, ReplaySteps
<1>1. /\ after[0] = start
      /\ \A n \in 0..(N - 1) : after[n + 1] = ApplyDiff(after[n], diffs[n + 1])
      /\ Replay(start, diffs) = after[N]
  BY <1>a DEF IsTrace
<1> DEFINE Fine(b, n) == /\ Sound(exch, from, b)
                         /\ b.state # "warming" /\ b.buffer = start.buffer
                         /\ b.state = "valid" => \A i \in 1..n : diffs[i].u <= b.last
           T == {n \in Nat : n < N => Fine(after[n + 1], n + 1)}
<1>2. 0 \in T
  <2>1. after[1] = ApplyDiff(start, diffs[1]) /\ diffs[1] \in Diff
    BY <1>0, <1>1
  <2> QED BY <2>1, <1>0, ApplyDiffMoves
<1>3. ASSUME NEW n \in Nat, n \in T PROVE n + 1 \in T
  <2> SUFFICES ASSUME n + 1 < N PROVE Fine(after[n + 2], n + 2)
    BY <1>0
  <2> DEFINE b == after[n + 1]
             c == after[n + 2]
             d == diffs[n + 2]
  <2>1. Fine(b, n + 1)
    BY <1>0, <1>3
  <2>2. c = ApplyDiff(b, d) /\ d \in Diff /\ IsTrue(exch, d)
    <3>1. n + 1 \in 0..(N - 1) /\ (n + 1) + 1 = n + 2 /\ n + 2 \in 1..N
      BY <1>0
    <3> QED BY <1>0, <1>1, <3>1
  <2> HIDE DEF b, c, d
  <2>3. b \in Book /\ Sound(exch, from, c)
    BY <2>1, <2>2, ApplyDiffSound DEF Sound
  <2>4. /\ c.state # "warming" /\ c.buffer = start.buffer
        /\ c.state = "valid" => b.state = "valid" /\ b.last <= c.last /\ d.u <= c.last
    BY <2>1, <2>2, <2>3, ApplyDiffMoves
  <2>5. ASSUME c.state = "valid", NEW i \in 1..(n + 2) PROVE diffs[i].u <= c.last
    <3>1. CASE i = n + 2
      BY <2>4, <2>5, <3>1 DEF d
    <3>2. CASE i \in 1..(n + 1)
      <4>1. diffs[i].u <= b.last /\ b.last <= c.last
        BY <2>1, <2>4, <2>5, <3>2
      <4>2. diffs[i].u \in Nat /\ b.last \in Nat /\ c.last \in Nat
        <5>1. diffs[i] \in Diff
          BY <1>0
        <5> QED BY <5>1, <2>3, DiffFields DEF Sound, Book
      <4> QED BY <4>1, <4>2
    <3> QED BY <3>1, <3>2
  <2> QED BY <2>3, <2>4, <2>5 DEF c
<1>4. N - 1 \in T
  <2> HIDE DEF T
  <2>1. \A n \in Nat : n \in T
    BY <1>2, <1>3, NatSetInduction
  <2> QED BY <1>0, <2>1
<1>5. Fine(after[N], N)
  <2>1. (N - 1) + 1 = N /\ N - 1 < N
    BY <1>0
  <2> QED BY <1>4, <2>1
<1> QED BY <1>0, <1>1, <1>5

\* The first diff replayed is the bridge: whatever the market, applying it to
\* the content of the snapshot is sound, although on Futures last_update_id
\* has been set back to an update the content is ahead of.
LEMMA BridgeSound ==
  ASSUME NEW exch \in Seq(Content), NEW k \in DOMAIN exch, ~Crossed(Snapshot(exch[k])),
         NEW d \in Diff, IsTrue(exch, d), d.u >= k, Bridges(d, k)
  PROVE  LET loaded == [state |-> "valid", last |-> k, content |-> Snapshot(exch[k]),
                        buffer |-> <<>>]
             start  == IF Market = "usd_m_futures" /\ d.pu # NoId
                       THEN [loaded EXCEPT !.last = d.pu] ELSE loaded
         IN  /\ start \in Book /\ start.state = "valid" /\ start.buffer = <<>>
             /\ Sound(exch, k, ApplyDiff(start, d))
<1> DEFINE snap == Snapshot(exch[k])
           loaded == [state |-> "valid", last |-> k, content |-> snap, buffer |-> <<>>]
           rewound == [state |-> "valid", last |-> d.pu, content |-> snap, buffer |-> <<>>]
<1>0. /\ k \in 1..Len(exch) /\ k \in Nat /\ Len(exch) \in Nat
      /\ d.u \in 1..Len(exch)
      /\ snap \in Content /\ Copies(snap, exch, k, k) /\ ~Crossed(snap)
  BY SnapshotCopies DEF IsTrue
<1> HIDE DEF snap
<1>1. loaded \in Book /\ rewound \in Book
  BY <1>0, DiffFields DEF Book, BookState
<1>2. Sound(exch, k, loaded)
  BY <1>0, <1>1 DEF Sound, Sorted
<1>3. Sound(exch, k, ApplyDiff(loaded, d))
  BY <1>2, ApplyDiffSound
<1>4. ASSUME Market = "usd_m_futures", d.pu # NoId PROVE Sound(exch, k, ApplyDiff(rewound, d))
  <2>1. Base(d.U, d.pu) = d.pu /\ d.pu \in 1..(d.U - 1) /\ d.U <= k /\ k <= d.u
    BY <1>4 DEF Base, IsTrue, Bridges
  <2>2. /\ d.pu < d.u /\ d.pu \in 0..Len(exch) /\ k \in Base(d.U, d.pu)..d.u
    BY <1>0, <2>1, DiffFields
  <2>3. /\ rewound.state = "valid" /\ rewound.buffer = <<>> /\ rewound.last = d.pu
        /\ rewound.content = snap
    OBVIOUS
  <2> HIDE DEF rewound
  <2> QED BY <1>0, <1>1, <2>2, <2>3, AppliedSound
<1>5. [loaded EXCEPT !.last = d.pu] = rewound
  OBVIOUS
<1>6. /\ loaded.state = "valid" /\ rewound.state = "valid"
      /\ loaded.buffer = <<>> /\ rewound.buffer = <<>>
  OBVIOUS
<1> QED BY <1>1, <1>3, <1>4, <1>5, <1>6 DEF snap

LEMMA ApplySnapshotSound ==
  ASSUME NEW exch \in Seq(Content), NEW f, NEW book, Sound(exch, f, book), NEW k \in DOMAIN exch
  PROVE  LET after == ApplySnapshot(book, k, Snapshot(exch[k]))
         IN  /\ Sound(exch, k, after)
             /\ after.state # "warming" /\ after.buffer \in {<<>>, book.buffer}
             /\ after.state = "valid" =>
                   /\ k <= after.last
                   /\ \A i \in DOMAIN book.buffer : book.buffer[i].u <= after.last
<1> DEFINE snap     == Snapshot(exch[k])
           buffer   == book.buffer
           loaded   == [state |-> "valid", last |-> k, content |-> snap, buffer |-> <<>>]
           relevant == {i \in DOMAIN buffer : buffer[i].u >= k}
           bridges  == {i \in relevant : Bridges(buffer[i], k)}
           first    == CHOOSE i \in bridges : \A j \in bridges : i <= j
           start    == IF Market = "usd_m_futures" /\ buffer[first].pu # NoId
                       THEN [loaded EXCEPT !.last = buffer[first].pu] ELSE loaded
           after    == ApplySnapshot(book, k, snap)
<1>0. /\ k \in 1..Len(exch) /\ k \in Nat /\ Len(exch) \in Nat
      /\ buffer \in Seq(Diff) /\ Len(buffer) \in Nat /\ DOMAIN buffer = 1..Len(buffer)
      /\ snap \in Content /\ Copies(snap, exch, k, k)
  BY SnapshotCopies DEF Sound, Book
<1>1. \A i \in DOMAIN buffer : buffer[i] \in Diff /\ IsTrue(exch, buffer[i]) /\ buffer[i].u \in Nat
  BY <1>0, DiffFields DEF Sound
<1>2. CASE Crossed(snap)
  <2>1. after = [state |-> "invalid", last |-> k, content |-> snap, buffer |-> buffer]
    BY <1>2 DEF ApplySnapshot
  <2>2. after \in Book
    BY <1>0, <2>1 DEF Book, BookState
  <2> QED BY <1>0, <2>1, <2>2 DEF Sound
<1>3. CASE ~Crossed(snap) /\ relevant = {}
  <2>1. after = loaded
    BY <1>3 DEF ApplySnapshot
  <2>2. loaded \in Book
    BY <1>0 DEF Book, BookState
  <2>3. Sound(exch, k, loaded)
    BY <1>0, <1>3, <2>2 DEF Sound, Sorted
  <2>4. \A i \in DOMAIN buffer : buffer[i].u <= k
    BY <1>0, <1>1, <1>3
  <2> QED BY <1>0, <2>1, <2>3, <2>4
<1>4. CASE ~Crossed(snap) /\ relevant # {} /\ bridges = {}
  <2>1. after = [state |-> "resync_pending", last |-> k, content |-> snap, buffer |-> <<>>]
    BY <1>4 DEF ApplySnapshot, Invalidate
  <2>2. after \in Book
    BY <1>0, <2>1 DEF Book, BookState
  <2> QED BY <1>0, <2>1, <2>2 DEF Sound, Sorted
<1>5. CASE ~Crossed(snap) /\ relevant # {} /\ bridges # {}
  <2> DEFINE rest == SubSeq(buffer, first, Len(buffer))
             d    == buffer[first]
  <2>1. after = Replay(start, rest)
    BY <1>5 DEF ApplySnapshot
  <2>2. first \in bridges /\ \A j \in bridges : first <= j
    <3>1. bridges \in SUBSET Nat
      BY <1>0
    <3> HIDE DEF bridges
    <3> QED BY <1>5, <3>1, LeastNat
  <2>3. /\ first \in 1..Len(buffer)
        /\ d \in Diff /\ IsTrue(exch, d) /\ d.u >= k /\ Bridges(d, k)
    BY <1>0, <1>1, <2>2
  <2> HIDE DEF first
  <2>4. /\ rest \in Seq(Diff) /\ Len(rest) = Len(buffer) - first + 1
        /\ \A i \in 1..(Len(buffer) - first + 1) : rest[i] = buffer[first + i - 1]
    BY <1>0, <2>3, SubSeqProperties
  <2>5. Len(rest) > 0 /\ DOMAIN rest = 1..Len(rest) /\ rest[1] = d
    <3>1. 1 \in 1..(Len(buffer) - first + 1) /\ first + 1 - 1 = first
      BY <1>0, <2>3
    <3> QED BY <1>0, <2>3, <2>4, <3>1
  <2>6. /\ start \in Book /\ start.state = "valid" /\ start.buffer = <<>>
        /\ Sound(exch, k, ApplyDiff(start, d))
    <3> HIDE DEF d, loaded
    <3> QED BY <1>5, <2>3, BridgeSound DEF d, loaded, snap
  <2>7. ASSUME NEW i \in DOMAIN rest PROVE IsTrue(exch, rest[i])
    <3>1. first + i - 1 \in DOMAIN buffer /\ rest[i] = buffer[first + i - 1]
      BY <1>0, <2>3, <2>4, <2>5
    <3> QED BY <1>1, <3>1
  <2> HIDE DEF rest, start, d
  <2>8. /\ Sound(exch, k, after)
        /\ after.state # "warming" /\ after.buffer = <<>>
        /\ after.state = "valid" => \A i \in DOMAIN rest : rest[i].u <= after.last
    <3>1. start.state # "warming"
      BY <2>6
    <3> HIDE DEF after
    <3> QED BY <2>1, <2>4, <2>5, <2>6, <2>7, <3>1, ReplaySound
  <2>9. ASSUME after.state = "valid" PROVE k <= after.last
    <3>1. d.u <= after.last /\ d.u >= k /\ d.u \in Nat /\ after.last \in Nat
      <4>1. 1 \in DOMAIN rest
        BY <1>0, <2>3, <2>4, <2>5
      <4> QED BY <2>3, <2>5, <2>8, <2>9, <4>1, DiffFields DEF Sound, Book
    <3> QED BY <1>0, <3>1
  <2>10. ASSUME after.state = "valid", NEW i \in DOMAIN buffer PROVE buffer[i].u <= after.last
    <3>1. CASE i >= first
      <4>1. i - first + 1 \in DOMAIN rest /\ rest[i - first + 1] = buffer[i]
        <5>1. /\ i - first + 1 \in 1..(Len(buffer) - first + 1)
              /\ first + (i - first + 1) - 1 = i
          BY <1>0, <2>3, <3>1
        <5> QED BY <2>4, <2>5, <5>1
      <4> QED BY <2>8, <2>10, <4>1
    <3>2. CASE i < first
      <4>1. buffer[i].u <= d.u
        BY <1>0, <2>3, <3>2 DEF Sound, Sorted, d
      <4>2. d.u <= after.last
        <5>1. 1 \in DOMAIN rest
          BY <1>0, <2>3, <2>4, <2>5
        <5> QED BY <2>5, <2>8, <2>10, <5>1
      <4>3. after.last \in Nat /\ buffer[i].u \in Nat /\ d.u \in Nat
        BY <1>1, <2>3, <2>8, DiffFields DEF Sound, Book
      <4> QED BY <4>1, <4>2, <4>3
    <3> QED BY <1>0, <2>3, <3>1, <3>2
  <2> QED BY <2>8, <2>9, <2>10
<1> QED BY <1>2, <1>3, <1>4, <1>5, Zenon
=============================================================================
