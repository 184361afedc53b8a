------------------------ MODULE OrderBookFeed_proofs ------------------------
(***************************************************************************)
(* The properties of OrderBookFeed, for every set of prices and quantities *)
(* and every bound, in both markets.                                       *)
(***************************************************************************)
EXTENDS OrderBookFeed, LocalOrderBook_proofs

\* The inductive invariant says that the exchange has a book and the local
\* one is sound.
LEMMA IInvSound ==
  IInv <=> /\ exch \in Seq(Content) /\ Len(exch) > 0 /\ from \in 0..Len(exch)
           /\ Sound(exch, from, book)
BY DEF IInv, TypeOK, ValidMatchesExchange, BufferInOrder, BufferedDiffsTrue, Sound, Sorted

\* Every diff the feed delivers is one the exchange could have sent.
LEMMA EventsTrue ==
  ASSUME NEW e \in Seq(Content), NEW d \in Events(e)
  PROVE  d \in Diff /\ IsTrue(e, d)
<1>1. PICK r \in [U : 2..Len(e), u : 2..Len(e), pu : 0..Len(e), stale : BOOLEAN] :
         /\ r.pu < r.U /\ r.U <= r.u
         /\ Market = "spot" => r.pu = NoId
         /\ d = Event(e, r.U, r.u, r.pu, r.stale)
  BY DEF Events
<1>2. /\ r.U \in Nat /\ r.u \in DOMAIN e /\ r.pu \in Nat /\ r.stale \in BOOLEAN
      /\ r.U >= 2
  OBVIOUS
<1>3. Base(r.U, r.pu) >= 1
  BY <1>2 DEF Base, NoId
<1> QED BY <1>1, <1>2, <1>3, EventIsTrue

-----------------------------------------------------------------------------
(* The invariant is inductive.                                             *)

LEMMA InitIInv == Init => IInv
<1> SUFFICES ASSUME Init PROVE /\ exch \in Seq(Content) /\ Len(exch) > 0
                               /\ from \in 0..Len(exch) /\ Sound(exch, from, book)
  BY IInvSound
<1>1. exch \in Seq(Content) /\ Len(exch) > 0
  <2>1. PICK c \in Content : exch = <<c>>
    BY DEF Init
  <2> QED BY <2>1
<1> QED BY <1>1, NewBookSound DEF Init, NoId

\* The snapshot of a book that is no longer valid is forgotten.
LEMMA ForgottenSound ==
  ASSUME NEW f \in 0..Len(exch), Sound(exch, f, book'), Len(exch) \in Nat,
         from' = IF book'.state = "valid" THEN f ELSE NoId
  PROVE  from' \in 0..Len(exch) /\ Sound(exch, from', book')
<1>1. CASE book'.state = "valid"
  BY <1>1
<1>2. CASE book'.state # "valid"
  BY <1>2, SoundFromAny DEF NoId
<1> QED BY <1>1, <1>2

LEMMA NextIInv == IInv /\ [Next]_vars => IInv'
<1> SUFFICES ASSUME IInv, [Next]_vars
             PROVE  /\ exch' \in Seq(Content) /\ Len(exch') > 0
                    /\ from' \in 0..Len(exch') /\ Sound(exch', from', book')
  BY IInvSound DEF IInv, TypeOK, ValidMatchesExchange, BufferInOrder, BufferedDiffsTrue,
                   Sound, Sorted
<1>0. /\ exch \in Seq(Content) /\ Len(exch) \in Nat /\ Len(exch) > 0
      /\ from \in 0..Len(exch) /\ Sound(exch, from, book)
  BY IInvSound
<1>1. CASE ExchangeUpdate
  <2>1. PICK c \in Update(exch[Len(exch)]) : exch' = Append(exch, c)
    BY <1>1 DEF ExchangeUpdate
  <2>2. c \in Content
    <3>1. exch[Len(exch)] \in Content
      BY <1>0
    <3> QED BY <3>1, UpdateType
  <2>3. Sound(exch', from', book') /\ from' = from
    BY <1>0, <1>1, <2>1, <2>2, GrowSound DEF ExchangeUpdate
  <2>4. exch' \in Seq(Content) /\ Len(exch') = Len(exch) + 1
    BY <1>0, <2>1, <2>2, AppendProperties
  <2> QED BY <1>0, <2>3, <2>4
<1>2. ASSUME NEW d \in Events(exch), Deliver(d)
      PROVE from' \in 0..Len(exch) /\ Sound(exch, from', book') /\ exch' = exch
  <2>1. d \in Diff /\ IsTrue(exch, d)
    BY <1>0, EventsTrue
  <2>2. Sound(exch, from, book')
    BY <1>0, <1>2, <2>1, ApplyDiffSound DEF Deliver
  <2> QED BY <1>0, <1>2, <2>2, ForgottenSound DEF Deliver, StaysFrom
<1>3. ASSUME NEW k \in DOMAIN exch, LoadSnapshot(k)
      PROVE from' \in 0..Len(exch) /\ Sound(exch, from', book') /\ exch' = exch
  <2>1. Sound(exch, k, book')
    BY <1>0, <1>3, ApplySnapshotSound DEF LoadSnapshot
  <2> QED BY <1>0, <1>3, <2>1, ForgottenSound DEF LoadSnapshot
<1>4. CASE Overflow
  <2>1. Sound(exch, from, book')
    BY <1>0, <1>4 DEF Overflow, Invalidate, Sound, Book, BookState
  <2> QED BY <1>0, <1>4, <2>1, ForgottenSound DEF Overflow, StaysFrom
<1>5. CASE Renew
  <2>1. Sound(exch, from, book')
    BY <1>0, <1>5, NewBookSound DEF Renew
  <2> QED BY <1>0, <1>5, <2>1, ForgottenSound DEF Renew, StaysFrom
<1>6. CASE UNCHANGED vars
  BY <1>0, <1>6 DEF vars
<1> QED BY <1>0, <1>1, <1>2, <1>3, <1>4, <1>5, <1>6 DEF Next

THEOREM InductiveInvariant == Spec => []IInv
BY InitIInv, NextIInv, PTL DEF Spec

-----------------------------------------------------------------------------
(* Theorems                                                                *)

\* The state of the book is always one the class documents, its buffer holds
\* diffs, and last_update_id is an id of the exchange.
THEOREM TypeCorrect == Spec => []TypeOK
<1>1. IInv => TypeOK
  BY DEF IInv
<1> QED BY <1>1, InductiveInvariant, PTL

\* No plausible but corrupted book: what apply_diff and apply_snapshot leave
\* valid has each level as the exchange had it at last_update_id, but those
\* beyond its snapshot that have not changed since, and is not crossed.
THEOREM ValidIsExact == Spec => []ValidMatchesExchange
<1>1. IInv => ValidMatchesExchange
  BY DEF IInv
<1> QED BY <1>1, InductiveInvariant, PTL

\* buffer_diff keeps the buffer sorted and nothing stays in it once valid.
THEOREM BufferStaysInOrder == Spec => []BufferInOrder
<1>1. IInv => BufferInOrder
  BY DEF IInv
<1> QED BY <1>1, InductiveInvariant, PTL

\* The replay in apply_snapshot takes up every buffered diff and ends no
\* earlier than the snapshot, or does not end valid.
THEOREM SnapshotNeverFallsBehind == Spec => SnapshotCatchesUp
<1> DEFINE CatchesUp ==
        book'.state = "valid" =>
          \A k \in DOMAIN exch :
             \/ /\ k <= book'.last
                /\ \A i \in DOMAIN book.buffer : book.buffer[i].u <= book'.last
             \/ ~LoadSnapshot(k)
<1>1. IInv => CatchesUp
  <2> SUFFICES ASSUME IInv, book'.state = "valid", NEW k \in DOMAIN exch, LoadSnapshot(k)
               PROVE  /\ k <= book'.last
                      /\ \A i \in DOMAIN book.buffer : book.buffer[i].u <= book'.last
    OBVIOUS
  <2>1. /\ exch \in Seq(Content) /\ Sound(exch, from, book)
        /\ book' = ApplySnapshot(book, k, Snapshot(exch[k]))
    BY IInvSound DEF LoadSnapshot
  <2> QED BY <2>1, ApplySnapshotSound
<1>2. IInv => [CatchesUp]_vars
  BY <1>1
<1> HIDE DEF CatchesUp
<1>3. Spec => [][CatchesUp]_vars
  BY <1>2, InductiveInvariant, PTL
<1> QED BY <1>3 DEF SnapshotCatchesUp, CatchesUp

\* Diffs only move a valid book forward and never repair another.
THEOREM RepairNeedsSnapshot == Spec => OnlySnapshotsRepair
<1> DEFINE Repair ==
        book'.state = "valid" =>
          \/ book.state = "valid" /\ book.last <= book'.last
          \/ \E k \in DOMAIN exch : LoadSnapshot(k)
<1>1. IInv /\ [Next]_vars => [Repair]_vars
  <2> SUFFICES ASSUME IInv, Next, book'.state = "valid",
                      ~\E k \in DOMAIN exch : LoadSnapshot(k)
               PROVE  book.state = "valid" /\ book.last <= book'.last
    OBVIOUS
  <2>0. exch \in Seq(Content) /\ book \in Book /\ book.last \in Nat
    BY IInvSound DEF Sound, Book
  <2>1. CASE ExchangeUpdate
    BY <2>0, <2>1 DEF ExchangeUpdate
  <2>2. ASSUME NEW d \in Events(exch), Deliver(d)
        PROVE book.state = "valid" /\ book.last <= book'.last
    <3>1. d \in Diff
      BY <2>0, EventsTrue
    <3>2. book.state # "warming"
      <4> SUFFICES ASSUME book.state = "warming" PROVE FALSE
        OBVIOUS
      <4>1. book'.state = "warming"
        BY <2>0, <2>2, <3>1, EnqueueShape, IInvSound DEF Deliver, ApplyDiff, Sound
      <4> QED BY <4>1
    <3> QED BY <2>0, <2>2, <3>1, <3>2, ApplyDiffMoves DEF Deliver
  <2>3. CASE Overflow
    BY <2>0, <2>3 DEF Overflow, Invalidate, Book
  <2>4. CASE Renew
    BY <2>4 DEF Renew, NewBook
  <2> QED BY <2>1, <2>2, <2>3, <2>4 DEF Next
<1> HIDE DEF Repair
<1>2. Spec => [][Repair]_vars
  BY <1>1, InductiveInvariant, PTL DEF Spec
<1> QED BY <1>2 DEF OnlySnapshotsRepair, Repair
=============================================================================
