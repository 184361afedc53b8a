--------------------------- MODULE OrderBookFeed ----------------------------
(***************************************************************************)
(* One LocalOrderBook and everything its callers may do with it: the live  *)
(* engine's depth tasks, the queue-overflow callback and the replay runner *)
(* call it with diffs and snapshots of the exchange's book.  What they     *)
(* hand over is true, but it may come in any order, late, twice, or not at *)
(* all, and the book may be thrown away and started anew at any time.      *)
(***************************************************************************)
EXTENDS DepthStream

CONSTANTS MaxUpdateId,  \* bound: update ids the exchange gets to
          MaxBuffer     \* bound: diffs a warming book is given

ASSUME BoundAssumption == MaxUpdateId \in Nat /\ MaxBuffer \in Nat

VARIABLES exch,   \* exch[k] is the exchange's book after update id k
          book,   \* the LocalOrderBook
          from    \* history: the snapshot a valid book was loaded from

vars == <<exch, book, from>>

StaysFrom == from' = IF book'.state = "valid" THEN from ELSE NoId

-----------------------------------------------------------------------------
(* Actions                                                                 *)

Init == /\ exch \in {<<c>> : c \in Content}
        /\ book = NewBook /\ from = NoId

ExchangeUpdate ==
    /\ Len(exch) < MaxUpdateId
    /\ \E c \in Update(exch[Len(exch)]) : exch' = Append(exch, c)
    /\ UNCHANGED <<book, from>>

\* book.buffer_diff(d) or book.apply_diff(d)
Deliver(d) ==
    /\ book.state = "warming" => Len(book.buffer) < MaxBuffer
    /\ book' = ApplyDiff(book, d)
    /\ StaysFrom
    /\ UNCHANGED exch

\* book.apply_snapshot of what the exchange shows of its book at update id k
LoadSnapshot(k) ==
    /\ book' = ApplySnapshot(book, k, Snapshot(exch[k]))
    /\ from' = IF book'.state = "valid" THEN k ELSE NoId
    /\ UNCHANGED exch

\* book.invalidate(reason), as the queue-overflow callback does
Overflow ==
    /\ book' = Invalidate(book, "resync_pending")
    /\ StaysFrom
    /\ UNCHANGED exch

\* Mutant: the owner clears the mark and keeps the book.
RenewInPlace ==
    /\ book.state \notin {"warming", "valid"}
    /\ book' = [book EXCEPT !.state = "valid"]
    /\ StaysFrom
    /\ UNCHANGED exch

\* The owner replaces an unusable book by LocalOrderBook(...).
Renew ==
    /\ book.state \notin {"warming", "valid"}
    /\ book' = NewBook
    /\ StaysFrom
    /\ UNCHANGED exch

Next == \/ ExchangeUpdate
        \/ \E d \in Events(exch) : Deliver(d)
        \/ \E k \in DOMAIN exch : LoadSnapshot(k)
        \/ Overflow
        \/ Renew

Spec == Init /\ [][Next]_vars

-----------------------------------------------------------------------------
(* Invariants                                                              *)

TypeOK ==
    /\ exch \in Seq(Content) /\ Len(exch) > 0
    /\ book \in Book
    /\ book.last \in 0..Len(exch)
    /\ from \in 0..Len(exch)

\* PRD FR-BOOK-004 and 17.3 ("no plausible but corrupted book is marked
\* valid"): whatever was lost, repeated or reordered on the way, in a book that
\* apply_diff and apply_snapshot left "valid" each level is what the exchange
\* had at last_update_id, but those that lay beyond the snapshot's levels and
\* have not changed since, which are missing; and the book is not crossed.
ValidMatchesExchange ==
    book.state = "valid" =>
        Copies(book.content, exch, from, book.last) /\ ~Crossed(book.content)

\* buffer_diff keeps the buffer in the order of final_update_id, on which the
\* search for the bridge in apply_snapshot relies, and no diff stays behind in
\* a book that became valid, where nothing would ever read it.
BufferInOrder ==
    /\ \A i, j \in DOMAIN book.buffer : i < j => book.buffer[i].u <= book.buffer[j].u
    /\ book.state = "valid" => book.buffer = <<>>

\* The inductive invariant behind the theorems of OrderBookFeed_proofs.
BufferedDiffsTrue == \A i \in DOMAIN book.buffer : IsTrue(exch, book.buffer[i])

IInv == TypeOK /\ ValidMatchesExchange /\ BufferInOrder /\ BufferedDiffsTrue

-----------------------------------------------------------------------------
(* Action properties                                                       *)

\* apply_snapshot sets last_update_id back to the bridge's pu on Futures and
\* replays the buffer from there: a book it leaves valid is at or after the
\* snapshot and has taken up every buffered diff.
SnapshotCatchesUp ==
    [][book'.state = "valid" =>
          \A k \in DOMAIN exch :
             \/ /\ k <= book'.last
                /\ \A i \in DOMAIN book.buffer : book.buffer[i].u <= book'.last
             \/ ~LoadSnapshot(k)]_vars

\* Between snapshots a valid book only moves forward, and a book that was
\* marked stale, invalid or resync_pending stays unusable: diffs never bring
\* it back ("Invalid books remain invalid until the caller applies a fresh
\* snapshot", book.py:51).
OnlySnapshotsRepair ==
    [][book'.state = "valid" =>
          \/ book.state = "valid" /\ book.last <= book'.last
          \/ \E k \in DOMAIN exch : LoadSnapshot(k)]_vars
=============================================================================
