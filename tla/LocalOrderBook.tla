--------------------------- MODULE LocalOrderBook ---------------------------
(***************************************************************************)
(* The class LocalOrderBook of orderbook/book.py: a copy of one symbol's   *)
(* order book, rebuilt from a snapshot and a stream of incremental diffs.  *)
(* The class does no I/O, so every method is an operator from a book (and  *)
(* its argument) to the book after the call.                               *)
(*                                                                         *)
(* bids and asks are one function, `content', from <<side, price>> to a    *)
(* quantity; quantity 0 stands for a level that is not in the dictionary.  *)
(* An update id of NoId stands for None.  reason_codes, the metrics and    *)
(* the age of an event beyond "older than max_event_age_ms" are left out.  *)
(***************************************************************************)
EXTENDS Integers, Sequences, FiniteSets

CONSTANTS Market,   \* the market the book was created for
          Price,    \* prices a level can have
          Qty       \* quantities a level can have, 0 included

ASSUME MarketAssumption == Market \in {"spot", "usd_m_futures"}
ASSUME LevelAssumption  == Price \subseteq Nat /\ Qty \subseteq Nat /\ 0 \in Qty

-----------------------------------------------------------------------------
(* Data                                                                    *)

NoId == 0                                    \* last_update_id is None

BookState == {"warming", "valid", "stale", "invalid", "resync_pending"}

Level == {"bid", "ask"} \X Price

Content == [Level -> Qty]

EmptyContent == [l \in Level |-> 0]

\* DepthDiff.  pu is previous_final_update_id; `levels' is defined on the
\* levels the event names; stale says event_age_ms > max_event_age_ms.
Diff == {d \in [U : Nat \ {0}, u : Nat \ {0}, pu : Nat, stale : BOOLEAN,
                levels : UNION {[D -> Qty] : D \in SUBSET Level}] : d.U <= d.u}

Book == [state : BookState, last : Nat, content : Content, buffer : Seq(Diff)]

NewBook == [state |-> "warming", last |-> NoId, content |-> EmptyContent, buffer |-> <<>>]

-----------------------------------------------------------------------------
(* Helpers of the class                                                    *)

\* best_bid >= best_ask, with both sides present
Crossed(content) ==
    \E p, q \in Price : content[<<"bid", p>>] # 0 /\ content[<<"ask", q>>] # 0 /\ p >= q

\* Mutants: quantities taken for changes; a zero quantity that removes nothing.
ApplyLevelsAdding(content, levels) ==
    [l \in Level |-> IF l \in DOMAIN levels THEN content[l] + levels[l] ELSE content[l]]

ApplyLevelsKeeping(content, levels) ==
    [l \in Level |-> IF l \in DOMAIN levels /\ levels[l] # 0 THEN levels[l] ELSE content[l]]

\* A zero quantity removes the level: it is stored as 0.
ApplyLevels(content, levels) ==
    [l \in Level |-> IF l \in DOMAIN levels THEN levels[l] ELSE content[l]]

Invalidate(book, state) == [book EXCEPT !.state = state]

InsertAfter(buffer, k, d) ==
    SubSeq(buffer, 1, k) \o <<d>> \o SubSeq(buffer, k + 1, Len(buffer))

\* Mutant: no sort after the append.
EnqueueLast(book, d) == [book EXCEPT !.buffer = Append(@, d)]

\* append, then a stable sort by final_update_id: the new diff goes after
\* every diff that ends no later than it does.
Enqueue(book, d) ==
    LET k == Cardinality({i \in DOMAIN book.buffer : book.buffer[i].u <= d.u})
    IN  [book EXCEPT !.buffer = InsertAfter(@, k, d)]

\* Mutants: no check for a gap; one that takes the next update id for a gap.
FollowsAnyGap(book, d) == book.last + 1 <= d.u

FollowsInside(book, d) ==
    /\ Market = "usd_m_futures" => d.pu = book.last
    /\ d.U <= book.last /\ book.last + 1 <= d.u

\* The sequence checks of apply_diff, for a diff that ends after book.last.
Follows(book, d) ==
    /\ Market = "usd_m_futures" => d.pu = book.last
    /\ d.U <= book.last + 1 /\ book.last + 1 <= d.u

\* _find_snapshot_bridge: the test a buffered diff has to pass.
Bridges(d, snapshotId) ==
    IF Market = "spot" THEN d.U <= snapshotId + 1 /\ snapshotId + 1 <= d.u
                       ELSE d.U <= snapshotId /\ snapshotId <= d.u

-----------------------------------------------------------------------------
(* Methods                                                                 *)

\* apply_diff.  buffer_diff is the same function of its arguments: each of
\* the two hands over to the other in the states it does not treat.
ApplyDiff(book, d) ==
    IF book.state = "warming" THEN Enqueue(book, d)
    ELSE IF book.state # "valid" THEN book
    ELSE IF d.stale THEN Invalidate(book, "stale")
    ELSE IF book.last = NoId THEN Invalidate(book, "resync_pending")
    ELSE IF d.u <= book.last THEN book
    ELSE IF ~Follows(book, d) THEN Invalidate(book, "resync_pending")
    ELSE LET content == ApplyLevels(book.content, d.levels)
         IN  [state   |-> IF Crossed(content) THEN "invalid" ELSE "valid",
              last    |-> d.u,
              content |-> content,
              buffer  |-> book.buffer]

\* Mutant: only the bridge is applied.
ReplayBridge(book, diffs) == ApplyDiff(book, diffs[1])

\* The loop at the end of apply_snapshot; on a book that is no longer valid
\* apply_diff does nothing, as the loop's early return.
Replay(book, diffs) ==
    LET after[n \in 0..Len(diffs)] ==
            IF n = 0 THEN book ELSE ApplyDiff(after[n - 1], diffs[n])
    IN  after[Len(diffs)]

\* apply_snapshot.  The buffer is sorted by u, so the diffs replayed, those
\* from the first bridge on in the filtered list, are a suffix of it.
ApplySnapshot(book, snapshotId, content) ==
    LET buffer   == book.buffer
        loaded   == [state |-> "valid", last |-> snapshotId,
                     content |-> content, buffer |-> <<>>]
        relevant == {i \in DOMAIN buffer : buffer[i].u >= snapshotId}
        bridges  == {i \in relevant : Bridges(buffer[i], snapshotId)}
        first    == CHOOSE i \in bridges : \A j \in bridges : i <= j
        start    == IF Market = "usd_m_futures" /\ buffer[first].pu # NoId
                    THEN [loaded EXCEPT !.last = buffer[first].pu] ELSE loaded
    IN  IF Crossed(content) THEN [loaded EXCEPT !.state = "invalid", !.buffer = buffer]
        ELSE IF relevant = {} THEN loaded
        ELSE IF bridges = {} THEN Invalidate(loaded, "resync_pending")
        ELSE Replay(start, SubSeq(buffer, first, Len(buffer)))

=============================================================================
