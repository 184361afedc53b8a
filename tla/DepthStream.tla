---------------------------- MODULE DepthStream -----------------------------
(***************************************************************************)
(* The exchange's side of a depth stream, as far as the program relies on  *)
(* it (external): a book that changes one level at a time, diff events     *)
(* that carry, for a run of update ids, the quantity after the run of      *)
(* every level the run changed, and snapshots, which hold the levels next  *)
(* to the spread only.                                                     *)
(*                                                                         *)
(* exch[k] is the exchange's book after update id k.                       *)
(***************************************************************************)
EXTENDS LocalOrderBook

CONSTANT SnapshotLimit  \* snapshot_limit: the levels of each side a snapshot holds

ASSUME SnapshotAssumption == SnapshotLimit \in Nat \ {0}

\* Spot update ids count the changes of a symbol's book one by one; on
\* USD-M Futures an id may also pass without a change of this book.
Update(content) ==
    {[content EXCEPT ![l] = q] : l \in Level, q \in Qty} \
        (IF Market = "spot" THEN {content} ELSE {})

\* Level l is nearer to the spread than level m of the same side.
Nearer(l, m) == l[1] = m[1] /\ IF l[1] = "bid" THEN l[2] > m[2] ELSE l[2] < m[2]

Present(content) == {l \in Level : content[l] # 0}

\* The levels a snapshot lacks: SnapshotLimit others are nearer to the spread.
Cut(content) ==
    {l \in Present(content) :
        Cardinality({m \in Present(content) : Nearer(m, l)}) >= SnapshotLimit}

\* depth_snapshot(symbol, snapshot_limit)
Snapshot(content) == [l \in Level |-> IF l \in Cut(content) THEN 0 ELSE content[l]]

\* The update a diff starts from: its pu, or when it has none the one before U.
Base(U, pu) == IF pu = NoId THEN U - 1 ELSE pu

Touched(exch, base, u) ==
    {l \in Level : \E k \in base..u : exch[k][l] # exch[u][l]}

Event(exch, U, u, pu, stale) ==
    [U |-> U, u |-> u, pu |-> pu, stale |-> stale,
     levels |-> [l \in Touched(exch, Base(U, pu), u) |-> exch[u][l]]]

\* Every diff that is true of the updates made so far.  pu comes with Futures
\* events only and may be missing there; the ids between pu and U changed
\* nothing.
Events(exch) ==
    {Event(exch, e.U, e.u, e.pu, e.stale) :
        e \in {r \in [U : 2..Len(exch), u : 2..Len(exch), pu : 0..Len(exch), stale : BOOLEAN] :
                /\ r.pu < r.U /\ r.U <= r.u
                /\ Market = "spot" => r.pu = NoId
                /\ \A k \in Base(r.U, r.pu)..(r.U - 1) : exch[k] = exch[r.U - 1]}}

\* What makes a diff harmless: it gives the quantity after u of the levels it
\* names, and the others did not change since its base.
IsTrue(exch, d) ==
    /\ d.u \in DOMAIN exch
    /\ Base(d.U, d.pu) \in 1..(d.U - 1)
    /\ Market = "spot" => d.pu = NoId
    /\ \A l \in Level :
          IF l \in DOMAIN d.levels THEN d.levels[l] = exch[d.u][l]
          ELSE \A k \in Base(d.U, d.pu)..d.u : exch[k][l] = exch[d.u][l]

Sorted(buffer) ==
    \A i, j \in DOMAIN buffer : i < j => buffer[i].u <= buffer[j].u

\* What a book loaded from the snapshot of update `from' can know of update n:
\* a level that lay beyond the snapshot stays unknown until it changes, and
\* every other one is as it is on the exchange.
Copies(content, exch, from, n) ==
    /\ from \in DOMAIN exch /\ n \in DOMAIN exch /\ from <= n
    /\ \A l \in Level :
          \/ content[l] = exch[n][l]
          \/ /\ content[l] = 0 /\ l \in Cut(exch[from])
             /\ \A k \in from..n : exch[k][l] = exch[from][l]

\* What every method keeps of a book that is given true diffs and snapshots
\* only: what is buffered is true and in order, and when the book is valid,
\* loaded from the snapshot of update `from', it copies the exchange's book at
\* its last update id.
Sound(exch, from, book) ==
    /\ book \in Book
    /\ book.last \in 0..Len(exch)
    /\ \A i \in DOMAIN book.buffer : IsTrue(exch, book.buffer[i])
    /\ Sorted(book.buffer)
    /\ book.state = "valid" => /\ book.buffer = <<>>
                              /\ Copies(book.content, exch, from, book.last)
                              /\ ~Crossed(book.content)
=============================================================================
