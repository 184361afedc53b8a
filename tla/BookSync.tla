------------------------------ MODULE BookSync ------------------------------
(***************************************************************************)
(* The depth task of one symbol in runtime/engine.py, _sync_spot_book or   *)
(* _sync_futures_book, between the exchange, the stream transport that     *)
(* reconnects by itself, the snapshot request it awaits, and the main loop *)
(* that starts it again when it has ended, as long as the symbol is a      *)
(* candidate (on Spot also when it is a permanent one).  On Futures the    *)
(* task is one of the three children of the symbol's context task, with    *)
(* the trade and the mark-price stream: they fail together, and the main   *)
(* loop starts them again together when all three have ended.              *)
(*                                                                         *)
(* The handlers run to their next await in one piece, so a message, the    *)
(* answer to a snapshot request and a start of the task are one action     *)
(* each.  The code's only await in a handler that can really suspend is    *)
(* the snapshot request: the put and get on the depth queue do not.        *)
(***************************************************************************)
EXTENDS DepthStream

CONSTANTS MessageLimit,  \* deep_stream_message_limit: messages per run of the task
          SnapshotLag,   \* how many updates behind the served snapshot may be
          MaxUpdateId,   \* bound: update ids the exchange gets to
          MaxInbox,      \* bound: messages in flight on the connection
          MaxFaults      \* bound: things that go wrong

ASSUME SyncAssumption == /\ MessageLimit \in Nat \ {0}
                         /\ {SnapshotLag, MaxUpdateId, MaxInbox, MaxFaults} \subseteq Nat

VARIABLES
    exch,       \* exch[k] is the exchange's book after update id k
    emitted,    \* last update id a depth event was sent for
    connected,  \* the transport has an open connection
    inbox,      \* messages on the connection that the task has not read
    listed,     \* the main loop wants the symbol's streams (deep_symbols, candidates)
    siblings,   \* Futures: the trade or the mark-price stream of the symbol runs
    task,       \* "down", "reading" the stream, or awaiting a "snapshot"
    read,       \* messages read in this run of the task (`yielded')
    asked,      \* update id the exchange was at when the snapshot was requested
    book,       \* spot_books[symbol], futures[symbol].book; a missing book is NewBook
    stamped,    \* symbol in spot_book_updated_at (Spot only)
    faults,     \* things that went wrong so far
    seen,       \* history: where the last diff given to this book ends
    loadedFrom  \* history: the snapshot a valid book was loaded from

exchVars  == <<exch, emitted>>
connVars  == <<connected, inbox>>
loopVars  == <<listed, siblings>>
bookVars  == <<book, stamped, seen, loadedFrom>>
vars == <<exch, emitted, connected, inbox, listed, siblings, task, read, asked,
          book, stamped, faults, seen, loadedFrom>>

Message == [kind : {"diff"}, U : Nat, u : Nat, pu : Nat]
               \cup [kind : {"unreadable", "malformed"}]

Usable == book.state = "valid"

Fault == faults < MaxFaults /\ faults' = faults + 1

-----------------------------------------------------------------------------
(* The exchange and the connection (external)                              *)

ExchangeUpdate ==
    /\ Len(exch) < MaxUpdateId
    /\ \E c \in Update(exch[Len(exch)]) : ~Crossed(c) /\ exch' = Append(exch, c)
    /\ UNCHANGED <<emitted, connVars, loopVars, task, read, asked, bookVars, faults>>

\* Every 100 ms one event covers the updates since the last one.
DepthEvents ==
    {m \in {[kind |-> "diff", U |-> U, u |-> Len(exch),
             pu |-> IF Market = "spot" THEN NoId ELSE emitted] : U \in (emitted + 1)..Len(exch)} :
        IF Market = "spot" THEN m.U = emitted + 1
                           ELSE \A k \in emitted..(m.U - 1) : exch[k] = exch[emitted]}

\* The event reaches the connection, or reaches it damaged: "unreadable" is a
\* payload without U or u, "malformed" one whose numbers do not parse.
Emit ==
    /\ emitted < Len(exch)
    /\ Len(inbox) < MaxInbox
    /\ emitted' = Len(exch)
    /\ \/ /\ \E m \in DepthEvents : inbox' = IF connected THEN Append(inbox, m) ELSE inbox
          /\ UNCHANGED faults
       \/ /\ connected /\ Fault
          /\ \E kind \in {"unreadable", "malformed"} : inbox' = Append(inbox, [kind |-> kind])
    /\ UNCHANGED <<exch, connected, loopVars, task, read, asked, bookVars>>

\* The connection breaks, or recv times out, and what was in flight may go
\* with it.
Drop ==
    /\ connected /\ Fault
    /\ connected' = FALSE
    /\ \E n \in 0..Len(inbox) : inbox' = SubSeq(inbox, 1, n)
    /\ UNCHANGED <<exchVars, loopVars, task, read, asked, bookVars>>

-----------------------------------------------------------------------------
(* stream_json: it connects while it is asked for the next message and     *)
(* returns after MessageLimit of them.                                     *)

Connect ==
    /\ task = "reading" /\ ~connected /\ inbox = <<>> /\ read < MessageLimit
    /\ connected' = TRUE
    /\ UNCHANGED <<exchVars, inbox, loopVars, task, read, asked, bookVars, faults>>

\* The task ends and its connection is closed.
EndTask ==
    /\ task' = "down"
    /\ connected' = FALSE
    /\ inbox' = <<>>

\* An exception of the depth task ends its siblings with it.
FailTask == EndTask /\ siblings' = FALSE /\ UNCHANGED listed

Finish ==
    /\ task = "reading" /\ read = MessageLimit
    /\ EndTask
    /\ UNCHANGED <<exchVars, loopVars, read, asked, bookVars, faults>>

-----------------------------------------------------------------------------
(* The depth task                                                          *)

\* A new LocalOrderBook takes the place of one that is neither warming nor valid.
Renewed(b) == IF b.state \in {"warming", "valid"} THEN b ELSE NewBook

\* evaluate_stage1 ranks the symbols anew.
Relist ==
    /\ listed' = ~listed
    /\ UNCHANGED <<exchVars, connVars, siblings, task, read, asked, bookVars, faults>>

\* Mutant: a task that was ever started is taken to run.
NeverStarted == task = "down" /\ ~siblings /\ read = 0

\* _ensure_stream_task: there is no asyncio task, or it is done.  On Futures it
\* is the context task, which gathers the three children.
TaskDone == task = "down" /\ ~siblings

\* _ensure_stream_task finds the task done and starts it again.
Start ==
    /\ listed /\ TaskDone
    /\ task' = "reading" /\ read' = 0
    /\ siblings' = (Market = "usd_m_futures")
    /\ book' = Renewed(book)
    /\ stamped' = (stamped /\ book' = book)
    /\ seen' = IF book' = book THEN seen ELSE NoId
    /\ UNCHANGED <<exchVars, connVars, listed, asked, faults, loadedFrom>>

\* Mutant: the limit is not looked at.
TakeAny == task = "reading" /\ inbox # <<>> /\ read' = read + 1

TakeMessage == /\ task = "reading" /\ inbox # <<>> /\ read < MessageLimit
               /\ read' = read + 1

\* _spot_depth_diff returns None: continue.
SkipMessage ==
    /\ TakeMessage
    /\ Head(inbox).kind = "unreadable"
    /\ inbox' = Tail(inbox)
    /\ UNCHANGED <<exchVars, connected, loopVars, task, asked, bookVars, faults>>

\* DepthDiff raises ValueError, which ends the task.
FailOnMessage ==
    /\ TakeMessage
    /\ Head(inbox).kind = "malformed"
    /\ FailTask
    /\ UNCHANGED <<exchVars, asked, bookVars, faults>>

\* The diff of the next message, parsed now: its age is that of this moment.
Received(stale) ==
    LET m == Head(inbox) IN Event(exch, m.U, m.u, m.pu, stale)

ReadDiff(stale) ==
    /\ TakeMessage
    /\ Head(inbox).kind = "diff"
    /\ IF stale THEN Fault ELSE UNCHANGED faults
    /\ inbox' = Tail(inbox)

\* Mutants: a snapshot for a book that has one; one for the first diff only.
AskAgain(stale) ==
    /\ ReadDiff(stale)
    /\ book' = ApplyDiff(book, Received(stale))
    /\ task' = "snapshot" /\ asked' = Len(exch)
    /\ seen' = Head(inbox).u
    /\ UNCHANGED <<exchVars, connected, loopVars, stamped, loadedFrom>>

AskOnce(stale) ==
    /\ ReadDiff(stale)
    /\ book.state = "warming"
    /\ book' = ApplyDiff(book, Received(stale))
    /\ task' = IF book.buffer = <<>> THEN "snapshot" ELSE task
    /\ asked' = Len(exch)
    /\ seen' = Head(inbox).u
    /\ UNCHANGED <<exchVars, connected, loopVars, stamped, loadedFrom>>

\* book.state == "warming": buffer it and ask for a snapshot.
BufferAndAsk(stale) ==
    /\ ReadDiff(stale)
    /\ book.state = "warming"
    /\ book' = ApplyDiff(book, Received(stale))
    /\ task' = "snapshot" /\ asked' = Len(exch)
    /\ seen' = Head(inbox).u
    /\ UNCHANGED <<exchVars, connected, loopVars, stamped, loadedFrom>>

\* Mutant: the entry of a book that is no longer valid stays.
StampKept(after, moved) == Market = "spot" /\ (stamped \/ moved)

\* spot_book_updated_at: set when the book has moved, popped when it is not valid.
Stamp(after, moved) == Market = "spot" /\ after.state = "valid" /\ (stamped \/ moved)

\* _apply_spot_book_diff, then a new book if that left it unusable.
Apply(stale) ==
    /\ ReadDiff(stale)
    /\ book.state # "warming"
    /\ LET after == ApplyDiff(book, Received(stale))
           valid == after.state = "valid"
           moved == after.last # book.last
       IN  /\ book' = IF valid THEN after ELSE NewBook
           /\ stamped' = Stamp(after, moved)
           /\ seen' = IF valid THEN Head(inbox).u ELSE NoId
           /\ loadedFrom' = IF valid THEN loadedFrom ELSE NoId
    /\ UNCHANGED <<exchVars, connected, loopVars, task, asked>>

\* The snapshot holds the levels next to the spread that the exchange's book
\* had at some moment before the answer.
SnapshotReply ==
    /\ task = "snapshot"
    /\ \E k \in DOMAIN exch :
          /\ asked <= k + SnapshotLag
          /\ book' = ApplySnapshot(book, k, Snapshot(exch[k]))
          /\ loadedFrom' = IF book'.state = "valid" THEN k ELSE NoId
    /\ stamped' = Stamp(book', TRUE)
    /\ task' = "reading"
    /\ UNCHANGED <<exchVars, connVars, loopVars, read, asked, faults, seen>>

\* The request times out or its answer is unusable: the exception ends the
\* task; the warming book and its buffer stay.
SnapshotFails ==
    /\ task = "snapshot" /\ Fault
    /\ FailTask
    /\ UNCHANGED <<exchVars, read, asked, bookVars>>

\* Futures: the trade or mark-price stream of the symbol fails, and
\* _consume_futures_context_for_symbol cancels the other children with it.
Cancelled ==
    /\ siblings /\ Fault
    /\ FailTask
    /\ UNCHANGED <<exchVars, read, asked, bookVars>>

\* Both return, after MessageLimit messages each.
SiblingsFinish ==
    /\ siblings /\ siblings' = FALSE
    /\ UNCHANGED <<exchVars, connVars, listed, task, read, asked, bookVars, faults>>

-----------------------------------------------------------------------------
Init ==
    /\ exch \in {<<c>> : c \in {x \in Content : ~Crossed(x)}}
    /\ emitted = 1
    /\ connected = FALSE /\ inbox = <<>>
    /\ listed = FALSE /\ siblings = FALSE
    /\ task = "down" /\ read = 0 /\ asked = 1
    /\ book = NewBook /\ stamped = FALSE
    /\ faults = 0 /\ seen = NoId /\ loadedFrom = NoId

Receive == \/ SkipMessage
           \/ FailOnMessage
           \/ \E stale \in BOOLEAN : BufferAndAsk(stale) \/ Apply(stale)

Next == \/ ExchangeUpdate \/ Emit \/ Drop
        \/ Connect \/ Finish \/ Relist \/ Start
        \/ Receive \/ SnapshotReply \/ SnapshotFails \/ Cancelled \/ SiblingsFinish

\* The event loop runs a task that can run, the main loop starts the task of a
\* listed symbol when it is done, a connection attempt or a request is
\* eventually answered, and the exchange sends what it has: of depth, and
\* trades and mark prices enough to end the siblings.  Updates, faults and
\* new rankings need not happen.
Fairness ==
    /\ WF_vars(Emit) /\ WF_vars(Connect) /\ WF_vars(Finish)
    /\ WF_vars(Start) /\ WF_vars(SiblingsFinish)
    /\ WF_vars(Receive) /\ WF_vars(SnapshotReply)

Spec == Init /\ [][Next]_vars /\ Fairness

-----------------------------------------------------------------------------
(* Invariants                                                              *)

TypeOK ==
    /\ exch \in Seq(Content) /\ emitted \in DOMAIN exch
    /\ connected \in BOOLEAN
    /\ inbox \in Seq(Message)
    /\ listed \in BOOLEAN /\ siblings \in BOOLEAN
    /\ task \in {"down", "reading", "snapshot"}
    /\ read \in 0..MessageLimit
    /\ asked \in DOMAIN exch
    /\ book \in Book
    /\ stamped \in BOOLEAN
    /\ faults \in 0..MaxFaults
    /\ seen \in {NoId} \cup DOMAIN exch /\ loadedFrom \in {NoId} \cup DOMAIN exch

\* FR-BACKPRESSURE-002: whatever connections break, events are lost or
\* snapshots fail, and across restarts of the task, in the book that the alert
\* stage reads each level is what the exchange had at last_update_id, but those
\* that lay beyond the levels of the snapshot and have not changed since, which
\* are missing; or the book is not valid.
PublishedBookIsTrue ==
    Usable => Copies(book.content, exch, loadedFrom, book.last)

\* evaluate_stage2 takes the age of a book from spot_book_updated_at: on Spot
\* the symbol has an entry exactly while its book is valid, so a replaced or
\* abandoned book cannot pass for a fresh one.
StampedIffUsable ==
    Market = "spot" => (stamped <=> Usable)

\* A snapshot is requested after every diff a warming book buffers, so the
\* buffer, which has no limit of its own, holds one diff more than snapshot
\* requests have failed.
BufferHeldBySnapshots ==
    Len(book.buffer) <= faults + 1

\* The parts of the inductive invariant behind the theorems of BookSync_proofs
\* that are not properties themselves.

\* A snapshot is awaited for a warming book only.
SnapshotForWarmingBook ==
    task = "snapshot" => book.state = "warming" /\ book.buffer # <<>>

\* What is in flight is true of the exchange.
InboxTrue ==
    \A m \in {inbox[i] : i \in DOMAIN inbox} : m.kind = "diff" =>
        /\ m.u \in DOMAIN exch /\ m.U <= m.u
        /\ m.pu < m.U /\ Base(m.U, m.pu) >= 1
        /\ Market = "spot" => m.pu = NoId

NeverCrossed == \A k \in DOMAIN exch : ~Crossed(exch[k])

\* A buffered diff is paid for by a fault, but the one being answered or
\* left over in a book that the next diff replaces.
BufferPaidFor ==
    Len(book.buffer) <= faults + (IF task = "snapshot" \/ book.state # "warming" THEN 1 ELSE 0)

\* A book has what it was given, or will have it when its buffer is replayed.
SeenHeld ==
    /\ book.state = "warming" =>
          seen = NoId \/ \E i \in DOMAIN book.buffer : seen <= book.buffer[i].u
    /\ Usable => seen <= book.last

IInv == /\ TypeOK /\ NeverCrossed /\ InboxTrue /\ Sound(exch, loadedFrom, book)
        /\ StampedIffUsable /\ SnapshotForWarmingBook /\ BufferPaidFor /\ SeenHeld

-----------------------------------------------------------------------------
(* Action properties                                                       *)

\* A reader never sees a valid book go back to an earlier update id, through
\* reconnections, restarts and late events too, unless it was not valid in
\* between.
NeverRewinds ==
    [][Usable /\ Usable' => book.last <= book'.last]_vars

\* Spot: a valid book is given up only for a reason: an event that is too old,
\* or one that does not continue the last event this book was given, before
\* its snapshot or after.
NoSpuriousResync ==
    [][Market = "spot" /\ Usable /\ ~Usable' =>
          ReadDiff(TRUE) \/ (ReadDiff(FALSE) /\ Head(inbox).U > seen + 1)]_vars

-----------------------------------------------------------------------------
(* What the documents say and the code does not do                         *)

\* FR-BOOK-002: on Futures "the first applicable event must satisfy U <=
\* snapshot.lastUpdateId <= u"; an event that does is accepted.
FirstEventBridges ==
    [][Market = "usd_m_futures" /\ Usable /\ book.last = loadedFrom /\ ReadDiff(FALSE)
       /\ Head(inbox).U <= loadedFrom /\ loadedFrom <= Head(inbox).u
       => Usable']_vars

-----------------------------------------------------------------------------
(* Liveness                                                                *)

\* When faults and updates stop and the symbol stays listed, the task gets
\* back, from wherever a fault left it and after its siblings too have ended,
\* to an open connection with everything on it read.
Settles == <>[]listed => <>[](task = "reading" /\ connected /\ inbox = <<>>)

-----------------------------------------------------------------------------
(* Refinement                                                              *)

View == INSTANCE ExchangeView WITH
            shown <- IF Usable THEN [valid |-> TRUE, from |-> loadedFrom, id |-> book.last,
                                     content |-> book.content]
                     ELSE [valid |-> FALSE]

ImplementsView == View!Spec
=============================================================================
