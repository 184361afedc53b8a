-------------------------- MODULE BookSync_proofs ---------------------------
(***************************************************************************)
(* The safety properties of the depth task, for both markets, every set of *)
(* prices and quantities, every message limit, snapshot lag and bound.     *)
(***************************************************************************)
EXTENDS BookSync, LocalOrderBook_proofs

-----------------------------------------------------------------------------
(* Messages                                                                *)

InFlight == {inbox[i] : i \in DOMAIN inbox}

\* A queue of messages from which some were taken or lost holds no new one.
LEMMA TailInbox ==
  ASSUME NEW q \in Seq(Message), q # <<>>
  PROVE  /\ Tail(q) \in Seq(Message) /\ Head(q) \in Message
         /\ Head(q) \in {q[i] : i \in DOMAIN q}
         /\ {Tail(q)[i] : i \in DOMAIN Tail(q)} \subseteq {q[i] : i \in DOMAIN q}
<1>1. /\ Len(q) \in Nat /\ Len(q) >= 1 /\ DOMAIN q = 1..Len(q)
      /\ Tail(q) \in Seq(Message) /\ Len(Tail(q)) = Len(q) - 1
      /\ \A i \in 1..(Len(q) - 1) : Tail(q)[i] = q[i + 1]
      /\ Head(q) = q[1] /\ Head(q) \in Message
  BY HeadTailProperties, EmptySeq, LenProperties
<1>2. DOMAIN Tail(q) = 1..(Len(q) - 1)
  BY <1>1, LenProperties
<1>3. \A i \in 1..(Len(q) - 1) : i + 1 \in 1..Len(q)
  BY <1>1
<1> QED BY <1>1, <1>2, <1>3

LEMMA PrefixInbox ==
  ASSUME NEW q \in Seq(Message), NEW n \in 0..Len(q)
  PROVE  /\ SubSeq(q, 1, n) \in Seq(Message)
         /\ {SubSeq(q, 1, n)[i] : i \in DOMAIN SubSeq(q, 1, n)} \subseteq {q[i] : i \in DOMAIN q}
<1>1. /\ Len(q) \in Nat /\ DOMAIN q = 1..Len(q)
      /\ SubSeq(q, 1, n) \in Seq(Message) /\ DOMAIN SubSeq(q, 1, n) = 1..n
      /\ \A i \in 1..n : SubSeq(q, 1, n)[i] = q[i]
  BY SubSeqProperties
<1> QED BY <1>1

LEMMA AppendInbox ==
  ASSUME NEW q \in Seq(Message), NEW m \in Message
  PROVE  /\ Append(q, m) \in Seq(Message)
         /\ {Append(q, m)[i] : i \in DOMAIN Append(q, m)} \subseteq {q[i] : i \in DOMAIN q} \cup {m}
<1>1. /\ Len(q) \in Nat /\ DOMAIN q = 1..Len(q)
      /\ Append(q, m) \in Seq(Message) /\ DOMAIN Append(q, m) = 1..(Len(q) + 1)
      /\ \A i \in 1..Len(q) : Append(q, m)[i] = q[i]
      /\ Append(q, m)[Len(q) + 1] = m
  BY AppendProperties
<1> QED BY <1>1

\* What InboxTrue asks of one message.
MessageTrue(m) ==
    m.kind = "diff" =>
        /\ m.u \in DOMAIN exch /\ m.U <= m.u
        /\ m.pu < m.U /\ Base(m.U, m.pu) >= 1
        /\ Market = "spot" => m.pu = NoId

LEMMA InboxTrueIs == InboxTrue <=> \A m \in InFlight : MessageTrue(m)
BY DEF InboxTrue, InFlight, MessageTrue

\* An event the exchange sends is true when it is sent.
LEMMA DepthEventTrue ==
  ASSUME exch \in Seq(Content), emitted \in DOMAIN exch, emitted < Len(exch),
         NEW m \in DepthEvents
  PROVE  m \in Message /\ MessageTrue(m)
<1>1. /\ Len(exch) \in Nat /\ DOMAIN exch = 1..Len(exch) /\ emitted \in 1..Len(exch)
  OBVIOUS
<1>2. PICK U \in (emitted + 1)..Len(exch) :
        m = [kind |-> "diff", U |-> U, u |-> Len(exch),
             pu |-> IF Market = "spot" THEN NoId ELSE emitted]
  BY DEF DepthEvents
<1>3. /\ m.kind = "diff" /\ m.U = U /\ m.u = Len(exch)
      /\ m.pu = (IF Market = "spot" THEN NoId ELSE emitted)
      /\ m \in Message
  BY <1>1, <1>2 DEF Message, NoId
<1>4. m.pu < m.U /\ Base(m.U, m.pu) >= 1 /\ m.U <= m.u /\ m.u \in DOMAIN exch
  BY <1>1, <1>3 DEF Base, NoId
<1> QED BY <1>3, <1>4 DEF MessageTrue

\* The diff a handler makes of the message it reads is one the class accepts,
\* and true.
LEMMA ReceivedTrue ==
  ASSUME IInv, NEW stale \in BOOLEAN, ReadDiff(stale)
  PROVE  /\ Received(stale) \in Diff /\ IsTrue(exch, Received(stale))
         /\ Received(stale).U = Head(inbox).U /\ Received(stale).u = Head(inbox).u
         /\ Received(stale).pu = Head(inbox).pu /\ Received(stale).stale = stale
         /\ Head(inbox).u \in DOMAIN exch /\ Head(inbox).U \in Nat
<1> DEFINE m == Head(inbox)
<1>1. exch \in Seq(Content) /\ inbox \in Seq(Message) /\ inbox # <<>> /\ m.kind = "diff"
  BY DEF IInv, TypeOK, ReadDiff, TakeMessage
<1>2. m \in Message /\ m \in InFlight
  BY <1>1, TailInbox DEF InFlight
<1>3. MessageTrue(m)
  BY <1>2, InboxTrueIs DEF IInv
<1>4. m.U \in Nat /\ m.u \in Nat /\ m.pu \in Nat
  BY <1>1, <1>2 DEF Message
<1>5. /\ m.u \in DOMAIN exch /\ m.U <= m.u /\ m.pu < m.U /\ Base(m.U, m.pu) >= 1
      /\ Market = "spot" => m.pu = NoId
  BY <1>1, <1>3 DEF MessageTrue
<1>6. Received(stale) = Event(exch, m.U, m.u, m.pu, stale)
  BY DEF Received
<1> HIDE DEF m
<1>7. Received(stale) \in Diff /\ IsTrue(exch, Received(stale))
  BY <1>1, <1>4, <1>5, <1>6, EventIsTrue
<1>8. /\ Received(stale).U = m.U /\ Received(stale).u = m.u
      /\ Received(stale).pu = m.pu /\ Received(stale).stale = stale
  BY <1>6 DEF Event
<1> QED BY <1>4, <1>5, <1>7, <1>8 DEF m

-----------------------------------------------------------------------------
(* The invariant is inductive.                                             *)

LEMMA InitIInv == Init => IInv
<1> SUFFICES ASSUME Init PROVE IInv
  OBVIOUS
<1>1. PICK c \in Content : exch = <<c>> /\ ~Crossed(c)
  BY DEF Init
<1>2. /\ exch \in Seq(Content) /\ Len(exch) = 1 /\ DOMAIN exch = {1} /\ exch[1] = c
  BY <1>1
<1>3. Sound(exch, loadedFrom, book) /\ book \in Book
  BY <1>2, NewBookSound DEF Init, Sound
<1>4. inbox \in Seq(Message) /\ InFlight = {}
  BY DEF Init, InFlight
<1>5. TypeOK
  <2>1. MaxFaults \in Nat /\ MessageLimit \in Nat
    BY SyncAssumption
  <2>2. /\ emitted = 1 /\ connected = FALSE /\ task = "down" /\ read = 0 /\ asked = 1
        /\ stamped = FALSE /\ faults = 0 /\ seen = NoId /\ loadedFrom = NoId
    BY DEF Init
  <2>3. emitted \in DOMAIN exch /\ asked \in DOMAIN exch
    BY <1>2, <2>2
  <2>4. read \in 0..MessageLimit /\ faults \in 0..MaxFaults
    BY <2>1, <2>2
  <2>5. seen \in {NoId} \cup DOMAIN exch /\ loadedFrom \in {NoId} \cup DOMAIN exch
    BY <2>2
  <2>6. /\ connected \in BOOLEAN /\ stamped \in BOOLEAN /\ task \in {"down", "reading", "snapshot"}
        /\ listed \in BOOLEAN /\ siblings \in BOOLEAN
    BY <2>2 DEF Init
  <2> QED BY <1>2, <1>3, <1>4, <2>3, <2>4, <2>5, <2>6 DEF TypeOK
<1>6. InboxTrue
  BY <1>4, InboxTrueIs
<1>7. NeverCrossed
  BY <1>1, <1>2 DEF NeverCrossed
<1>8. StampedIffUsable /\ SnapshotForWarmingBook /\ BufferPaidFor /\ SeenHeld
  BY DEF StampedIffUsable, SnapshotForWarmingBook, BufferPaidFor, SeenHeld, Init, Usable, NewBook
<1> QED BY <1>3, <1>5, <1>6, <1>7, <1>8 DEF IInv

\* The exchange's books so far stay what they are, and everything that is true
\* of them with them.
LEMMA ExchangeKeeps ==
  ASSUME IInv, ExchangeUpdate
  PROVE  IInv'
<1>1. PICK c \in Update(exch[Len(exch)]) : ~Crossed(c) /\ exch' = Append(exch, c)
  BY DEF ExchangeUpdate
<1>2. /\ exch \in Seq(Content) /\ emitted \in DOMAIN exch /\ Len(exch) \in Nat /\ Len(exch) > 0
      /\ DOMAIN exch = 1..Len(exch)
  BY DEF IInv, TypeOK
<1>3. c \in Content
  <2>1. exch[Len(exch)] \in Content
    BY <1>2
  <2> QED BY <2>1, UpdateType
<1>4. /\ exch' \in Seq(Content) /\ DOMAIN exch' = 1..(Len(exch) + 1)
      /\ \A k \in 1..Len(exch) : exch'[k] = exch[k]
      /\ exch'[Len(exch) + 1] = c
  BY <1>1, <1>2, <1>3, AppendProperties
<1>5. DOMAIN exch \subseteq DOMAIN exch'
  BY <1>2, <1>4
<1>6. UNCHANGED <<emitted, connected, inbox, listed, siblings, task, read, asked, book, stamped,
                    seen, loadedFrom, faults>>
  BY DEF ExchangeUpdate, connVars, loopVars, bookVars
<1>7. TypeOK'
  BY <1>4, <1>5, <1>6 DEF IInv, TypeOK
<1>8. NeverCrossed'
  BY <1>1, <1>2, <1>4 DEF IInv, NeverCrossed
<1>9. InboxTrue'
  <2>1. {inbox'[i] : i \in DOMAIN inbox'} = {inbox[i] : i \in DOMAIN inbox}
    BY <1>6
  <2> QED BY <1>5, <2>1 DEF IInv, InboxTrue
<1>10. Sound(exch', loadedFrom', book')
  BY <1>1, <1>2, <1>3, <1>6, GrowSound DEF IInv
<1>11. StampedIffUsable' /\ SnapshotForWarmingBook' /\ BufferPaidFor' /\ SeenHeld'
  BY <1>6 DEF IInv, StampedIffUsable, SnapshotForWarmingBook, BufferPaidFor, SeenHeld, Usable
<1> QED BY <1>7, <1>8, <1>9, <1>10, <1>11 DEF IInv

\* A step that leaves the exchange's books alone, and in flight nothing but
\* what was there or is true, keeps the invariant when it keeps the rest.
LEMMA WithSameExchange ==
  ASSUME IInv, exch' = exch,
         \A m \in InFlight' : m \in InFlight \/ MessageTrue(m),
         TypeOK', Sound(exch, loadedFrom', book'),
         StampedIffUsable', SnapshotForWarmingBook', BufferPaidFor', SeenHeld'
  PROVE  IInv'
<1>1. NeverCrossed'
  BY DEF IInv, NeverCrossed
<1>2. \A m \in InFlight : MessageTrue(m)
  BY InboxTrueIs DEF IInv
<1>3. InboxTrue'
  BY <1>2 DEF InboxTrue, InFlight, MessageTrue
<1> QED BY <1>1, <1>3 DEF IInv

\* A step that leaves the book alone as well, and does not begin to wait for a
\* snapshot.
LEMMA WithSameBook ==
  ASSUME IInv, exch' = exch, book' = book, stamped' = stamped, seen' = seen, loadedFrom' = loadedFrom,
         \A m \in InFlight' : m \in InFlight \/ MessageTrue(m),
         task' = task \/ (task' # "snapshot" /\ (task = "snapshot" => faults' = faults + 1)),
         faults' \in {faults, faults + 1},
         TypeOK'
  PROVE  IInv'
<1>1. faults \in Nat /\ Len(book.buffer) \in Nat
  BY DEF IInv, TypeOK, Book
<1>2. StampedIffUsable' /\ SnapshotForWarmingBook' /\ SeenHeld'
  BY DEF IInv, StampedIffUsable, SnapshotForWarmingBook, SeenHeld, Usable
<1>3. BufferPaidFor'
  BY <1>1 DEF IInv, BufferPaidFor, SnapshotForWarmingBook
<1> QED BY <1>2, <1>3, WithSameExchange DEF IInv

LEMMA EmitKeeps ==
  ASSUME IInv, Emit
  PROVE  IInv'
<1>1. /\ exch' = exch /\ emitted' = Len(exch) /\ emitted < Len(exch)
      /\ UNCHANGED <<connected, listed, siblings, task, read, asked, book, stamped, seen, loadedFrom>>
  BY DEF Emit, loopVars, bookVars
<1>2. /\ exch \in Seq(Content) /\ emitted \in DOMAIN exch /\ Len(exch) \in DOMAIN exch
      /\ inbox \in Seq(Message) /\ faults \in 0..MaxFaults /\ MaxFaults \in Nat
  BY SyncAssumption DEF IInv, TypeOK
<1>3. faults' \in 0..MaxFaults /\ faults' \in {faults, faults + 1}
  BY <1>2 DEF Emit, Fault
<1>4. inbox' = inbox \/ \E m \in Message : MessageTrue(m) /\ inbox' = Append(inbox, m)
  <2>1. CASE \E m \in DepthEvents : inbox' = IF connected THEN Append(inbox, m) ELSE inbox
    BY <1>1, <1>2, <2>1, DepthEventTrue
  <2>2. CASE \E kind \in {"unreadable", "malformed"} : inbox' = Append(inbox, [kind |-> kind])
    BY <2>2 DEF Message, MessageTrue
  <2> QED BY <2>1, <2>2 DEF Emit
<1>5. inbox' \in Seq(Message) /\ \A m \in InFlight' : m \in InFlight \/ MessageTrue(m)
  <2>1. CASE inbox' = inbox
    BY <1>2, <2>1 DEF InFlight
  <2>2. ASSUME NEW m \in Message, MessageTrue(m), inbox' = Append(inbox, m)
        PROVE  inbox' \in Seq(Message) /\ InFlight' \subseteq InFlight \cup {m}
    <3> DEFINE q == inbox
    <3>1. q \in Seq(Message) /\ inbox' = Append(q, m)
      BY <1>2, <2>2
    <3>2. InFlight = {q[i] : i \in DOMAIN q} /\ InFlight' = {Append(q, m)[i] : i \in DOMAIN Append(q, m)}
      BY <2>2 DEF InFlight
    <3> HIDE DEF q
    <3>3. /\ Append(q, m) \in Seq(Message)
          /\ {Append(q, m)[i] : i \in DOMAIN Append(q, m)} \subseteq {q[i] : i \in DOMAIN q} \cup {m}
      BY <3>1, AppendInbox
    <3> QED BY <3>1, <3>2, <3>3, Zenon
  <2> QED BY <1>4, <2>1, <2>2
<1>6. TypeOK'
  BY <1>1, <1>2, <1>3, <1>5 DEF IInv, TypeOK
<1> QED BY <1>1, <1>3, <1>5, <1>6, WithSameBook

LEMMA DropKeeps ==
  ASSUME IInv, Drop
  PROVE  IInv'
<1>1. /\ exch' = exch /\ connected' = FALSE
      /\ UNCHANGED <<emitted, listed, siblings, task, read, asked, book, stamped, seen, loadedFrom>>
  BY DEF Drop, exchVars, loopVars, bookVars
<1>2. inbox \in Seq(Message) /\ faults \in 0..MaxFaults /\ MaxFaults \in Nat
  BY SyncAssumption DEF IInv, TypeOK
<1>3. faults' \in 0..MaxFaults /\ faults' = faults + 1
  BY <1>2 DEF Drop, Fault
<1>4. inbox' \in Seq(Message) /\ \A m \in InFlight' : m \in InFlight
  BY <1>2, PrefixInbox DEF Drop, InFlight
<1>5. TypeOK'
  BY <1>1, <1>3, <1>4 DEF IInv, TypeOK
<1> QED BY <1>1, <1>3, <1>4, <1>5, WithSameBook

LEMMA ConnectKeeps ==
  ASSUME IInv, Connect
  PROVE  IInv'
<1>1. /\ exch' = exch /\ connected' = TRUE
      /\ UNCHANGED <<emitted, inbox, listed, siblings, task, read, asked, book, stamped, seen,
                     loadedFrom, faults>>
  BY DEF Connect, exchVars, loopVars, bookVars
<1>2. TypeOK' /\ InFlight' = InFlight
  BY <1>1 DEF IInv, TypeOK, InFlight
<1> QED BY <1>1, <1>2, WithSameBook

\* The task ends and nothing is in flight: by itself, or by a fault.
LEMMA EndTaskKeeps ==
  ASSUME IInv, EndTask, UNCHANGED <<exch, emitted, asked, book, stamped, seen, loadedFrom>>,
         listed' \in BOOLEAN, siblings' \in BOOLEAN,
         read' \in 0..MessageLimit, faults' \in 0..MaxFaults,
         \/ task # "snapshot" /\ faults' = faults
         \/ faults' = faults + 1
  PROVE  IInv'
<1>1. /\ task' = "down" /\ connected' = FALSE /\ inbox' = <<>>
      /\ inbox' \in Seq(Message) /\ InFlight' = {}
  BY DEF EndTask, InFlight
<1>2. TypeOK'
  BY <1>1 DEF IInv, TypeOK
<1> QED BY <1>1, <1>2, WithSameBook

LEMMA EndKeeps ==
  ASSUME IInv, Finish \/ FailOnMessage \/ SnapshotFails \/ Cancelled
  PROVE  IInv'
<1>1. /\ read \in 0..MessageLimit /\ MessageLimit \in Nat
      /\ faults \in 0..MaxFaults /\ MaxFaults \in Nat
      /\ listed \in BOOLEAN /\ siblings \in BOOLEAN
  BY SyncAssumption DEF IInv, TypeOK
<1>2. CASE Finish
  BY <1>1, <1>2, EndTaskKeeps DEF Finish, exchVars, loopVars, bookVars
<1>3. CASE FailOnMessage
  <2>1. read' \in 0..MessageLimit
    BY <1>1, <1>3 DEF FailOnMessage, TakeMessage
  <2> QED BY <1>1, <1>3, <2>1, EndTaskKeeps DEF FailOnMessage, FailTask, TakeMessage, exchVars, bookVars
<1>4. CASE SnapshotFails \/ Cancelled
  <2>1. faults' \in 0..MaxFaults /\ faults' = faults + 1
    BY <1>1, <1>4 DEF SnapshotFails, Cancelled, Fault
  <2> QED BY <1>1, <1>4, <2>1, EndTaskKeeps DEF SnapshotFails, Cancelled, FailTask, exchVars, bookVars
<1> QED BY <1>2, <1>3, <1>4

LEMMA SkipKeeps ==
  ASSUME IInv, SkipMessage
  PROVE  IInv'
<1>1. /\ exch' = exch /\ inbox # <<>> /\ inbox' = Tail(inbox)
      /\ UNCHANGED <<emitted, connected, listed, siblings, task, asked, book, stamped, seen,
                     loadedFrom, faults>>
  BY DEF SkipMessage, TakeMessage, exchVars, loopVars, bookVars
<1>2. inbox' \in Seq(Message) /\ \A m \in InFlight' : m \in InFlight
  BY <1>1, TailInbox DEF IInv, TypeOK, InFlight
<1>3. read' \in 0..MessageLimit
  BY SyncAssumption DEF SkipMessage, TakeMessage, IInv, TypeOK
<1>4. TypeOK'
  BY <1>1, <1>2, <1>3 DEF IInv, TypeOK
<1> QED BY <1>1, <1>2, <1>4, WithSameBook

\* The main loop's ranking and the end of the siblings concern nothing else.
LEMMA LoopKeeps ==
  ASSUME IInv, Relist \/ SiblingsFinish
  PROVE  IInv'
<1>1. /\ UNCHANGED <<exch, emitted, connected, inbox, task, read, asked, book, stamped, seen,
                     loadedFrom, faults>>
      /\ listed' \in BOOLEAN /\ siblings' \in BOOLEAN
  BY DEF Relist, SiblingsFinish, exchVars, connVars, bookVars, IInv, TypeOK
<1>2. TypeOK' /\ InFlight' = InFlight
  BY <1>1 DEF IInv, TypeOK, InFlight
<1> QED BY <1>1, <1>2, WithSameBook

\* The task starts: a book it cannot go on with is replaced.
LEMMA StartKeeps ==
  ASSUME IInv, Start
  PROVE  IInv'
<1>1. /\ exch' = exch /\ task' = "reading" /\ read' = 0
      /\ book' = Renewed(book) /\ stamped' = (stamped /\ book' = book)
      /\ seen' = IF book' = book THEN seen ELSE NoId
      /\ UNCHANGED <<emitted, connected, inbox, listed, asked, faults, loadedFrom>>
      /\ task = "down" /\ siblings' \in BOOLEAN
  BY DEF Start, TaskDone, exchVars, connVars
<1>2. exch \in Seq(Content) /\ \A f : Sound(exch, f, NewBook) /\ Sound(exch, loadedFrom, book) /\ NewBook \in Book
  BY NewBookSound DEF IInv, TypeOK, Sound
<1>3. Sound(exch, loadedFrom', book') /\ book' \in Book
  BY <1>1, <1>2 DEF Renewed, IInv, TypeOK
<1>4. InFlight' = InFlight
  BY <1>1 DEF InFlight
<1>5. TypeOK'
  <2>1. read' \in 0..MessageLimit
    BY <1>1, SyncAssumption
  <2>2. seen' \in {NoId} \cup DOMAIN exch
    BY <1>1 DEF IInv, TypeOK
  <2>3. stamped' \in BOOLEAN
    BY <1>1 DEF IInv, TypeOK
  <2> QED BY <1>1, <1>3, <2>1, <2>2, <2>3 DEF IInv, TypeOK
<1>6. CASE book' = book
  <2>1. stamped' = stamped /\ seen' = seen
    BY <1>1, <1>6 DEF IInv, TypeOK
  <2> QED BY <1>1, <1>4, <1>5, <1>6, <2>1, WithSameBook DEF IInv, TypeOK
<1>7. CASE book' # book
  <2>1. /\ book' = NewBook /\ seen' = NoId /\ stamped' = FALSE
        /\ book.state \notin {"warming", "valid"}
    BY <1>1, <1>7 DEF Renewed
  <2>2. /\ book'.state = "warming" /\ book'.last = NoId /\ Len(book'.buffer) = 0
    BY <2>1 DEF NewBook
  <2>3. StampedIffUsable' /\ SnapshotForWarmingBook' /\ SeenHeld'
    BY <1>1, <2>1, <2>2 DEF StampedIffUsable, SnapshotForWarmingBook, SeenHeld, Usable
  <2>4. BufferPaidFor'
    BY <1>1, <2>2 DEF BufferPaidFor, IInv, TypeOK
  <2> QED BY <1>1, <1>3, <1>4, <1>5, <2>3, <2>4, WithSameExchange
<1> QED BY <1>6, <1>7

\* What a diff read from the connection leaves: one message less, and a fault
\* more when it is too old.
LEMMA ReadKeeps ==
  ASSUME IInv, NEW stale \in BOOLEAN, ReadDiff(stale)
  PROVE  /\ inbox' \in Seq(Message) /\ read' \in 0..MessageLimit /\ faults' \in 0..MaxFaults
         /\ faults <= faults' /\ task = "reading"
         /\ \A m \in InFlight' : m \in InFlight
<1>1. /\ inbox \in Seq(Message) /\ read \in 0..MessageLimit /\ MessageLimit \in Nat
      /\ faults \in 0..MaxFaults /\ MaxFaults \in Nat
  BY SyncAssumption DEF IInv, TypeOK
<1>2. /\ inbox # <<>> /\ inbox' = Tail(inbox) /\ read' \in 0..MessageLimit /\ task = "reading"
  BY <1>1 DEF ReadDiff, TakeMessage
<1>3. faults' \in 0..MaxFaults /\ faults <= faults'
  BY <1>1 DEF ReadDiff, Fault
<1>4. inbox' \in Seq(Message) /\ \A m \in InFlight' : m \in InFlight
  BY <1>1, <1>2, TailInbox DEF InFlight
<1> QED BY <1>2, <1>3, <1>4

LEMMA BufferAndAskKeeps ==
  ASSUME IInv, NEW stale \in BOOLEAN, BufferAndAsk(stale)
  PROVE  IInv'
<1> DEFINE d == Received(stale)
<1>0. ReadDiff(stale)
  BY DEF BufferAndAsk
<1>1. /\ book.state = "warming" /\ book' = ApplyDiff(book, d)
      /\ task' = "snapshot" /\ asked' = Len(exch) /\ seen' = Head(inbox).u
      /\ UNCHANGED <<exch, emitted, connected, listed, siblings, stamped, loadedFrom>>
  BY DEF BufferAndAsk, exchVars, loopVars
<1>2. /\ d \in Diff /\ IsTrue(exch, d) /\ d.u = Head(inbox).u /\ Head(inbox).u \in DOMAIN exch
      /\ Head(inbox).u \in Nat
  BY <1>0, ReceivedTrue DEF Diff
<1>3. /\ inbox' \in Seq(Message) /\ read' \in 0..MessageLimit /\ faults' \in 0..MaxFaults
      /\ faults <= faults' /\ task = "reading"
      /\ \A m \in InFlight' : m \in InFlight
  BY <1>0, ReadKeeps
<1>4. /\ exch \in Seq(Content) /\ Sound(exch, loadedFrom, book) /\ book \in Book /\ Sorted(book.buffer)
      /\ Len(exch) \in DOMAIN exch
  BY DEF IInv, TypeOK, Sound
<1>5. book' = Enqueue(book, d)
  BY <1>1 DEF ApplyDiff
<1> HIDE DEF d
<1>6. Sound(exch, loadedFrom', book') /\ book' \in Book /\ book'.state = "warming"
  BY <1>1, <1>2, <1>4, <1>5, EnqueueSound DEF Sound
<1>7. /\ Len(book'.buffer) = Len(book.buffer) + 1
      /\ \E k \in 0..Len(book.buffer) : book'.buffer[k + 1] = d
  BY <1>2, <1>4, <1>5, EnqueueShape
<1>8. Len(book.buffer) \in Nat /\ DOMAIN book'.buffer = 1..Len(book'.buffer)
  BY <1>4, <1>6 DEF Book
<1>9. \E i \in DOMAIN book'.buffer : seen' <= book'.buffer[i].u
  <2>1. PICK k \in 0..Len(book.buffer) : book'.buffer[k + 1] = d
    BY <1>7
  <2>2. k + 1 \in DOMAIN book'.buffer
    BY <1>7, <1>8
  <2>3. seen' <= d.u
    BY <1>1, <1>2
  <2> QED BY <2>1, <2>2, <2>3
<1>10. TypeOK'
  <2>1. seen' \in DOMAIN exch /\ asked' \in DOMAIN exch
    BY <1>1, <1>2, <1>4
  <2> QED BY <1>1, <1>3, <1>6, <2>1 DEF IInv, TypeOK
<1>11. StampedIffUsable'
  BY <1>1, <1>6 DEF IInv, StampedIffUsable, Usable
<1>12. SnapshotForWarmingBook'
  BY <1>6, <1>7, <1>8 DEF SnapshotForWarmingBook
<1>13. SeenHeld'
  BY <1>6, <1>9 DEF SeenHeld, Usable
<1>14. BufferPaidFor'
  <2>1. Len(book.buffer) <= faults + 0
    BY <1>1, <1>3 DEF IInv, BufferPaidFor
  <2>2. faults \in Nat /\ faults' \in Nat
    BY <1>3, SyncAssumption DEF IInv, TypeOK
  <2> QED BY <1>1, <1>3, <1>7, <1>8, <2>1, <2>2 DEF BufferPaidFor
<1> QED BY <1>1, <1>3, <1>6, <1>10, <1>11, <1>12, <1>13, <1>14, WithSameExchange

\* What applying a diff leaves of a book that is not warming.
LEMMA AppliedKeeps ==
  ASSUME IInv, NEW stale \in BOOLEAN, ReadDiff(stale), book.state # "warming"
  PROVE  LET after == ApplyDiff(book, Received(stale))
         IN  /\ Sound(exch, loadedFrom, after)
             /\ after.state = "valid" => /\ book.state = "valid"
                                        /\ book.last <= after.last
                                        /\ Head(inbox).u <= after.last
<1> DEFINE d == Received(stale)
<1>1. d \in Diff /\ IsTrue(exch, d) /\ d.u = Head(inbox).u
  BY ReceivedTrue
<1>2. exch \in Seq(Content) /\ Sound(exch, loadedFrom, book) /\ book \in Book
  BY DEF IInv, TypeOK, Sound
<1> HIDE DEF d
<1>3. Sound(exch, loadedFrom, ApplyDiff(book, d))
  BY <1>1, <1>2, ApplyDiffSound
<1>4. LET after == ApplyDiff(book, d)
      IN  after.state = "valid" => /\ book.state = "valid"
                                  /\ book.last <= after.last
                                  /\ d.u <= after.last
  BY <1>1, <1>2, ApplyDiffMoves
<1> QED BY <1>1, <1>3, <1>4 DEF d

LEMMA ApplyKeeps ==
  ASSUME IInv, NEW stale \in BOOLEAN, Apply(stale)
  PROVE  IInv'
<1> DEFINE after == ApplyDiff(book, Received(stale))
           valid == after.state = "valid"
           moved == after.last # book.last
<1>0. ReadDiff(stale) /\ book.state # "warming"
  BY DEF Apply
<1>1. /\ book' = IF valid THEN after ELSE NewBook
      /\ stamped' = Stamp(after, moved)
      /\ seen' = IF valid THEN Head(inbox).u ELSE NoId
      /\ loadedFrom' = IF valid THEN loadedFrom ELSE NoId
      /\ UNCHANGED <<exch, emitted, connected, listed, siblings, task, asked>>
  BY DEF Apply, exchVars, loopVars
<1>2. /\ Sound(exch, loadedFrom, after)
      /\ valid => book.state = "valid" /\ book.last <= after.last /\ Head(inbox).u <= after.last
  BY <1>0, AppliedKeeps
<1>3. Head(inbox).u \in DOMAIN exch
  BY <1>0, ReceivedTrue
<1>4. /\ inbox' \in Seq(Message) /\ read' \in 0..MessageLimit /\ faults' \in 0..MaxFaults
      /\ faults <= faults' /\ task = "reading"
      /\ \A m \in InFlight' : m \in InFlight
  BY <1>0, ReadKeeps
<1> HIDE DEF after
<1>5. /\ exch \in Seq(Content) /\ \A f : Sound(exch, f, NewBook)
      /\ NewBook.state = "warming" /\ NewBook.buffer = <<>>
  BY NewBookSound DEF IInv, TypeOK, NewBook
<1>6. Sound(exch, loadedFrom', book') /\ book' \in Book
  BY <1>1, <1>2, <1>5 DEF Sound
<1>7. stamped' \in BOOLEAN /\ StampedIffUsable'
  <2>1. CASE valid
    <3>1. Market = "spot" => (stamped <=> book.state = "valid")
      BY DEF IInv, StampedIffUsable, Usable
    <3>2. Market = "spot" => stamped
      BY <1>2, <2>1, <3>1
    <3>3. stamped' = (Market = "spot" /\ (stamped \/ moved)) /\ book'.state = "valid"
      BY <1>1, <2>1 DEF Stamp
    <3> QED BY <3>2, <3>3 DEF StampedIffUsable, Usable
  <2>2. CASE ~valid
    <3>1. stamped' = FALSE /\ book'.state = "warming"
      BY <1>1, <1>5, <2>2 DEF Stamp
    <3> QED BY <3>1 DEF StampedIffUsable, Usable
  <2> QED BY <2>1, <2>2
<1>8. SnapshotForWarmingBook'
  BY <1>1, <1>4 DEF SnapshotForWarmingBook
<1>9. SeenHeld'
  BY <1>1, <1>2, <1>5 DEF SeenHeld, Usable
<1>10. BufferPaidFor'
  <2>1. Len(book'.buffer) = 0
    <3>1. CASE valid
      BY <1>1, <1>2, <3>1 DEF Sound
    <3>2. CASE ~valid
      BY <1>1, <1>5, <3>2
    <3> QED BY <3>1, <3>2
  <2>2. faults' \in Nat
    BY <1>4, SyncAssumption
  <2>3. Len(book'.buffer) \in Nat /\ Len(book'.buffer) <= 0
    BY <1>6, <2>1 DEF Book
  <2> QED BY <2>2, <2>3 DEF BufferPaidFor
<1>11. TypeOK'
  <2>1. seen' \in {NoId} \cup DOMAIN exch /\ loadedFrom' \in {NoId} \cup DOMAIN exch
    BY <1>1, <1>3 DEF IInv, TypeOK
  <2> QED BY <1>1, <1>4, <1>6, <1>7, <2>1 DEF IInv, TypeOK
<1> QED BY <1>1, <1>4, <1>6, <1>7, <1>8, <1>9, <1>10, <1>11, WithSameExchange

\* What an applied snapshot leaves.
LEMMA ReplyShape ==
  ASSUME IInv, NEW k \in DOMAIN exch
  PROVE  LET after == ApplySnapshot(book, k, Snapshot(exch[k]))
         IN  /\ Sound(exch, k, after)
             /\ after.state # "warming" /\ Len(after.buffer) <= Len(book.buffer)
             /\ after.state = "valid" =>
                   /\ k <= after.last
                   /\ \A i \in DOMAIN book.buffer : book.buffer[i].u <= after.last
<1> DEFINE after == ApplySnapshot(book, k, Snapshot(exch[k]))
<1>1. exch \in Seq(Content) /\ Sound(exch, loadedFrom, book) /\ Len(book.buffer) \in Nat
  BY DEF IInv, TypeOK, Book
<1>2. /\ Sound(exch, k, after)
      /\ after.state # "warming" /\ after.buffer \in {<<>>, book.buffer}
      /\ after.state = "valid" =>
            /\ k <= after.last
            /\ \A i \in DOMAIN book.buffer : book.buffer[i].u <= after.last
  BY <1>1, ApplySnapshotSound
<1> HIDE DEF after
<1>3. Len(after.buffer) <= Len(book.buffer)
  BY <1>1, <1>2
<1> QED BY <1>2, <1>3 DEF after

LEMMA SnapshotReplyKeeps ==
  ASSUME IInv, SnapshotReply
  PROVE  IInv'
<1>1. PICK k \in DOMAIN exch :
        /\ book' = ApplySnapshot(book, k, Snapshot(exch[k]))
        /\ loadedFrom' = IF book'.state = "valid" THEN k ELSE NoId
  BY DEF SnapshotReply
<1>2. /\ task = "snapshot" /\ task' = "reading"
      /\ stamped' = Stamp(book', TRUE)
      /\ UNCHANGED <<exch, emitted, connected, inbox, listed, siblings, read, asked, faults, seen>>
  BY DEF SnapshotReply, exchVars, connVars, loopVars
<1>3. /\ Sound(exch, k, book')
      /\ book'.state # "warming" /\ Len(book'.buffer) <= Len(book.buffer)
      /\ book'.state = "valid" =>
            \A i \in DOMAIN book.buffer : book.buffer[i].u <= book'.last
  BY <1>1, ReplyShape
<1>4. book.state = "warming" /\ book.buffer # <<>>
  BY <1>2 DEF IInv, SnapshotForWarmingBook
<1>5. /\ Len(book.buffer) \in Nat /\ Len(book'.buffer) \in Nat /\ faults \in Nat
      /\ book' \in Book
  BY <1>3, SyncAssumption DEF IInv, TypeOK, Sound, Book
<1>6. StampedIffUsable' /\ stamped' \in BOOLEAN
  BY <1>2 DEF StampedIffUsable, Usable, Stamp
<1>7. SnapshotForWarmingBook'
  BY <1>2 DEF SnapshotForWarmingBook
<1>8. BufferPaidFor'
  BY <1>2, <1>3, <1>5 DEF BufferPaidFor, IInv
<1>9. SeenHeld'
  <2> SUFFICES ASSUME book'.state = "valid" PROVE seen <= book'.last
    BY <1>2, <1>3 DEF SeenHeld, Usable
  <2>1. /\ seen \in Nat /\ book'.last \in Nat
        /\ \A i \in DOMAIN book.buffer : book.buffer[i].u \in Nat
    <3>1. exch \in Seq(Content) /\ seen \in {NoId} \cup DOMAIN exch /\ book.buffer \in Seq(Diff)
      BY DEF IInv, TypeOK, Book
    <3>2. seen \in Nat
      BY <3>1 DEF NoId
    <3>3. \A i \in DOMAIN book.buffer : book.buffer[i].u \in Nat
      BY <3>1, DiffFields
    <3> QED BY <1>5, <3>2, <3>3 DEF Book
  <2>2. CASE seen = NoId
    BY <2>1, <2>2 DEF NoId
  <2>3. ASSUME NEW i \in DOMAIN book.buffer, seen <= book.buffer[i].u PROVE seen <= book'.last
    BY <1>3, <2>1, <2>3
  <2> QED BY <1>4, <2>2, <2>3 DEF IInv, SeenHeld
<1>10. TypeOK'
  <2>1. loadedFrom' \in {NoId} \cup DOMAIN exch
    BY <1>1
  <2> QED BY <1>2, <1>5, <1>6, <2>1 DEF IInv, TypeOK
<1>11. InFlight' = InFlight
  BY <1>2 DEF InFlight
<1>12. Sound(exch, loadedFrom', book')
  <2>1. CASE book'.state = "valid"
    BY <1>1, <1>3, <2>1
  <2>2. CASE book'.state # "valid"
    BY <1>3, <2>2, SoundFromAny
  <2> QED BY <2>1, <2>2
<1> QED BY <1>2, <1>6, <1>7, <1>8, <1>9, <1>10, <1>11, <1>12, WithSameExchange

LEMMA NextIInv == IInv /\ [Next]_vars => IInv'
<1> SUFFICES ASSUME IInv, [Next]_vars PROVE IInv'
  OBVIOUS
<1>1. CASE UNCHANGED vars
  BY <1>1 DEF vars, IInv, TypeOK, NeverCrossed, InboxTrue, StampedIffUsable,
              SnapshotForWarmingBook, BufferPaidFor, SeenHeld, Usable
<1>2. CASE Next
  BY <1>2, ExchangeKeeps, EmitKeeps, DropKeeps, ConnectKeeps, EndKeeps, LoopKeeps, StartKeeps, SkipKeeps,
     BufferAndAskKeeps, ApplyKeeps, SnapshotReplyKeeps DEF Next, Receive
<1> QED BY <1>1, <1>2

-----------------------------------------------------------------------------
(* What holds in every state                                               *)

\* The depth task keeps the inductive invariant: everything in flight is true
\* of the exchange, and so is the book, with its buffer.
THEOREM InductiveInvariant == Spec => []IInv
BY InitIInv, NextIInv, PTL DEF Spec

\* Types.
THEOREM TypeCorrect == Spec => []TypeOK
<1>1. IInv => TypeOK
  BY DEF IInv
<1> QED BY <1>1, InductiveInvariant, PTL

\* Through lost, late and damaged events, failed snapshots and restarts of the
\* task, a book that says it is valid has each level as the exchange had it at
\* the book's last update id, but those beyond its snapshot that have not
\* changed since, which it lacks.
THEOREM PublishedIsTrue == Spec => []PublishedBookIsTrue
<1>1. IInv => PublishedBookIsTrue
  BY DEF IInv, Sound, PublishedBookIsTrue, Usable
<1> QED BY <1>1, InductiveInvariant, PTL

\* On Spot the age of a book is on record exactly while the book is valid.
THEOREM StampIsHonest == Spec => []StampedIffUsable
<1>1. IInv => StampedIffUsable
  BY DEF IInv
<1> QED BY <1>1, InductiveInvariant, PTL

\* The buffer without a limit has one: failed snapshots and one more.
THEOREM BufferIsHeld == Spec => []BufferHeldBySnapshots
<1>1. IInv => BufferHeldBySnapshots
  <2> SUFFICES ASSUME IInv PROVE Len(book.buffer) <= faults + 1
    BY DEF BufferHeldBySnapshots
  <2>1. Len(book.buffer) \in Nat /\ faults \in Nat
    BY SyncAssumption DEF IInv, TypeOK, Book
  <2>2. Len(book.buffer) <= faults + 1 \/ Len(book.buffer) <= faults + 0
    BY DEF IInv, BufferPaidFor
  <2> QED BY <2>1, <2>2
<1> QED BY <1>1, InductiveInvariant, PTL

-----------------------------------------------------------------------------
(* What no step does                                                       *)

\* The steps that change a valid book: the task applies a diff to it.
LEMMA ValidBookSteps ==
  ASSUME IInv, [Next]_vars, Usable
  PROVE  book' = book \/ \E stale \in BOOLEAN : Apply(stale)
<1>1. book.state = "valid" /\ task # "snapshot"
  BY DEF IInv, Usable, SnapshotForWarmingBook
<1>2. CASE Start
  BY <1>1, <1>2 DEF Start, Renewed
<1>3. ASSUME NEW stale \in BOOLEAN, BufferAndAsk(stale) PROVE FALSE
  BY <1>1, <1>3 DEF BufferAndAsk
<1>4. CASE SnapshotReply
  BY <1>1, <1>4 DEF SnapshotReply
<1>5. CASE ExchangeUpdate \/ Emit \/ Drop \/ Connect \/ Finish
  BY <1>5 DEF ExchangeUpdate, Emit, Drop, Connect, Finish, bookVars
<1>6. CASE \/ SkipMessage \/ FailOnMessage \/ SnapshotFails
           \/ Cancelled \/ Relist \/ SiblingsFinish
  BY <1>6 DEF SkipMessage, FailOnMessage, SnapshotFails, Cancelled, Relist, SiblingsFinish, bookVars
<1>7. CASE UNCHANGED vars
  BY <1>7 DEF vars
<1> QED BY <1>2, <1>3, <1>4, <1>5, <1>6, <1>7 DEF Next, Receive

\* A book that stays valid does not go back, nor is it loaded again.
LEMMA ValidStaysForward ==
  ASSUME IInv, [Next]_vars, Usable, Usable'
  PROVE  book.last <= book'.last /\ loadedFrom' = loadedFrom
<1>1. CASE \E stale \in BOOLEAN : Apply(stale)
  <2>0. PICK stale \in BOOLEAN : Apply(stale)
    BY <1>1
  <2> DEFINE after == ApplyDiff(book, Received(stale))
  <2>1. ReadDiff(stale) /\ book.state # "warming"
    BY <2>0 DEF Apply
  <2>2. after.state = "valid" => book.last <= after.last
    BY <2>1, AppliedKeeps
  <2>3. /\ book' = IF after.state = "valid" THEN after ELSE NewBook
        /\ loadedFrom' = IF after.state = "valid" THEN loadedFrom ELSE NoId
    BY <2>0 DEF Apply
  <2> HIDE DEF after
  <2> QED BY <2>2, <2>3 DEF Usable, NewBook
<1>2. CASE ~\E stale \in BOOLEAN : Apply(stale)
  <2>1. book' = book /\ book.last <= book.last
    BY <1>2, ValidBookSteps DEF IInv, TypeOK, Book
  <2>2. book.state = "valid" /\ task # "snapshot"
    BY DEF IInv, Usable, SnapshotForWarmingBook
  <2>3. CASE Start
    BY <2>1, <2>3 DEF Start
  <2>4. ASSUME NEW stale \in BOOLEAN, BufferAndAsk(stale) PROVE FALSE
    BY <2>2, <2>4 DEF BufferAndAsk
  <2>5. CASE SnapshotReply
    BY <2>2, <2>5 DEF SnapshotReply
  <2>6. CASE ExchangeUpdate \/ Emit \/ Drop \/ Connect \/ Finish \/ Relist
    BY <2>1, <2>6 DEF ExchangeUpdate, Emit, Drop, Connect, Finish, Relist, bookVars
  <2>7. CASE SkipMessage \/ FailOnMessage \/ SnapshotFails \/ Cancelled \/ SiblingsFinish
    BY <2>1, <2>7 DEF SkipMessage, FailOnMessage, SnapshotFails, Cancelled, SiblingsFinish, bookVars
  <2>8. CASE UNCHANGED vars
    BY <2>1, <2>8 DEF vars
  <2> QED BY <1>2, <2>3, <2>4, <2>5, <2>6, <2>7, <2>8 DEF Next, Receive
<1> QED BY <1>1, <1>2

\* A valid book that stays valid does not go back.
THEOREM NoRewind == Spec => NeverRewinds
<1> DEFINE Forward == Usable /\ Usable' => book.last <= book'.last
<1>1. IInv /\ [Next]_vars => [Forward]_vars
  BY ValidStaysForward
<1> HIDE DEF Forward
<1>2. Spec => [][Forward]_vars
  BY <1>1, InductiveInvariant, PTL DEF Spec
<1> QED BY <1>2 DEF NeverRewinds, Forward

\* On Spot a diff that is not too old and leaves no gap keeps a valid book.
LEMMA NextInOrderKeeps ==
  ASSUME IInv, Usable, Market = "spot", ReadDiff(FALSE), Head(inbox).U <= seen + 1
  PROVE  ApplyDiff(book, Received(FALSE)).state = "valid"
<1> DEFINE d == Received(FALSE)
           content == ApplyLevels(book.content, d.levels)
<1>1. d \in Diff /\ IsTrue(exch, d) /\ d.U = Head(inbox).U /\ d.stale = FALSE
  BY ReceivedTrue
<1>2. /\ exch \in Seq(Content) /\ book \in Book /\ book.state = "valid"
      /\ book.last \in DOMAIN exch /\ book.content \in Content
      /\ Copies(book.content, exch, loadedFrom, book.last)
      /\ seen <= book.last /\ seen \in {NoId} \cup DOMAIN exch
  BY DEF IInv, TypeOK, Sound, SeenHeld, Usable, Copies, Book
<1> HIDE DEF d
<1>3. /\ book.last \in Nat /\ book.last # NoId /\ seen \in Nat
      /\ d.U \in Nat \ {0} /\ d.u \in Nat \ {0}
  <2>1. book.last \in Nat /\ book.last # NoId /\ seen \in Nat
    BY <1>2 DEF NoId
  <2> QED BY <1>1, <2>1, DiffFields
<1>4. d.U <= book.last + 1
  BY <1>1, <1>2, <1>3
<1>5. CASE d.u <= book.last
  BY <1>1, <1>2, <1>3, <1>5 DEF ApplyDiff, d
<1>6. CASE ~(d.u <= book.last)
  <2>1. Follows(book, d)
    BY <1>3, <1>4, <1>6 DEF Follows
  <2>2. book.last \in Base(d.U, d.pu)..d.u
    BY <1>1, <1>3, <1>4, <1>6 DEF IsTrue, Base, NoId
  <2>3. Copies(content, exch, loadedFrom, d.u) /\ d.u \in DOMAIN exch
    BY <1>1, <1>2, <2>2, ApplyLevelsTrue DEF IsTrue
  <2>4. ~Crossed(content)
    BY <2>3, UncrossedCopy DEF IInv, NeverCrossed
  <2> QED BY <1>1, <1>2, <1>3, <1>6, <2>1, <2>4 DEF ApplyDiff, d
<1> QED BY <1>5, <1>6

\* On Spot a valid book is given up only for an event that is too old or does
\* not continue what the book was given.
THEOREM ResyncHasReason == Spec => NoSpuriousResync
<1> DEFINE Reason == Market = "spot" /\ Usable /\ ~Usable' =>
                       ReadDiff(TRUE) \/ (ReadDiff(FALSE) /\ Head(inbox).U > seen + 1)
<1>1. IInv /\ [Next]_vars => [Reason]_vars
  <2> SUFFICES ASSUME IInv, [Next]_vars, Market = "spot", Usable, ~Usable', ~ReadDiff(TRUE)
               PROVE  ReadDiff(FALSE) /\ Head(inbox).U > seen + 1
    OBVIOUS
  <2>1. book' # book
    BY DEF Usable
  <2>2. PICK stale \in BOOLEAN : Apply(stale)
    BY <2>1, ValidBookSteps
  <2>3. stale = FALSE /\ ReadDiff(FALSE) /\ Apply(FALSE)
    BY <2>2 DEF Apply
  <2>4. ApplyDiff(book, Received(FALSE)).state # "valid"
    BY <2>3 DEF Apply, Usable
  <2>5. ~(Head(inbox).U <= seen + 1)
    BY <2>3, <2>4, NextInOrderKeeps
  <2>6. Head(inbox).U \in Nat /\ seen \in Nat
    <3>1. Head(inbox).U \in Nat
      BY <2>3, ReceivedTrue
    <3>2. exch \in Seq(Content) /\ seen \in {NoId} \cup DOMAIN exch
      BY DEF IInv, TypeOK
    <3> QED BY <3>1, <3>2 DEF NoId
  <2>7. Head(inbox).U > seen + 1
    BY <2>5, <2>6
  <2> QED BY <2>3, <2>7
<1> HIDE DEF Reason
<1>2. Spec => [][Reason]_vars
  BY <1>1, InductiveInvariant, PTL DEF Spec
<1> QED BY <1>2 DEF NoSpuriousResync, Reason

-----------------------------------------------------------------------------
(* The task implements the promise of ExchangeView                         *)

\* What a sound valid book shows is a copy that is not crossed.
LEMMA Shown ==
  ASSUME NEW e \in Seq(Content), NEW f, NEW b, Sound(e, f, b), b.state = "valid"
  PROVE  /\ f \in DOMAIN e /\ b.last \in DOMAIN e /\ b.content \in Content
         /\ Copies(b.content, e, f, b.last) /\ ~Crossed(b.content)
BY DEF Sound, Copies, Book

\* A reader of spot_books or futures[symbol].book sees nothing until the book
\* is loaded; then an uncrossed copy of the exchange's book that follows the
\* exchange forward, from the same snapshot, until it sees nothing again.
THEOREM SyncImplementsView == Spec => ImplementsView
<1>1. Init => View!Init
  BY DEF Init, View!Init, View!Nothing, NewBook, Usable
<1>2. IInv /\ IInv' /\ [Next]_vars => [View!Next]_View!vars
  <2> SUFFICES ASSUME IInv, IInv', [Next]_vars PROVE View!Next \/ UNCHANGED View!vars
    OBVIOUS
  <2>0. /\ exch \in Seq(Content) /\ emitted \in DOMAIN exch /\ Len(exch) > 0
        /\ exch' \in Seq(Content) /\ Sound(exch', loadedFrom', book')
    BY DEF IInv, TypeOK
  <2>1. CASE ExchangeUpdate
    <3>1. PICK c \in Update(exch[Len(exch)]) : exch' = Append(exch, c)
      BY <2>1 DEF ExchangeUpdate
    <3>2. c \in Content
      <4>1. exch[Len(exch)] \in Content
        BY <2>0
      <4> QED BY <4>1, UpdateType
    <3>3. book' = book /\ loadedFrom' = loadedFrom
      BY <2>1 DEF ExchangeUpdate, bookVars
    <3>4. View!Grow
      BY <3>1, <3>2, <3>3 DEF View!Grow, Usable
    <3> QED BY <3>4 DEF View!Next
  <2>2. CASE exch' = exch
    <3>1. CASE book'.state # "valid"
      <4>1. View!Hide
        BY <2>2, <3>1 DEF View!Hide, View!Nothing, Usable
      <4> QED BY <4>1 DEF View!Next
    <3>2. CASE book'.state = "valid"
      <4> DEFINE n == book'.last
                 c == book'.content
                 f == loadedFrom'
      <4>1. /\ f \in DOMAIN exch /\ n \in DOMAIN exch /\ c \in Content
            /\ Copies(c, exch, f, n) /\ ~Crossed(c)
        BY <2>0, <2>2, <3>2, Shown
      <4>2. View!ShowCopy(f, n)
        BY <2>2, <3>2, <4>1 DEF View!ShowCopy, View!Showing, Usable
      <4>3. CASE book.state # "valid"
        <5>1. View!Load
          BY <4>1, <4>2, <4>3 DEF View!Load, View!Nothing, Usable
        <5> QED BY <5>1 DEF View!Next
      <4>4. CASE book.state = "valid"
        <5>1. book.last <= n /\ f = loadedFrom
          BY <3>2, <4>4, ValidStaysForward DEF Usable
        <5>2. View!Follow
          BY <4>1, <4>2, <4>4, <5>1 DEF View!Follow, View!Nothing, Usable
        <5> QED BY <5>2 DEF View!Next
      <4> QED BY <4>3, <4>4
    <3> QED BY <3>1, <3>2
  <2>3. ExchangeUpdate \/ exch' = exch
    BY DEF Next, vars, exchVars, Emit, Drop, Connect, Finish, EndTask, Relist, Start, Receive,
           SkipMessage, FailOnMessage, BufferAndAsk, Apply, SnapshotReply, SnapshotFails,
           Cancelled, SiblingsFinish
  <2> QED BY <2>1, <2>2, <2>3
<1>3. Spec => View!Init /\ [][View!Next]_View!vars
  BY <1>1, <1>2, InductiveInvariant, PTL DEF Spec
<1> QED BY <1>3 DEF ImplementsView, View!Spec
=============================================================================
