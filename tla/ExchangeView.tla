---------------------------- MODULE ExchangeView ----------------------------
(***************************************************************************)
(* What the copy of an order book promises to the code that reads it       *)
(* (FR-BOOK-002 to FR-BOOK-004): it shows nothing until it is loaded from  *)
(* a snapshot of the exchange; then it follows the exchange forward, a     *)
(* copy of some update of it at every moment and never crossed; and it is  *)
(* loaded again only after it has admitted to have nothing.  How the copy  *)
(* is built, buffered, checked and thrown away is not part of the promise. *)
(***************************************************************************)
EXTENDS Integers, Sequences

CONSTANTS Content,             \* what an order book can contain
          Crossed(_),          \* its best bid is at or above its best ask
          Copies(_, _, _, _)   \* a content, given the exchange's books, copies update n of
                               \* them from a snapshot of an earlier one

VARIABLES exch,   \* exch[k] is the exchange's book after update k
          shown   \* what the reader of the copy is told

vars == <<exch, shown>>

Nothing == [valid |-> FALSE]

Showing(from, n, content) == [valid |-> TRUE, from |-> from, id |-> n, content |-> content]

Init == /\ exch \in {<<c>> : c \in Content}
        /\ shown = Nothing

\* The exchange changes its book.
Grow == /\ \E c \in Content : exch' = Append(exch, c)
        /\ UNCHANGED shown

ShowCopy(from, n) ==
    /\ \E c \in Content : /\ shown' = Showing(from, n, c)
                          /\ Copies(c, exch, from, n) /\ ~Crossed(c)
    /\ UNCHANGED exch

\* A copy that showed nothing is loaded from a snapshot ...
Load == shown = Nothing /\ \E from, n \in DOMAIN exch : ShowCopy(from, n)

\* ... moves on with the exchange ...
Follow == shown # Nothing /\ \E n \in DOMAIN exch : shown.id <= n /\ ShowCopy(shown.from, n)

\* ... or admits that it has nothing to show.
Hide == /\ shown' = Nothing
        /\ UNCHANGED exch

Next == Grow \/ Load \/ Follow \/ Hide

Spec == Init /\ [][Next]_vars
=============================================================================
