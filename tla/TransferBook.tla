----------------------------- MODULE TransferBook -----------------------------
(***************************************************************************)
(* What the transfer order service promises, without sessions, statements  *)
(* or transactions: a book with one entry per order, which every request   *)
(* that takes effect changes in one step.                                  *)
(*                                                                         *)
(* charged is what the from-store has given for the order, returned what   *)
(* it got back. The promise about Cancel is the one that holds when a      *)
(* receive races it: at least the part not received goes back, at most all *)
(* of it.                                                                  *)
(***************************************************************************)
EXTENDS TransferStatus

CONSTANTS Orders, Quantities, Nil

VARIABLE book    \* book[o]: the entry of order o, or Nil

Opened(q) ==
    [qty |-> q, received |-> 0, status |-> "pending", charged |-> 0, returned |-> 0]

Init == book = [o \in Orders |-> Nil]

Create(o, q) ==
    /\ book[o] = Nil
    /\ book' = [book EXCEPT ![o] = Opened(q)]

\* The entry's next version; its quantity stays.
Enter(o, status, received, charged, returned) ==
    book' = [book EXCEPT ![o] =
                [qty |-> book[o].qty, received |-> received, status |-> status,
                 charged |-> charged, returned |-> returned]]

Confirm(o) ==
    /\ CanTransfer(book[o].status, "confirmed")
    /\ Enter(o, "confirmed", 0, 0, 0)

Ship(o) ==
    /\ CanTransfer(book[o].status, "shipped")
    /\ Enter(o, "shipped", 0, book[o].qty, 0)

Receive(o, received) ==
    /\ book[o].status = "shipped"
    /\ Enter(o, IF received = book[o].qty THEN "received" ELSE "shipped",
             received, book[o].charged, 0)

CancelUnshipped(o) ==
    /\ book[o].status \in {"pending", "confirmed"}
    /\ Enter(o, "cancelled", 0, 0, 0)

CancelShipped(o, returned) ==
    /\ book[o].status = "shipped"
    /\ Enter(o, "cancelled", book[o].received, book[o].charged, returned)

Next ==
    \E o \in Orders :
        \/ \E q \in Quantities : Create(o, q)
        \/ /\ book[o] # Nil
           /\ \/ Confirm(o)
              \/ Ship(o)
              \/ \E r \in book[o].received..book[o].qty : Receive(o, r)
              \/ CancelUnshipped(o)
              \/ \E r \in (book[o].qty - book[o].received)..book[o].qty : CancelShipped(o, r)

Spec == Init /\ [][Next]_book
=============================================================================
