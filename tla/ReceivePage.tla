----------------------------- MODULE ReceivePage -----------------------------
(***************************************************************************)
(* The receive dialog of one user's transfers page (Transfers.vue) against *)
(* the transfer order service, which other users drive as well. The server *)
(* is TransferBook, which Transfers implements: a receive request takes    *)
(* effect in one step or not at all.                                       *)
(*                                                                         *)
(* The client gives up a request after a timeout (request.ts); the request *)
(* goes on to the server all the same, or is lost. Answers arrive in any   *)
(* order. What the user does to an open dialog is free.                    *)
(***************************************************************************)
EXTENDS TransferStatus, FiniteSets, FiniteSetsExt

CONSTANTS
    Orders, Quantities, Nil,
    Started,      \* the book when the page opens, every order shipped
    CallIds,      \* ids for the page's GET requests in flight: a bound on them
    ClickBound    \* how often the user submits the receive form

ASSUME CallIdsAssumption == IsFiniteSet(CallIds) /\ CallIds \subseteq Nat
ASSUME ClickBoundAssumption == ClickBound \in Nat
ASSUME QuantitiesAssumption == Quantities \subseteq Nat

\* The orders as the service shows them (Entry of TransferRefinement).
BookEntries ==
    {e \in [qty : Nat, received : Nat, status : TransferStatuses,
            charged : Nat, returned : Nat] : e.received <= e.qty}

ASSUME StartedAssumption == Started \in [Orders -> BookEntries]

VARIABLES
    book,      \* the server's orders
    rows,      \* list.value: the orders as last loaded
    dialog,    \* the receive dialog: the order it shows and its form
    receipts,  \* receipts.value: whose receipts are listed, and their sum, or Nil
    phase,     \* receiving.value, split: "idle", "posting", then "reloading"
    awaited,   \* the GET requests that onReceive waits for while "reloading"
    post,      \* the receive request onReceive waits for, or Nil
    adrift,    \* receive requests the client gave up, on their way to the server
    calls,     \* calls[i]: a GET request in flight, or Nil
    clicks,    \* how often the form was submitted: submissions are 1..clicks
    goods,     \* goods[n]: the first submission of the goods submission n is for
    fresh,     \* the next submission is for other goods, not a repetition
    taken,     \* taken[n]: how often the server received submission n
    acked      \* the submissions that the page reports as received

pageVars == <<book, rows, dialog, receipts, phase, awaited, post, adrift, calls,
              clicks, goods, fresh, taken, acked>>
historyVars == <<clicks, goods, fresh, taken, acked>>

Book == INSTANCE TransferBook

\* transferRemaining
Remaining(e) == Max({0, e.qty - e.received})

FormQuantity(e) == Max({1, Remaining(e)})

PageInit ==
    /\ book = Started
    /\ rows = Started
    /\ dialog = [visible |-> FALSE, readonly |-> FALSE, order |-> Nil,
                 entry |-> Nil, quantity |-> 1]
    /\ receipts = Nil
    /\ phase = "idle"
    /\ awaited = {}
    /\ post = Nil
    /\ adrift = {}
    /\ calls = [i \in CallIds |-> Nil]
    /\ clicks = 0
    /\ goods = [n \in 1..ClickBound |-> 0]
    /\ fresh = TRUE
    /\ taken = [n \in 1..ClickBound |-> 0]
    /\ acked = {}

-----------------------------------------------------------------------------
\* The page's GET requests: the list of orders, the receipts of an order.
FreeIds == {i \in CallIds : calls[i] = Nil}

Call(kind, o) == [kind |-> kind, order |-> o, answer |-> Nil]

Load ==
    /\ FreeIds # {}
    /\ calls' = [calls EXCEPT ![Min(FreeIds)] = Call("rows", Nil)]
    /\ UNCHANGED <<book, rows, dialog, receipts, phase, awaited, post, adrift, historyVars>>

ServeCall(i) ==
    /\ calls[i] # Nil
    /\ calls[i].answer = Nil
    /\ calls' = [calls EXCEPT ![i].answer =
                    IF calls[i].kind = "rows" THEN book ELSE book[calls[i].order].received]
    /\ UNCHANGED <<book, rows, dialog, receipts, phase, awaited, post, adrift, historyVars>>

\* Promise.all is over with its last answer or with its first error.
StopAwaiting(rest) ==
    /\ awaited' = rest
    /\ phase' = IF awaited # {} /\ rest = {} THEN "idle" ELSE phase

ArriveCall(i) ==
    /\ calls[i] # Nil
    /\ calls[i].answer # Nil
    /\ IF calls[i].kind = "rows"
       THEN rows' = calls[i].answer /\ receipts' = receipts
       ELSE /\ receipts' = [order |-> calls[i].order, sum |-> calls[i].answer]
            /\ rows' = rows
    /\ calls' = [calls EXCEPT ![i] = Nil]
    /\ StopAwaiting(awaited \ {i})
    /\ UNCHANGED <<book, dialog, post, adrift, historyVars>>

\* An error or the timeout.
FailCall(i) ==
    /\ calls[i] # Nil
    /\ calls' = [calls EXCEPT ![i] = Nil]
    /\ StopAwaiting(IF i \in awaited THEN {} ELSE awaited)
    /\ UNCHANGED <<book, rows, dialog, receipts, post, adrift, historyVars>>

-----------------------------------------------------------------------------
\* The dialog. A row offers the form while it is shipped, its receipts once it
\* has any. Nothing keeps the user from closing while a request is in flight.
OpenReceive(o, readonly) ==
    /\ ~dialog.visible
    /\ IF readonly THEN rows[o].received > 0 ELSE CanTransfer(rows[o].status, "received")
    /\ FreeIds # {}
    /\ dialog' = [visible |-> TRUE, readonly |-> readonly, order |-> o,
                  entry |-> rows[o], quantity |-> FormQuantity(rows[o])]
    /\ receipts' = Nil
    /\ calls' = [calls EXCEPT ![Min(FreeIds)] = Call("receipts", o)]
    /\ fresh' = TRUE
    /\ UNCHANGED <<book, rows, phase, awaited, post, adrift, clicks, goods, taken, acked>>

Close ==
    /\ dialog.visible
    /\ dialog' = [dialog EXCEPT !.visible = FALSE]
    /\ UNCHANGED <<book, rows, receipts, phase, awaited, post, adrift, calls, historyVars>>

EditQuantity(q) ==
    /\ dialog.visible
    /\ ~dialog.readonly
    /\ q # dialog.quantity
    /\ q <= Remaining(dialog.entry)
    /\ dialog' = [dialog EXCEPT !.quantity = q]
    /\ fresh' = TRUE
    /\ UNCHANGED <<book, rows, receipts, phase, awaited, post, adrift, calls,
                   clicks, goods, taken, acked>>

\* onReceive, up to its await.
OnReceive ==
    /\ dialog.visible
    /\ ~dialog.readonly
    /\ phase = "idle"
    /\ clicks < ClickBound
    /\ dialog.quantity <= Remaining(dialog.entry)
    /\ phase' = "posting"
    /\ clicks' = clicks + 1
    /\ goods' = [goods EXCEPT ![clicks + 1] = IF fresh THEN clicks + 1 ELSE goods[clicks]]
    /\ fresh' = FALSE
    /\ post' = [order |-> dialog.order, quantity |-> dialog.quantity, number |-> clicks + 1,
                stage |-> "sent", answer |-> Nil]
    /\ UNCHANGED <<book, rows, dialog, receipts, awaited, adrift, calls, taken, acked>>

-----------------------------------------------------------------------------
\* The server handles receive request r, or refuses it.
Acceptable(r) ==
    /\ book[r.order].status = "shipped"
    /\ r.quantity <= book[r.order].qty - book[r.order].received

Accept(r) ==
    /\ Book!Receive(r.order, book[r.order].received + r.quantity)
    /\ taken' = [taken EXCEPT ![r.number] = @ + 1]

ServePost ==
    /\ post # Nil
    /\ post.stage = "sent"
    /\ \/ /\ Acceptable(post)
          /\ Accept(post)
          /\ post' = [post EXCEPT !.stage = "received"]
       \/ /\ ~Acceptable(post)
          /\ post' = [post EXCEPT !.stage = "refused"]
          /\ UNCHANGED <<book, taken>>
    /\ UNCHANGED <<rows, dialog, receipts, phase, awaited, adrift, calls,
                   clicks, goods, fresh, acked>>

\* The read for the response, which other requests may precede and which fails
\* on its own: the answer is then an error although the receipt is in.
ReplyPost ==
    /\ post # Nil
    /\ post.stage = "received"
    /\ \/ post' = [post EXCEPT !.stage = "replied", !.answer = book[post.order]]
       \/ post' = [post EXCEPT !.stage = "refused"]
    /\ UNCHANGED <<book, rows, dialog, receipts, phase, awaited, adrift, calls, historyVars>>

\* A request the client has given up arrives late, or never.
ServeAdrift(r) ==
    /\ adrift' = adrift \ {r}
    /\ \/ Acceptable(r) /\ Accept(r)
       \/ UNCHANGED <<book, taken>>
    /\ UNCHANGED <<rows, dialog, receipts, phase, awaited, post, calls,
                   clicks, goods, fresh, acked>>

-----------------------------------------------------------------------------
\* The page counts the submitted goods on top of the answer, which has them.
BugArrivePost ==
    /\ post # Nil
    /\ post.stage = "replied"
    /\ Cardinality(FreeIds) >= 2
    /\ dialog' = [dialog EXCEPT !.order = post.order,
                     !.entry = [post.answer EXCEPT !.received = @ + post.quantity],
                     !.quantity = FormQuantity(post.answer)]
    /\ post' = Nil
    /\ phase' = "idle"
    /\ fresh' = TRUE
    /\ acked' = acked \cup {post.number}
    /\ UNCHANGED <<book, rows, receipts, awaited, adrift, calls, clicks, goods, taken>>

\* onReceive after its await: the dialog takes over the order of the answer,
\* and the list and the order's receipts are loaded again.
ArrivePost ==
    /\ post # Nil
    /\ post.stage = "replied"
    /\ Cardinality(FreeIds) >= 2
    /\ dialog' = [dialog EXCEPT !.order = post.order, !.entry = post.answer,
                                !.quantity = FormQuantity(post.answer)]
    /\ post' = Nil
    /\ phase' = "reloading"
    /\ LET i == Min(FreeIds)
           j == Min(FreeIds \ {i})
       IN  /\ awaited' = {i, j}
           /\ calls' = [calls EXCEPT ![i] = Call("rows", Nil),
                                     ![j] = Call("receipts", post.order)]
    /\ fresh' = TRUE
    /\ acked' = acked \cup {post.number}
    /\ UNCHANGED <<book, rows, receipts, adrift, clicks, goods, taken>>

\* Any response counts as an answer: the code of its body is not looked at.
BugRefusePost ==
    /\ post # Nil
    /\ post.stage = "refused"
    /\ post' = Nil
    /\ phase' = "idle"
    /\ fresh' = TRUE
    /\ acked' = acked \cup {post.number}
    /\ UNCHANGED <<book, rows, dialog, receipts, awaited, adrift, calls,
                   clicks, goods, taken>>

\* The interceptor rejects the promise; finally ends the submission.
RefusePost ==
    /\ post # Nil
    /\ post.stage = "refused"
    /\ post' = Nil
    /\ phase' = "idle"
    /\ UNCHANGED <<book, rows, dialog, receipts, awaited, adrift, calls, historyVars>>

\* The timeout leaves the button loading.
BugGiveUp ==
    /\ post # Nil
    /\ adrift' = IF post.stage = "sent" THEN adrift \cup {post} ELSE adrift
    /\ post' = Nil
    /\ UNCHANGED <<book, rows, dialog, receipts, phase, awaited, calls, historyVars>>

\* The timeout: the answer, if there is one, will not be looked at.
GiveUp ==
    /\ post # Nil
    /\ adrift' = IF post.stage = "sent" THEN adrift \cup {post} ELSE adrift
    /\ post' = Nil
    /\ phase' = "idle"
    /\ UNCHANGED <<book, rows, dialog, receipts, awaited, calls, historyVars>>

-----------------------------------------------------------------------------
\* Other users receive and cancel on pages of their own.
OthersAct ==
    /\ \E o \in Orders :
          \/ \E r \in (book[o].received + 1)..book[o].qty : Book!Receive(o, r)
          \/ Book!CancelShipped(o, book[o].qty - book[o].received)
    /\ UNCHANGED <<rows, dialog, receipts, phase, awaited, post, adrift, calls, historyVars>>

PageNext ==
    \/ Load
    \/ \E i \in CallIds : ServeCall(i) \/ ArriveCall(i) \/ FailCall(i)
    \/ \E o \in Orders, readonly \in BOOLEAN : OpenReceive(o, readonly)
    \/ Close
    \/ \E q \in Quantities : EditQuantity(q)
    \/ OnReceive
    \/ ServePost \/ ReplyPost \/ ArrivePost \/ RefusePost \/ GiveUp
    \/ \E r \in adrift : ServeAdrift(r)
    \/ OthersAct

PageSpec == PageInit /\ [][PageNext]_pageVars

\* The timers of the browser run out; users and servers owe nothing.
PageFairSpec ==
    PageSpec /\ WF_pageVars(GiveUp) /\ \A i \in CallIds : WF_pageVars(FailCall(i))

-----------------------------------------------------------------------------
\* What the page tells its user is so: the server received every submission that
\* the page reports as received, none twice and none that was not submitted,
\* although submissions are given up, arrive late, and race with other users.
AcksAreReceipts ==
    \A n \in 1..ClickBound :
        /\ n \in acked => taken[n] = 1
        /\ taken[n] <= IF n <= clicks THEN 1 ELSE 0

\* The page never shows goods as received that are not, in its list, its dialog
\* or its receipts: answers are snapshots of a book that only grows, however late
\* they arrive and whatever they overwrite.
ShownIsReceived ==
    /\ \A o \in Orders : rows[o].received <= book[o].received
    /\ dialog.entry # Nil => dialog.entry.received <= book[dialog.order].received
    /\ receipts # Nil => receipts.sum <= book[receipts.order].received

\* The submit button comes back, though the server may never answer and the
\* reload that follows a receipt may fail.
ButtonComesBack == phase # "idle" ~> phase = "idle"

\* transfer_order_service_test.go: 同一请求重复到达只允许生效一次 (a request that
\* arrives repeatedly takes effect once). Goods whose submission was repeated
\* after a timeout or an error are received once.
RepetitionTakesEffectOnce ==
    \A m, n \in 1..ClickBound : taken[m] > 0 /\ taken[n] > 0 /\ goods[m] = goods[n] => m = n
=============================================================================
