--------------------------- MODULE ReceivePageProof ---------------------------
(***************************************************************************)
(* The receive dialog, for any number of orders, requests in flight and    *)
(* submissions: what it reports as received, and what it shows as received *)
(* is so.                                                                  *)
(*                                                                         *)
(* A submission is received at most once because it is in one place: on    *)
(* its way with the page waiting, on its way given up, or handled. And     *)
(* whatever the page holds, an answer on its way included, is a reading of *)
(* a book in which the received quantity of an order only grows.           *)
(***************************************************************************)
EXTENDS ReceivePage, SumLemmas

Posts ==
    [order : Orders, quantity : Nat, number : 1..ClickBound,
     stage : {"sent", "received", "replied", "refused"}, answer : BookEntries \cup {Nil}]

Calls ==
    [kind : {"rows"}, order : {Nil}, answer : [Orders -> BookEntries] \cup {Nil}]
    \cup [kind : {"receipts"}, order : Orders, answer : Nat \cup {Nil}]

PageTypeOK ==
    /\ book \in [Orders -> BookEntries]
    /\ rows \in [Orders -> BookEntries]
    /\ dialog \in [visible : BOOLEAN, readonly : BOOLEAN, order : Orders \cup {Nil},
                   entry : BookEntries \cup {Nil}, quantity : Nat]
    /\ dialog.visible \/ dialog.entry # Nil => dialog.order \in Orders
    /\ receipts \in [order : Orders, sum : Nat] \cup {Nil}
    /\ phase \in {"idle", "posting", "reloading"}
    /\ awaited \subseteq CallIds
    /\ post \in Posts \cup {Nil}
    /\ post # Nil /\ post.stage = "replied" => post.answer \in BookEntries
    /\ adrift \subseteq Posts
    /\ calls \in [CallIds -> Calls \cup {Nil}]
    /\ clicks \in 0..ClickBound
    /\ goods \in [1..ClickBound -> 0..ClickBound]
    /\ fresh \in BOOLEAN /\ (clicks = 0 => fresh)
    /\ taken \in [1..ClickBound -> Nat]
    /\ acked \subseteq 1..ClickBound

-----------------------------------------------------------------------------
\* The page's arithmetic.
LEMMA MaxOfTwo ==
    ASSUME NEW a \in Int, NEW b \in Int
    PROVE  Max({a, b}) \in Int /\ Max({a, b}) >= a /\ Max({a, b}) >= b
<1>1. \E x \in {a, b} : \A y \in {a, b} : x >= y
  BY DEF Max
<1>2. Max({a, b}) \in {a, b} /\ \A y \in {a, b} : Max({a, b}) >= y
  BY <1>1 DEF Max
<1> QED BY <1>2

LEMMA FormQuantityType ==
    ASSUME NEW e \in BookEntries
    PROVE  FormQuantity(e) \in Nat
<1> DEFINE d == e.qty - e.received
<1>1. d \in Int
  BY DEF BookEntries
<1>2. Max({0, d}) \in Int
  <2> HIDE DEF d
  <2>1. 0 \in Int
    OBVIOUS
  <2> QED BY <1>1, <2>1, MaxOfTwo
<1>3. Max({1, Remaining(e)}) \in Int /\ Max({1, Remaining(e)}) >= 1
  BY <1>2, MaxOfTwo DEF Remaining
<1> QED BY <1>3 DEF FormQuantity

\* The book only grows.
BookGrows ==
    /\ book' \in [Orders -> BookEntries]
    /\ \A o \in Orders : book[o].received <= book'[o].received

LEMMA Entered ==
    ASSUME PageTypeOK, NEW o \in Orders, NEW status \in TransferStatuses, NEW n \in Nat,
           NEW charged \in Nat, NEW returned \in Nat,
           book[o].received <= n, n <= book[o].qty,
           Book!Enter(o, status, n, charged, returned)
    PROVE  BookGrows
<1>1. book \in [Orders -> BookEntries] /\ book[o] \in BookEntries
  BY DEF PageTypeOK
<1> DEFINE e == [qty |-> book[o].qty, received |-> n, status |-> status,
                 charged |-> charged, returned |-> returned]
<1>2. e \in BookEntries
  BY <1>1 DEF BookEntries
<1>3. book' = [book EXCEPT ![o] = e]
  BY DEF Book!Enter
<1>4. book' \in [Orders -> BookEntries]
  BY <1>1, <1>2, <1>3
<1>5. ASSUME NEW x \in Orders PROVE book[x].received <= book'[x].received
  <2>1. book[x].received \in Nat
    BY <1>1 DEF BookEntries
  <2> QED BY <1>1, <1>3, <2>1
<1> QED BY <1>4, <1>5 DEF BookGrows

LEMMA AcceptGrows ==
    ASSUME PageTypeOK, NEW r \in Posts, Acceptable(r), Accept(r)
    PROVE  /\ BookGrows
           /\ taken' \in [1..ClickBound -> Nat]
           /\ taken' = [taken EXCEPT ![r.number] = @ + 1]
<1>1. /\ r.order \in Orders /\ r.quantity \in Nat /\ r.number \in 1..ClickBound
      /\ book[r.order] \in BookEntries /\ taken \in [1..ClickBound -> Nat]
  BY DEF PageTypeOK, Posts
<1>2. /\ book[r.order].received + r.quantity <= book[r.order].qty
      /\ book[r.order].received + r.quantity \in Nat
      /\ book[r.order].received <= book[r.order].received + r.quantity
      /\ book[r.order].charged \in Nat
  BY <1>1 DEF Acceptable, BookEntries
<1> DEFINE n == book[r.order].received + r.quantity
           status == IF n = book[r.order].qty THEN "received" ELSE "shipped"
<1>3. Book!Enter(r.order, status, n, book[r.order].charged, 0)
  BY DEF Accept, Book!Receive
<1>4. status \in TransferStatuses
  BY DEF TransferStatuses
<1> HIDE DEF n, status
<1>5. BookGrows
  BY <1>1, <1>2, <1>3, <1>4, Entered DEF n
<1>6. taken' = [taken EXCEPT ![r.number] = @ + 1]
  BY DEF Accept
<1>7. taken' \in [1..ClickBound -> Nat]
  BY <1>1, <1>6
<1> QED BY <1>5, <1>6, <1>7

LEMMA OthersGrow ==
    ASSUME PageTypeOK, OthersAct
    PROVE  BookGrows
<1>1. PICK o \in Orders :
         \/ \E r \in (book[o].received + 1)..book[o].qty : Book!Receive(o, r)
         \/ Book!CancelShipped(o, book[o].qty - book[o].received)
  BY DEF OthersAct
<1>2. /\ book[o].qty \in Nat /\ book[o].received \in Nat /\ book[o].charged \in Nat
      /\ book[o].received <= book[o].qty
  BY DEF PageTypeOK, BookEntries
<1>3. {"received", "shipped", "cancelled"} \subseteq TransferStatuses
  BY DEF TransferStatuses
<1>4. ASSUME NEW r \in (book[o].received + 1)..book[o].qty, Book!Receive(o, r)
      PROVE  BookGrows
  <2> DEFINE status == IF r = book[o].qty THEN "received" ELSE "shipped"
  <2>1. Book!Enter(o, status, r, book[o].charged, 0)
    BY <1>4 DEF Book!Receive
  <2>2. status \in TransferStatuses /\ r \in Nat /\ book[o].received <= r /\ r <= book[o].qty
    BY <1>2, <1>3
  <2> HIDE DEF status
  <2> QED BY <1>2, <2>1, <2>2, Entered
<1>5. CASE Book!CancelShipped(o, book[o].qty - book[o].received)
  <2>1. Book!Enter(o, "cancelled", book[o].received, book[o].charged,
                   book[o].qty - book[o].received)
    BY <1>5 DEF Book!CancelShipped
  <2>2. book[o].qty - book[o].received \in Nat
    BY <1>2
  <2> QED BY <1>2, <1>3, <2>1, <2>2, Entered
<1> QED BY <1>1, <1>4, <1>5

LEMMA GrowsUnchanged ==
    ASSUME PageTypeOK, book' = book
    PROVE  BookGrows
<1>1. \A o \in Orders : book[o].received \in Nat
  BY DEF PageTypeOK, BookEntries
<1> QED BY <1>1 DEF BookGrows, PageTypeOK

-----------------------------------------------------------------------------
\* Types.
LEMMA NewCalls ==
    /\ Call("rows", Nil) \in Calls
    /\ \A o \in Orders : Call("receipts", o) \in Calls
BY DEF Call, Calls

LEMMA AnsweredCall ==
    ASSUME PageTypeOK, NEW i \in CallIds, ServeCall(i)
    PROVE  calls' \in [CallIds -> Calls \cup {Nil}]
<1> DEFINE answer == IF calls[i].kind = "rows" THEN book ELSE book[calls[i].order].received
<1>1. /\ calls \in [CallIds -> Calls \cup {Nil}] /\ calls[i] \in Calls
      /\ book \in [Orders -> BookEntries]
  BY DEF PageTypeOK, ServeCall
<1>2. CASE calls[i].kind = "rows"
  <2>1. calls[i] \in [kind : {"rows"}, order : {Nil}, answer : [Orders -> BookEntries] \cup {Nil}]
    BY <1>1, <1>2 DEF Calls
  <2>2. [calls[i] EXCEPT !.answer = book] \in Calls
    BY <1>1, <2>1 DEF Calls
  <2>3. calls' = [calls EXCEPT ![i] = [calls[i] EXCEPT !.answer = book]]
    BY <1>2 DEF ServeCall
  <2> QED BY <1>1, <2>2, <2>3
<1>3. CASE calls[i].kind # "rows"
  <2>1. calls[i] \in [kind : {"receipts"}, order : Orders, answer : Nat \cup {Nil}]
    BY <1>1, <1>3 DEF Calls
  <2> DEFINE n == book[calls[i].order].received
  <2>2. n \in Nat
    BY <1>1, <2>1 DEF BookEntries
  <2>3. [calls[i] EXCEPT !.answer = n] \in Calls
    BY <2>1, <2>2 DEF Calls
  <2>4. calls' = [calls EXCEPT ![i] = [calls[i] EXCEPT !.answer = n]]
    BY <1>3 DEF ServeCall
  <2> QED BY <1>1, <2>3, <2>4
<1> QED BY <1>2, <1>3

LEMMA CallTypes ==
    ASSUME PageTypeOK, NEW i \in CallIds, ServeCall(i) \/ ArriveCall(i) \/ FailCall(i)
    PROVE  PageTypeOK'
<1>1. CASE ServeCall(i)
  BY <1>1, AnsweredCall DEF ServeCall, historyVars, PageTypeOK
<1>2. CASE ArriveCall(i)
  <2>1. calls[i] \in Calls /\ calls[i].answer # Nil
    BY <1>2 DEF ArriveCall, PageTypeOK
  <2>2. /\ rows' \in [Orders -> BookEntries]
        /\ receipts' \in [order : Orders, sum : Nat] \cup {Nil}
    BY <1>2, <2>1 DEF ArriveCall, PageTypeOK, Calls
  <2>3. calls' \in [CallIds -> Calls \cup {Nil}]
    BY <1>2 DEF ArriveCall, PageTypeOK
  <2> QED BY <1>2, <2>2, <2>3 DEF ArriveCall, StopAwaiting, historyVars, PageTypeOK
<1>3. CASE FailCall(i)
  <2>1. calls' \in [CallIds -> Calls \cup {Nil}]
    BY <1>3 DEF FailCall, PageTypeOK
  <2> QED BY <1>3, <2>1 DEF FailCall, StopAwaiting, historyVars, PageTypeOK
<1> QED BY <1>1, <1>2, <1>3

LEMMA DialogTypes ==
    ASSUME PageTypeOK,
           \/ \E o \in Orders, readonly \in BOOLEAN : OpenReceive(o, readonly)
           \/ Close
           \/ \E q \in Quantities : EditQuantity(q)
           \/ OnReceive
    PROVE  PageTypeOK'
<1>0. dialog \in [visible : BOOLEAN, readonly : BOOLEAN, order : Orders \cup {Nil},
                  entry : BookEntries \cup {Nil}, quantity : Nat]
  BY DEF PageTypeOK
<1>1. ASSUME NEW o \in Orders, NEW readonly \in BOOLEAN, OpenReceive(o, readonly)
      PROVE  PageTypeOK'
  <2>1. rows[o] \in BookEntries
    BY DEF PageTypeOK
  <2>2. calls' \in [CallIds -> Calls \cup {Nil}]
    BY <1>1, NewCalls DEF OpenReceive, PageTypeOK
  <2>3. /\ dialog' \in [visible : BOOLEAN, readonly : BOOLEAN, order : Orders \cup {Nil},
                        entry : BookEntries \cup {Nil}, quantity : Nat]
        /\ dialog'.order \in Orders
    BY <1>1, <2>1, FormQuantityType DEF OpenReceive
  <2> QED BY <1>1, <2>2, <2>3 DEF OpenReceive, PageTypeOK
<1>2. CASE Close
  <2>1. /\ dialog' \in [visible : BOOLEAN, readonly : BOOLEAN, order : Orders \cup {Nil},
                        entry : BookEntries \cup {Nil}, quantity : Nat]
        /\ dialog'.order = dialog.order /\ dialog'.entry = dialog.entry /\ dialog.visible
    BY <1>0, <1>2 DEF Close
  <2> QED BY <1>2, <2>1 DEF Close, historyVars, PageTypeOK
<1>3. ASSUME NEW q \in Quantities, EditQuantity(q) PROVE PageTypeOK'
  <2>1. /\ dialog' \in [visible : BOOLEAN, readonly : BOOLEAN, order : Orders \cup {Nil},
                        entry : BookEntries \cup {Nil}, quantity : Nat]
        /\ dialog'.order = dialog.order /\ dialog'.entry = dialog.entry /\ dialog.visible
    BY <1>0, <1>3, QuantitiesAssumption DEF EditQuantity
  <2> QED BY <1>3, <2>1 DEF EditQuantity, PageTypeOK
<1>4. CASE OnReceive
  <2>1. /\ clicks + 1 \in 1..ClickBound /\ clicks' = clicks + 1 /\ clicks \in Nat
        /\ dialog.order \in Orders /\ dialog.quantity \in Nat
    BY <1>4, ClickBoundAssumption DEF OnReceive, PageTypeOK
  <2>2. post' \in Posts /\ post'.stage = "sent"
    BY <1>4, <2>1 DEF OnReceive, Posts
  <2>3. goods' \in [1..ClickBound -> 0..ClickBound]
    <3> DEFINE first == IF fresh THEN clicks + 1 ELSE goods[clicks]
    <3>1. first \in 0..ClickBound
      <4>1. CASE fresh
        BY <2>1, <4>1
      <4>2. CASE ~fresh
        <5>1. clicks # 0 /\ goods \in [1..ClickBound -> 0..ClickBound]
          BY <4>2 DEF PageTypeOK
        <5>2. clicks \in 1..ClickBound
          BY <2>1, <5>1, ClickBoundAssumption
        <5> QED BY <4>2, <5>1, <5>2
      <4> QED BY <4>1, <4>2
    <3>2. goods' = [goods EXCEPT ![clicks + 1] = first]
      BY <1>4 DEF OnReceive
    <3> HIDE DEF first
    <3> QED BY <3>1, <3>2 DEF PageTypeOK
  <2>4. clicks' \in 0..ClickBound /\ clicks' # 0
    BY <2>1
  <2>5. fresh' \in BOOLEAN /\ (clicks' = 0 => fresh')
    BY <1>4, <2>4 DEF OnReceive
  <2>6. UNCHANGED <<book, rows, dialog, receipts, awaited, adrift, calls, taken, acked>>
    BY <1>4 DEF OnReceive
  <2>7. phase' = "posting"
    BY <1>4 DEF OnReceive
  <2> QED BY <2>2, <2>3, <2>4, <2>5, <2>6, <2>7 DEF PageTypeOK
<1> QED BY <1>1, <1>2, <1>3, <1>4

\* Room for two requests.
LEMMA TwoFree ==
    ASSUME Cardinality(FreeIds) >= 2
    PROVE  Min(FreeIds) \in CallIds /\ Min(FreeIds \ {Min(FreeIds)}) \in CallIds
<1>1. \A S \in SUBSET Nat : S # {} => Min(S) \in S
  <2> SUFFICES ASSUME NEW S \in SUBSET Nat, S # {} PROVE Min(S) \in S
    OBVIOUS
  <2>1. \E x \in S : \A y \in S : x <= y
    BY LeastExists
  <2> QED BY <2>1 DEF Min
<1>2. FreeIds \in SUBSET Nat /\ FreeIds \subseteq CallIds
  BY CallIdsAssumption DEF FreeIds
<1>3. \A i : FreeIds \ {i} # {}
  <2> SUFFICES ASSUME NEW i, FreeIds \subseteq {i} PROVE FALSE
    OBVIOUS
  <2>1. Cardinality({i}) = 1 /\ IsFiniteSet({i})
    BY FS_Singleton
  <2>2. Cardinality(FreeIds) <= 1 /\ Cardinality(FreeIds) \in Nat
    BY <2>1, FS_Subset, FS_CardinalityType
  <2> QED BY <2>2
<1>4. FreeIds # {}
  BY <1>3
<1> DEFINE m == Min(FreeIds)
<1>5. m \in FreeIds
  BY <1>1, <1>2, <1>4
<1> HIDE DEF m
<1>6. Min(FreeIds \ {m}) \in FreeIds \ {m}
  BY <1>1, <1>2, <1>3
<1> QED BY <1>2, <1>5, <1>6 DEF m

LEMMA PostTypes ==
    ASSUME PageTypeOK,
           \/ ServePost \/ ReplyPost \/ ArrivePost \/ RefusePost \/ GiveUp
           \/ \E r \in adrift : ServeAdrift(r)
    PROVE  PageTypeOK'
<1>0. (post # Nil => post \in Posts) /\ adrift \subseteq Posts /\ book \in [Orders -> BookEntries]
  BY DEF PageTypeOK
<1>1. CASE ServePost
  <2>1. post' \in Posts /\ post'.stage # "replied"
    BY <1>0, <1>1 DEF ServePost, Posts
  <2>2. book' \in [Orders -> BookEntries] /\ taken' \in [1..ClickBound -> Nat]
    <3>1. CASE Acceptable(post) /\ Accept(post)
      BY <1>0, <1>1, <3>1, AcceptGrows DEF ServePost, BookGrows
    <3>2. CASE UNCHANGED <<book, taken>>
      BY <3>2 DEF PageTypeOK
    <3> QED BY <1>1, <3>1, <3>2 DEF ServePost
  <2> QED BY <1>1, <2>1, <2>2 DEF ServePost, PageTypeOK
<1>2. CASE ReplyPost
  <2>1. /\ post' \in Posts
        /\ post'.stage = "replied" => post'.answer \in BookEntries
    BY <1>0, <1>2 DEF ReplyPost, Posts
  <2> QED BY <1>2, <2>1 DEF ReplyPost, historyVars, PageTypeOK
<1>3. CASE ArrivePost
  <2> DEFINE i == Min(FreeIds)
             j == Min(FreeIds \ {i})
  <2>1. post \in Posts /\ post # Nil /\ post.stage = "replied" /\ post.answer \in BookEntries
    BY <1>0, <1>3 DEF ArrivePost, PageTypeOK
  <2>2. i \in CallIds /\ j \in CallIds
    BY <1>3, TwoFree DEF ArrivePost
  <2>3. calls' \in [CallIds -> Calls \cup {Nil}]
    <3>1. Call("receipts", post.order) \in Calls /\ Call("rows", Nil) \in Calls
      BY <2>1, NewCalls DEF Posts
    <3>2. calls' = [calls EXCEPT ![i] = Call("rows", Nil), ![j] = Call("receipts", post.order)]
      BY <1>3 DEF ArrivePost
    <3> HIDE DEF i, j
    <3> QED BY <3>1, <3>2 DEF PageTypeOK
  <2>4. /\ dialog' \in [visible : BOOLEAN, readonly : BOOLEAN, order : Orders \cup {Nil},
                        entry : BookEntries \cup {Nil}, quantity : Nat]
        /\ dialog'.order \in Orders
    <3>1. FormQuantity(post.answer) \in Nat /\ post.order \in Orders
      BY <2>1, FormQuantityType DEF Posts
    <3> QED BY <1>3, <2>1, <3>1 DEF ArrivePost, PageTypeOK
  <2>5. awaited' \subseteq CallIds
    BY <1>3, <2>2 DEF ArrivePost
  <2>6. acked' \subseteq 1..ClickBound
    BY <1>3, <2>1 DEF ArrivePost, PageTypeOK, Posts
  <2> HIDE DEF i, j
  <2> QED BY <1>3, <2>3, <2>4, <2>5, <2>6 DEF ArrivePost, PageTypeOK
<1>4. CASE RefusePost
  BY <1>4 DEF RefusePost, historyVars, PageTypeOK
<1>5. CASE GiveUp
  BY <1>0, <1>5 DEF GiveUp, historyVars, PageTypeOK
<1>6. ASSUME NEW r \in adrift, ServeAdrift(r) PROVE PageTypeOK'
  <2>2. book' \in [Orders -> BookEntries] /\ taken' \in [1..ClickBound -> Nat]
    <3>1. CASE Acceptable(r) /\ Accept(r)
      BY <1>0, <3>1, AcceptGrows DEF BookGrows
    <3>2. CASE UNCHANGED <<book, taken>>
      BY <3>2 DEF PageTypeOK
    <3> QED BY <1>6, <3>1, <3>2 DEF ServeAdrift
  <2>3. adrift' \subseteq Posts
    BY <1>0, <1>6 DEF ServeAdrift
  <2> QED BY <1>6, <2>2, <2>3 DEF ServeAdrift, PageTypeOK
<1> QED BY <1>1, <1>2, <1>3, <1>4, <1>5, <1>6

LEMMA PageTypeStep == PageTypeOK /\ [PageNext]_pageVars => PageTypeOK'
<1> SUFFICES ASSUME PageTypeOK, [PageNext]_pageVars PROVE PageTypeOK'
  OBVIOUS
<1>1. CASE Load
  <2>1. calls' \in [CallIds -> Calls \cup {Nil}]
    BY <1>1, NewCalls DEF Load, PageTypeOK
  <2> QED BY <1>1, <2>1 DEF Load, historyVars, PageTypeOK
<1>2. CASE OthersAct
  BY <1>2, OthersGrow DEF OthersAct, historyVars, BookGrows, PageTypeOK
<1>3. CASE UNCHANGED pageVars
  BY <1>3 DEF pageVars, PageTypeOK
<1> QED BY <1>1, <1>2, <1>3, CallTypes, DialogTypes, PostTypes DEF PageNext

-----------------------------------------------------------------------------
\* The submission that the page waits for, and those it gave up.
Awaiting ==
    post # Nil =>
        /\ post.number <= clicks
        /\ post.stage = "sent" => /\ taken[post.number] = 0
                                  /\ \A r \in adrift : r.number # post.number
        /\ post.stage \in {"received", "replied"} => taken[post.number] = 1

GivenUp ==
    /\ \A r \in adrift : r.number <= clicks /\ taken[r.number] = 0
    /\ \A q, r \in adrift : q.number = r.number => q = r

Submitted == Awaiting /\ GivenUp /\ AcksAreReceipts

\* The next submission has a number of its own.
LEMMA SubmitKeeps ==
    ASSUME PageTypeOK, Submitted, OnReceive
    PROVE  Submitted'
<1>1. /\ clicks + 1 \in 1..ClickBound /\ clicks' = clicks + 1 /\ clicks \in Nat
      /\ post'.number = clicks + 1 /\ post'.stage = "sent"
      /\ adrift' = adrift /\ taken' = taken /\ acked' = acked
      /\ taken \in [1..ClickBound -> Nat] /\ adrift \subseteq Posts
  BY ClickBoundAssumption DEF OnReceive, PageTypeOK
<1>2. \A r \in adrift : r.number \in 1..ClickBound /\ r.number <= clicks
  BY <1>1 DEF Submitted, GivenUp, Posts
<1>3. taken[clicks + 1] = 0
  BY <1>1 DEF Submitted, AcksAreReceipts
<1>4. Awaiting'
  BY <1>1, <1>2, <1>3 DEF Awaiting
<1>5. GivenUp'
  BY <1>1, <1>2 DEF Submitted, GivenUp
<1>6. AcksAreReceipts'
  BY <1>1 DEF Submitted, AcksAreReceipts
<1> QED BY <1>4, <1>5, <1>6 DEF Submitted

LEMMA PostKeeps ==
    ASSUME PageTypeOK, Submitted, post # Nil,
           ServePost \/ ReplyPost \/ ArrivePost \/ RefusePost \/ GiveUp
    PROVE  Submitted'
<1>0. /\ post \in Posts /\ post.number \in 1..ClickBound /\ post.number <= clicks
      /\ taken \in [1..ClickBound -> Nat] /\ adrift \subseteq Posts
      /\ \A r \in adrift : r.number \in 1..ClickBound
      /\ clicks \in Nat
  BY DEF PageTypeOK, Posts, Submitted, Awaiting
<1>1. CASE ServePost
  <2>1. /\ post.stage = "sent" /\ taken[post.number] = 0
        /\ \A r \in adrift : r.number # post.number
        /\ clicks' = clicks /\ adrift' = adrift /\ acked' = acked
        /\ post'.number = post.number
    BY <1>0, <1>1 DEF ServePost, Submitted, Awaiting, Posts
  <2>2. CASE post' = [post EXCEPT !.stage = "received"] /\ Acceptable(post) /\ Accept(post)
    <3>1. taken' = [taken EXCEPT ![post.number] = @ + 1]
      BY <2>2 DEF Accept
    <3>2. taken'[post.number] = 1 /\ post'.stage = "received"
          /\ \A n \in 1..ClickBound : n # post.number => taken'[n] = taken[n]
      BY <1>0, <2>1, <2>2, <3>1 DEF Posts
    <3>3. Awaiting'
      BY <1>0, <2>1, <3>2 DEF Awaiting
    <3>4. GivenUp'
      BY <1>0, <2>1, <3>2 DEF GivenUp, Submitted
    <3>5. AcksAreReceipts'
      BY <1>0, <2>1, <3>2 DEF AcksAreReceipts, Submitted
    <3> QED BY <3>3, <3>4, <3>5 DEF Submitted
  <2>3. CASE post' = [post EXCEPT !.stage = "refused"] /\ taken' = taken
    <3>1. post'.stage = "refused"
      BY <1>0, <2>3 DEF Posts
    <3> QED BY <1>0, <2>1, <2>3, <3>1 DEF Submitted, Awaiting, GivenUp, AcksAreReceipts
  <2> QED BY <1>1, <2>2, <2>3 DEF ServePost
<1>2. CASE ReplyPost
  <2>1. /\ post.stage = "received" /\ taken[post.number] = 1
        /\ UNCHANGED <<clicks, adrift, taken, acked>>
        /\ post'.number = post.number /\ post'.stage \in {"replied", "refused"}
    BY <1>0, <1>2 DEF ReplyPost, historyVars, Submitted, Awaiting, Posts
  <2> QED BY <1>0, <2>1 DEF Submitted, Awaiting, GivenUp, AcksAreReceipts
<1>3. CASE ArrivePost
  <2>1. /\ taken[post.number] = 1 /\ UNCHANGED <<clicks, adrift, taken>>
        /\ post' = Nil /\ acked' = acked \cup {post.number}
    BY <1>3 DEF ArrivePost, Submitted, Awaiting
  <2> QED BY <2>1 DEF Submitted, Awaiting, GivenUp, AcksAreReceipts
<1>4. CASE RefusePost
  BY <1>4 DEF RefusePost, historyVars, Submitted, Awaiting, GivenUp, AcksAreReceipts
<1>5. CASE GiveUp
  <2>1. post' = Nil /\ UNCHANGED <<clicks, taken, acked>>
    BY <1>5 DEF GiveUp, historyVars
  <2>2. GivenUp'
    <3>1. CASE post.stage = "sent"
      <4>1. adrift' = adrift \cup {post}
        BY <1>5, <3>1 DEF GiveUp
      <4>2. taken[post.number] = 0 /\ \A r \in adrift : r.number # post.number
        BY <3>1 DEF Submitted, Awaiting
      <4> QED BY <1>0, <2>1, <4>1, <4>2 DEF Submitted, GivenUp
    <3>2. CASE post.stage # "sent"
      BY <1>5, <2>1, <3>2 DEF GiveUp, Submitted, GivenUp
    <3> QED BY <3>1, <3>2
  <2>3. Awaiting' /\ AcksAreReceipts'
    BY <2>1 DEF Submitted, Awaiting, AcksAreReceipts
  <2> QED BY <2>2, <2>3 DEF Submitted
<1> QED BY <1>1, <1>2, <1>3, <1>4, <1>5

LEMMA AdriftKeeps ==
    ASSUME PageTypeOK, Submitted, NEW r \in adrift, ServeAdrift(r)
    PROVE  Submitted'
<1>1. /\ r.number \in 1..ClickBound /\ r.number <= clicks /\ clicks \in Nat
      /\ taken[r.number] = 0 /\ taken \in [1..ClickBound -> Nat]
      /\ \A q \in adrift : q.number \in 1..ClickBound
      /\ \A q \in adrift \ {r} : q.number # r.number
  BY DEF PageTypeOK, Posts, Submitted, GivenUp
<1>2. post # Nil => /\ post.number \in 1..ClickBound
                    /\ post.stage \in {"sent", "received", "replied"} => post.number # r.number
  BY <1>1 DEF PageTypeOK, Posts, Submitted, Awaiting
<1>3. adrift' = adrift \ {r} /\ UNCHANGED <<post, clicks, acked>>
  BY DEF ServeAdrift
<1>4. /\ taken'[r.number] \in {0, 1}
      /\ \A n \in 1..ClickBound : n # r.number => taken'[n] = taken[n]
  <2>1. taken' = [taken EXCEPT ![r.number] = @ + 1] \/ taken' = taken
    BY DEF ServeAdrift, Accept
  <2>2. CASE taken' = taken
    BY <1>1, <2>2
  <2>3. CASE taken' = [taken EXCEPT ![r.number] = @ + 1]
    <3>1. taken'[r.number] = taken[r.number] + 1
      BY <1>1, <2>3
    <3>2. taken'[r.number] = 1
      BY <1>1, <3>1
    <3>3. \A n \in 1..ClickBound : n # r.number => taken'[n] = taken[n]
      BY <1>1, <2>3
    <3> QED BY <3>2, <3>3
  <2> QED BY <2>1, <2>2, <2>3
<1>5. Awaiting'
  BY <1>2, <1>3, <1>4 DEF Submitted, Awaiting
<1>6. GivenUp'
  BY <1>1, <1>3, <1>4 DEF Submitted, GivenUp
<1>7. AcksAreReceipts'
  <2>1. r.number \notin acked
    BY <1>1 DEF Submitted, AcksAreReceipts
  <2> QED BY <1>1, <1>3, <1>4, <2>1 DEF Submitted, AcksAreReceipts
<1> QED BY <1>5, <1>6, <1>7 DEF Submitted

LEMMA SubmittedStep == PageTypeOK /\ Submitted /\ [PageNext]_pageVars => Submitted'
<1> SUFFICES ASSUME PageTypeOK, Submitted, [PageNext]_pageVars PROVE Submitted'
  OBVIOUS
<1>1. CASE OnReceive
  BY <1>1, SubmitKeeps
<1>2. CASE ServePost \/ ReplyPost \/ ArrivePost \/ RefusePost \/ GiveUp
  <2>1. post # Nil
    BY <1>2 DEF ServePost, ReplyPost, ArrivePost, RefusePost, GiveUp
  <2> QED BY <1>2, <2>1, PostKeeps
<1>3. CASE \E r \in adrift : ServeAdrift(r)
  BY <1>3, AdriftKeeps
<1>4. CASE UNCHANGED <<post, adrift, clicks, taken, acked>>
  BY <1>4 DEF Submitted, Awaiting, GivenUp, AcksAreReceipts
<1>5. CASE \/ Load \/ Close \/ OthersAct \/ UNCHANGED pageVars
           \/ \E i \in CallIds : ServeCall(i) \/ ArriveCall(i) \/ FailCall(i)
           \/ \E o \in Orders, readonly \in BOOLEAN : OpenReceive(o, readonly)
           \/ \E q \in Quantities : EditQuantity(q)
  BY <1>4, <1>5 DEF Load, Close, OthersAct, pageVars, historyVars, ServeCall, ArriveCall,
     FailCall, OpenReceive, EditQuantity
<1> QED BY <1>1, <1>2, <1>3, <1>5 DEF PageNext

-----------------------------------------------------------------------------
\* What a call brings was in book b.
FromBook(call, b) ==
    call.answer # Nil =>
        IF call.kind = "rows"
        THEN \A o \in Orders : call.answer[o].received <= b[o].received
        ELSE call.answer <= b[call.order].received

Answered ==
    /\ \A i \in CallIds : calls[i] # Nil => FromBook(calls[i], book)
    /\ post # Nil /\ post.stage = "replied" =>
          post.answer.received <= book[post.order].received

Snapshots == Answered /\ ShownIsReceived

\* A new call brings nothing yet.
LEMMA NothingFetched ==
    \A o : FromBook(Call("rows", Nil), book) /\ FromBook(Call("receipts", o), book)
BY DEF FromBook, Call

\* What was in the book is in a later one.
LEMMA StillReceived ==
    ASSUME PageTypeOK, BookGrows, NEW o \in Orders, NEW n \in Int, n <= book[o].received
    PROVE  n <= book'[o].received
<1>1. book[o].received \in Int /\ book'[o].received \in Int
  BY DEF PageTypeOK, BookGrows, BookEntries
<1>2. book[o].received <= book'[o].received
  BY DEF BookGrows
<1> QED BY <1>1, <1>2

LEMMA StillFromBook ==
    ASSUME PageTypeOK, BookGrows, NEW call \in Calls, FromBook(call, book)
    PROVE  FromBook(call, book')
<1> SUFFICES ASSUME call.answer # Nil
             PROVE  IF call.kind = "rows"
                    THEN \A o \in Orders : call.answer[o].received <= book'[o].received
                    ELSE call.answer <= book'[call.order].received
  BY DEF FromBook
<1>1. CASE call.kind = "rows"
  <2>1. call.answer \in [Orders -> BookEntries]
    BY <1>1 DEF Calls
  <2>2. \A o \in Orders : call.answer[o].received \in Int
    BY <2>1 DEF BookEntries
  <2>3. \A o \in Orders : call.answer[o].received <= book[o].received
    BY <1>1 DEF FromBook
  <2> QED BY <1>1, <2>2, <2>3, StillReceived
<1>2. CASE call.kind # "rows"
  <2>1. call.order \in Orders /\ call.answer \in Int
    BY <1>2 DEF Calls
  <2>2. call.answer <= book[call.order].received
    BY <1>2 DEF FromBook
  <2> QED BY <1>2, <2>1, <2>2, StillReceived
<1> QED BY <1>1, <1>2

LEMMA StillAnswered ==
    ASSUME PageTypeOK, BookGrows, NEW i \in CallIds, calls[i] # Nil, FromBook(calls[i], book)
    PROVE  FromBook(calls[i], book')
BY StillFromBook DEF PageTypeOK

\* Nothing the page shows becomes wrong.
LEMMA ShownFrame ==
    ASSUME PageTypeOK, Snapshots, BookGrows, UNCHANGED <<rows, dialog, receipts>>
    PROVE  ShownIsReceived'
<1>1. \A o \in Orders : rows'[o].received <= book'[o].received
  <2>1. \A o \in Orders : rows[o].received \in Int /\ rows[o].received <= book[o].received
    BY DEF Snapshots, ShownIsReceived, PageTypeOK, BookEntries
  <2> QED BY <2>1, StillReceived
<1>2. dialog'.entry # Nil => dialog'.entry.received <= book'[dialog'.order].received
  <2> SUFFICES ASSUME dialog.entry # Nil
               PROVE  dialog.entry.received <= book'[dialog.order].received
    OBVIOUS
  <2>1. dialog.order \in Orders /\ dialog.entry.received \in Int
    BY DEF PageTypeOK, BookEntries
  <2>2. dialog.entry.received <= book[dialog.order].received
    BY DEF Snapshots, ShownIsReceived
  <2> QED BY <2>1, <2>2, StillReceived
<1>3. receipts' # Nil => receipts'.sum <= book'[receipts'.order].received
  <2> SUFFICES ASSUME receipts # Nil
               PROVE  receipts.sum <= book'[receipts.order].received
    OBVIOUS
  <2>1. receipts.order \in Orders /\ receipts.sum \in Int
    BY DEF PageTypeOK
  <2>2. receipts.sum <= book[receipts.order].received
    BY DEF Snapshots, ShownIsReceived
  <2> QED BY <2>1, <2>2, StillReceived
<1> QED BY <1>1, <1>2, <1>3 DEF ShownIsReceived

\* The server's steps: the book grows, and the answers on their way stay.
LEMMA ServerSnapshots ==
    ASSUME PageTypeOK, Snapshots, BookGrows, UNCHANGED <<rows, dialog, receipts, calls>>,
           post' = post \/ (post' # Nil => post'.stage # "replied")
    PROVE  Snapshots'
<1>1. ShownIsReceived'
  BY ShownFrame
<1>2. \A i \in CallIds : calls'[i] # Nil => FromBook(calls'[i], book')
  BY StillAnswered DEF Snapshots, Answered
<1>3. ASSUME post' # Nil, post'.stage = "replied"
      PROVE  post'.answer.received <= book'[post'.order].received
  <2>1. post' = post
    BY <1>3
  <2>2. post # Nil /\ post.stage = "replied"
    BY <1>3, <2>1
  <2>3. post.order \in Orders /\ post.answer.received \in Int
    <3>1. post \in Posts /\ post.answer \in BookEntries
      BY <2>2 DEF PageTypeOK
    <3>2. post.order \in Orders
      BY <3>1 DEF Posts
    <3>3. post.answer.received \in Int
      BY <3>1 DEF BookEntries
    <3> QED BY <3>2, <3>3
  <2>4. post.answer.received <= book[post.order].received
    BY <2>2 DEF Snapshots, Answered
  <2> QED BY <2>1, <2>3, <2>4, StillReceived
<1> QED BY <1>1, <1>2, <1>3 DEF Snapshots, Answered

\* A request is sent, answered by the book as it is, and heard by the page.
LEMMA CallKeeps ==
    ASSUME PageTypeOK, Snapshots, NEW i \in CallIds,
           ServeCall(i) \/ ArriveCall(i) \/ FailCall(i)
    PROVE  Snapshots'
<1>0. calls \in [CallIds -> Calls \cup {Nil}] /\ calls[i] # Nil /\ calls[i] \in Calls
  BY DEF PageTypeOK, ServeCall, ArriveCall, FailCall
<1>1. CASE ServeCall(i)
  <2> DEFINE answer == IF calls[i].kind = "rows" THEN book ELSE book[calls[i].order].received
             call == [calls[i] EXCEPT !.answer = answer]
  <2>1. \A o \in Orders : book[o].received \in Nat
    BY DEF PageTypeOK, BookEntries
  <2>2. FromBook(call, book)
    <3>1. CASE calls[i].kind = "rows"
      <4>1. call.kind = "rows" /\ call.answer = book
        BY <1>0, <3>1 DEF Calls
      <4> HIDE DEF call
      <4> QED BY <2>1, <4>1 DEF FromBook
    <3>2. CASE calls[i].kind # "rows"
      <4>1. /\ call.kind # "rows" /\ call.order \in Orders
            /\ call.answer = book[call.order].received
        BY <1>0, <3>2 DEF Calls
      <4> HIDE DEF call
      <4> QED BY <2>1, <4>1 DEF FromBook
    <3> QED BY <3>1, <3>2
  <2>3. calls' = [calls EXCEPT ![i] = call] /\ UNCHANGED <<book, rows, dialog, receipts, post>>
    BY <1>1 DEF ServeCall
  <2> HIDE DEF call
  <2> QED BY <1>0, <2>2, <2>3 DEF Snapshots, Answered, ShownIsReceived
<1>2. CASE ArriveCall(i)
  <2>1. /\ calls' = [calls EXCEPT ![i] = Nil] /\ UNCHANGED <<book, dialog, post>>
        /\ calls[i].answer # Nil /\ FromBook(calls[i], book)
    BY <1>0, <1>2 DEF ArriveCall, Snapshots, Answered
  <2>2. Answered'
    BY <1>0, <2>1 DEF Snapshots, Answered
  <2>3. CASE calls[i].kind = "rows"
    <3>1. rows' = calls[i].answer /\ receipts' = receipts
      BY <1>2, <2>3 DEF ArriveCall
    <3>2. \A o \in Orders : rows'[o].received <= book'[o].received
      BY <2>1, <2>3, <3>1 DEF FromBook
    <3> QED BY <2>1, <2>2, <3>1, <3>2 DEF Snapshots, ShownIsReceived
  <2>4. CASE calls[i].kind # "rows"
    <3>1. rows' = rows /\ receipts' = [order |-> calls[i].order, sum |-> calls[i].answer]
      BY <1>2, <2>4 DEF ArriveCall
    <3>2. receipts'.sum <= book'[receipts'.order].received
      BY <2>1, <2>4, <3>1 DEF FromBook
    <3> QED BY <2>1, <2>2, <3>1, <3>2 DEF Snapshots, ShownIsReceived
  <2> QED BY <2>3, <2>4
<1>3. CASE FailCall(i)
  <2>1. /\ calls' = [calls EXCEPT ![i] = Nil]
        /\ UNCHANGED <<book, rows, dialog, receipts, post>>
    BY <1>3 DEF FailCall
  <2> QED BY <1>0, <2>1 DEF Snapshots, Answered, ShownIsReceived
<1> QED BY <1>1, <1>2, <1>3

LEMMA DialogKeeps ==
    ASSUME PageTypeOK, Snapshots,
           \/ Load \/ Close \/ OnReceive
           \/ \E o \in Orders, readonly \in BOOLEAN : OpenReceive(o, readonly)
           \/ \E q \in Quantities : EditQuantity(q)
    PROVE  Snapshots'
<1>0. calls \in [CallIds -> Calls \cup {Nil}]
  BY DEF PageTypeOK
<1>1. CASE Load
  <2>1. /\ calls' = [calls EXCEPT ![Min(FreeIds)] = Call("rows", Nil)]
        /\ UNCHANGED <<book, rows, dialog, receipts, post>>
    BY <1>1 DEF Load
  <2> QED BY <1>0, <2>1, NothingFetched DEF Snapshots, Answered, ShownIsReceived
<1>2. ASSUME NEW o \in Orders, NEW readonly \in BOOLEAN, OpenReceive(o, readonly)
      PROVE  Snapshots'
  <2>1. /\ calls' = [calls EXCEPT ![Min(FreeIds)] = Call("receipts", o)]
        /\ UNCHANGED <<book, rows, post>> /\ receipts' = Nil
        /\ dialog'.order = o /\ dialog'.entry = rows[o]
    BY <1>2 DEF OpenReceive
  <2> QED BY <1>0, <2>1, NothingFetched DEF Snapshots, Answered, ShownIsReceived
<1>3. ASSUME UNCHANGED <<book, rows, receipts, calls>>,
             dialog'.order = dialog.order /\ dialog'.entry = dialog.entry,
             post' = post \/ post'.stage = "sent"
      PROVE  Snapshots'
  BY <1>3 DEF Snapshots, Answered, ShownIsReceived
<1>4. CASE Close
  <2>1. dialog'.order = dialog.order /\ dialog'.entry = dialog.entry
    BY <1>4 DEF Close, PageTypeOK
  <2> QED BY <1>3, <1>4, <2>1 DEF Close
<1>5. ASSUME NEW q \in Quantities, EditQuantity(q) PROVE Snapshots'
  <2>1. dialog'.order = dialog.order /\ dialog'.entry = dialog.entry
    BY <1>5 DEF EditQuantity, PageTypeOK
  <2> QED BY <1>3, <1>5, <2>1 DEF EditQuantity
<1>6. CASE OnReceive
  <2>1. post'.stage = "sent" /\ UNCHANGED <<book, rows, dialog, receipts, calls>>
    BY <1>6 DEF OnReceive
  <2> QED BY <1>3, <2>1
<1> QED BY <1>1, <1>2, <1>4, <1>5, <1>6

\* The answer to a submission is read from the book, and the dialog shows it.
LEMMA ReplyKeeps ==
    ASSUME PageTypeOK, Snapshots, ReplyPost \/ ArrivePost \/ RefusePost \/ GiveUp
    PROVE  Snapshots'
<1>0. post \in Posts /\ post # Nil /\ calls \in [CallIds -> Calls \cup {Nil}]
  BY DEF PageTypeOK, ReplyPost, ArrivePost, RefusePost, GiveUp
<1>1. CASE ReplyPost
  <2>1. book[post.order].received \in Nat
    BY <1>0 DEF PageTypeOK, Posts, BookEntries
  <2>2. UNCHANGED <<book, rows, dialog, receipts, calls>>
    BY <1>1 DEF ReplyPost
  <2>3. post'.stage = "replied" => post'.answer = book[post.order] /\ post'.order = post.order
    BY <1>0, <1>1 DEF ReplyPost, Posts
  <2> QED BY <2>1, <2>2, <2>3 DEF Snapshots, Answered, ShownIsReceived
<1>2. CASE ArrivePost
  <2>1. /\ calls' = [calls EXCEPT ![Min(FreeIds)] = Call("rows", Nil),
                                  ![Min(FreeIds \ {Min(FreeIds)})] = Call("receipts", post.order)]
        /\ UNCHANGED <<book, rows, receipts>> /\ post' = Nil
        /\ post.stage = "replied"
    BY <1>2 DEF ArrivePost
  <2>2. dialog'.order = post.order /\ dialog'.entry = post.answer
    BY <1>2 DEF ArrivePost, PageTypeOK
  <2>3. post.answer.received <= book[post.order].received
    BY <1>0, <2>1 DEF Snapshots, Answered
  <2> QED BY <1>0, <2>1, <2>2, <2>3, NothingFetched DEF Snapshots, Answered, ShownIsReceived
<1>3. CASE RefusePost \/ GiveUp
  <2>1. post' = Nil /\ UNCHANGED <<book, rows, dialog, receipts, calls>>
    BY <1>3 DEF RefusePost, GiveUp
  <2> QED BY <2>1 DEF Snapshots, Answered, ShownIsReceived
<1> QED BY <1>1, <1>2, <1>3

LEMMA SnapshotsStep == PageTypeOK /\ Snapshots /\ [PageNext]_pageVars => Snapshots'
<1> SUFFICES ASSUME PageTypeOK, Snapshots, [PageNext]_pageVars PROVE Snapshots'
  OBVIOUS
<1>1. CASE ServePost
  <2>1. post' # Nil => post'.stage # "replied"
    BY <1>1 DEF ServePost, PageTypeOK, Posts
  <2>2. BookGrows
    <3>1. CASE Acceptable(post) /\ Accept(post)
      BY <1>1, <3>1, AcceptGrows DEF ServePost, PageTypeOK
    <3>2. CASE book' = book
      BY <3>2, GrowsUnchanged
    <3> QED BY <1>1, <3>1, <3>2 DEF ServePost
  <2> QED BY <1>1, <2>1, <2>2, ServerSnapshots DEF ServePost
<1>2. ASSUME NEW r \in adrift, ServeAdrift(r) PROVE Snapshots'
  <2>1. BookGrows
    <3>1. CASE Acceptable(r) /\ Accept(r)
      BY <3>1, AcceptGrows DEF PageTypeOK
    <3>2. CASE book' = book
      BY <3>2, GrowsUnchanged
    <3> QED BY <1>2, <3>1, <3>2 DEF ServeAdrift
  <2> QED BY <1>2, <2>1, ServerSnapshots DEF ServeAdrift
<1>3. CASE OthersAct
  BY <1>3, OthersGrow, ServerSnapshots DEF OthersAct
<1>4. CASE UNCHANGED pageVars
  BY <1>4, GrowsUnchanged, ServerSnapshots DEF pageVars
<1> QED BY <1>1, <1>2, <1>3, <1>4, CallKeeps, DialogKeeps, ReplyKeeps DEF PageNext

-----------------------------------------------------------------------------
PageInv == PageTypeOK /\ Submitted /\ Snapshots

LEMMA PageStarts == PageInit => PageInv
<1> SUFFICES ASSUME PageInit PROVE PageInv
  OBVIOUS
<1>1. PageTypeOK
  BY StartedAssumption, ClickBoundAssumption DEF PageInit, PageTypeOK
<1>2. Submitted
  BY ClickBoundAssumption DEF PageInit, Submitted, Awaiting, GivenUp, AcksAreReceipts
<1>3. Snapshots
  <2>1. \A o \in Orders : Started[o].received \in Nat
    BY StartedAssumption DEF BookEntries
  <2> QED BY <2>1 DEF PageInit, Snapshots, Answered, ShownIsReceived
<1> QED BY <1>1, <1>2, <1>3 DEF PageInv

LEMMA PageInvariant == PageSpec => []PageInv
<1>1. PageInv /\ [PageNext]_pageVars => PageInv'
  BY PageTypeStep, SubmittedStep, SnapshotsStep DEF PageInv
<1> QED BY <1>1, PageStarts, PTL DEF PageSpec

\* The page's variables have their types, whatever answers arrive in whatever order.
THEOREM PageTypeCorrect == PageSpec => []PageTypeOK
<1>1. PageInv => PageTypeOK
  BY DEF PageInv
<1> QED BY <1>1, PageInvariant, PTL

\* The server received every submission that the page reports as received, none
\* twice and none that was not submitted, whatever was given up and arrives late.
THEOREM AcksCorrect == PageSpec => []AcksAreReceipts
<1>1. PageInv => AcksAreReceipts
  BY DEF PageInv, Submitted
<1> QED BY <1>1, PageInvariant, PTL

\* The list, the dialog and the receipts never show more as received than the
\* server has, in whatever order the answers arrive.
THEOREM ShownCorrect == PageSpec => []ShownIsReceived
<1>1. PageInv => ShownIsReceived
  BY DEF PageInv, Snapshots
<1> QED BY <1>1, PageInvariant, PTL
=============================================================================
