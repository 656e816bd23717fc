---------------------------- MODULE CartSyncProofs ----------------------------
(***************************************************************************)
(* Theorems about CartSync, for any number of lines, pages, requests and   *)
(* batches: it is well typed, an undisturbed list is the server's cart,    *)
(* and the list changes only as CartCopy allows.                           *)
(***************************************************************************)
EXTENDS CartSync, FiniteSetTheorems, TLAPS

\* What a request under way names, and what an open Placeorder page shows.
WellFormed ==
    /\ \A r \in Requests : requests[r].at # "none" =>
         /\ requests[r].kind # "order" => requests[r].line \in Lines
         /\ requests[r].kind = "count" => requests[r].batch \in Batches
    /\ checkout.lines # {} => checkout.batch \in Batches

TypeInv == TypeOK /\ WellFormed

LEMMA IdleType == Idle \in Request
BY CartSyncAssumption DEF Idle, Request, Qty, Carts, Empty

LEMMA CartType ==
    ASSUME TypeOK
    PROVE  Cart \in Carts
BY CartSyncAssumption DEF TypeOK, Cart, Carts, Qty

LEMMA TotalType ==
    ASSUME NEW c \in Carts
    PROVE  Total(c) \in {Total(d) : d \in Carts}
OBVIOUS

LEMMA CardinalityType ==
    ASSUME NEW S \in SUBSET Lines
    PROVE  Cardinality(S) \in 0..Cardinality(Lines)
<1>1. IsFiniteSet(Lines) /\ IsFiniteSet(S) /\ Cardinality(S) <= Cardinality(Lines)
  BY FS_Subset, CartSyncAssumption
<1>2. Cardinality(S) \in Nat /\ Cardinality(Lines) \in Nat
  BY <1>1, FS_CardinalityType
<1>3. QED
  BY <1>1, <1>2

LEMMA BeginType ==
    ASSUME TypeInv, NEW r \in Requests,
           NEW kind \in {"delete", "count", "add", "order"}, NEW at \in {"storage", "sent"},
           NEW by \in Views \cup {NoView}, NEW b \in Batches \cup {NoBatch},
           NEW l \in Lines \cup {NoLine},
           kind # "order" => l \in Lines, kind = "count" => b \in Batches,
           Begin(r, kind, at, by, b, l)
    PROVE  /\ requests' \in [Requests -> Request]
           /\ \A q \in Requests : requests'[q].at # "none" =>
                /\ requests'[q].kind # "order" => requests'[q].line \in Lines
                /\ requests'[q].kind = "count" => requests'[q].batch \in Batches
<1> DEFINE new == [kind |-> kind, by |-> by, batch |-> b, line |-> l, at |-> at,
                   n |-> 1, answer |-> Empty]
<1>1. new \in Request
  BY CartSyncAssumption DEF Request, Qty, Carts, Empty
<1>2. new.kind = kind /\ new.line = l /\ new.batch = b
  OBVIOUS
<1>3. requests' = [requests EXCEPT ![r] = new]
  BY DEF Begin
<1> HIDE DEF new
<1>4. QED
  BY <1>1, <1>2, <1>3 DEF TypeInv, TypeOK, WellFormed

LEMMA ChangeCountType ==
    ASSUME TypeOK, NEW b \in Batches, NEW l \in Lines, ChangeCount(b, l)
    PROVE  pcount' \in [Batches -> [Lines -> Qty]]
BY DEF TypeOK, ChangeCount

LEMMA EndType ==
    ASSUME TypeInv, NEW r \in Requests, End(r)
    PROVE  /\ requests' \in [Requests -> Request]
           /\ \A q \in Requests : requests'[q].at # "none" =>
                /\ requests'[q].kind # "order" => requests'[q].line \in Lines
                /\ requests'[q].kind = "count" => requests'[q].batch \in Batches
<1>1. Idle.at = "none"
  BY DEF Idle
<1>2. QED
  BY <1>1, IdleType DEF TypeInv, TypeOK, WellFormed, End

LEMMA TakeListType ==
    ASSUME TypeOK, NEW b \in Batches, NEW c \in Carts, TakeList(b, c)
    PROVE  /\ list' \in [batch : Batches, lines : SUBSET Lines]
           /\ pcount' \in [Batches -> [Lines -> Qty]]
BY CartSyncAssumption DEF TypeOK, TakeList, Carts, Qty

LEMMA TypeInit == Init => TypeInv
<1> SUFFICES ASSUME Init PROVE TypeInv
  OBVIOUS
<1>1. PICK b \in Batches :
        /\ list = [batch |-> b, lines |-> {l \in Lines : server[l] # 0}]
        /\ pcount = [c \in Batches |->
                       [l \in Lines |-> IF server[l] = 0 THEN 1 ELSE server[l]]]
  BY DEF Init
<1>2. list \in [batch : Batches, lines : SUBSET Lines] /\ pcount \in [Batches -> [Lines -> Qty]]
  BY <1>1, CartSyncAssumption DEF Init, Carts, Qty
<1>3. count \in 0..Cardinality(Lines)
  BY <1>2, CardinalityType DEF Init
<1>4. view \in [Views -> View]
  <2>1. Empty \in Carts
    BY CartSyncAssumption DEF Empty, Carts
  <2>2. QED
    BY <2>1, TotalType DEF Init, View
<1>5. requests \in [Requests -> Request]
  BY IdleType DEF Init
<1>6. \A r \in Requests : requests[r].at = "none"
  BY DEF Init, Idle
<1>7. checkout \in Checkout /\ checkout.lines = {}
  BY DEF Init, Closed, Checkout
<1>8. QED
  BY <1>2, <1>3, <1>4, <1>5, <1>6, <1>7 DEF Init, TypeInv, TypeOK, WellFormed

\* Steps of the pages.
LEMMA TypePage ==
    ASSUME TypeInv, PageStep
    PROVE  TypeInv'
<1> USE DEF pageVars, histVars
<1>1. ASSUME NEW v \in Views, OpenCart(v)
      PROVE  TypeInv'
  <2>1. view' \in [Views -> View]
    BY <1>1, CartType, TotalType DEF OpenCart, TypeInv, TypeOK, View
  <2>2. QED
    BY <1>1, <2>1 DEF OpenCart, TypeInv, TypeOK, WellFormed
<1>2. CASE LeaveCart
  BY <1>2 DEF LeaveCart, TypeInv, TypeOK, WellFormed
<1>3. CASE OpenCheckout
  BY <1>3 DEF OpenCheckout, TypeInv, TypeOK, WellFormed, Checkout
<1>4. CASE CloseCheckout
  BY <1>4 DEF CloseCheckout, Closed, TypeInv, TypeOK, WellFormed, Checkout
<1>5. ASSUME NEW r \in Requests, NEW v \in Views, NEW l \in Lines, Counter(r, v, l)
      PROVE  TypeInv'
  <2>1. list.batch \in Batches
    BY DEF TypeInv, TypeOK
  <2>2. pcount' \in [Batches -> [Lines -> Qty]]
    BY <1>5, <2>1, ChangeCountType DEF Counter, TypeInv
  <2>3. Begin(r, "count", "storage", v, list.batch, l)
    BY <1>5 DEF Counter
  <2>4. /\ requests' \in [Requests -> Request]
        /\ \A q \in Requests : requests'[q].at # "none" =>
             /\ requests'[q].kind # "order" => requests'[q].line \in Lines
             /\ requests'[q].kind = "count" => requests'[q].batch \in Batches
    BY <2>1, <2>3, BeginType
  <2>5. QED
    BY <1>5, <2>2, <2>4 DEF Counter, TypeInv, TypeOK, WellFormed
<1>6. ASSUME NEW r \in Requests, NEW v \in Views, NEW l \in Lines, Removecartlist(r, v, l)
      PROVE  TypeInv'
  <2>1. Begin(r, "delete", "storage", v, NoBatch, l)
    BY <1>6 DEF Removecartlist
  <2>2. /\ requests' \in [Requests -> Request]
        /\ \A q \in Requests : requests'[q].at # "none" =>
             /\ requests'[q].kind # "order" => requests'[q].line \in Lines
             /\ requests'[q].kind = "count" => requests'[q].batch \in Batches
    BY <2>1, BeginType
  <2>3. view' \in [Views -> View]
    BY <1>6 DEF Removecartlist, TypeInv, TypeOK, View
  <2>4. QED
    BY <1>6, <2>2, <2>3 DEF Removecartlist, TypeInv, TypeOK, WellFormed
<1>7. ASSUME NEW r \in Requests, NEW l \in Lines, Addcartlist(r, l)
      PROVE  TypeInv'
  <2>1. Begin(r, "add", "sent", NoView, NoBatch, l)
    BY <1>7 DEF Addcartlist
  <2>2. /\ requests' \in [Requests -> Request]
        /\ \A q \in Requests : requests'[q].at # "none" =>
             /\ requests'[q].kind # "order" => requests'[q].line \in Lines
             /\ requests'[q].kind = "count" => requests'[q].batch \in Batches
    BY <2>1, BeginType
  <2>3. QED
    BY <1>7, <2>2 DEF Addcartlist, TypeInv, TypeOK, WellFormed
<1>8. ASSUME NEW r \in Requests, NEW l \in Lines, CheckoutCounter(r, l)
      PROVE  TypeInv'
  <2>1. checkout.batch \in Batches
    BY <1>8 DEF CheckoutCounter, TypeInv, WellFormed
  <2>2. pcount' \in [Batches -> [Lines -> Qty]]
    BY <1>8, <2>1, ChangeCountType DEF CheckoutCounter, TypeInv
  <2>3. Begin(r, "count", "storage", NoView, checkout.batch, l)
    BY <1>8 DEF CheckoutCounter
  <2>4. /\ requests' \in [Requests -> Request]
        /\ \A q \in Requests : requests'[q].at # "none" =>
             /\ requests'[q].kind # "order" => requests'[q].line \in Lines
             /\ requests'[q].kind = "count" => requests'[q].batch \in Batches
    BY <2>1, <2>3, BeginType
  <2>5. astray' \in BOOLEAN
    BY <1>8 DEF CheckoutCounter, TypeInv, TypeOK
  <2>6. QED
    BY <1>8, <2>2, <2>4, <2>5 DEF CheckoutCounter, TypeInv, TypeOK, WellFormed
<1>9. ASSUME NEW r \in Requests, NEW l \in Lines, Removecartlistitem(r, l)
      PROVE  TypeInv'
  <2>1. Begin(r, "delete", "storage", NoView, NoBatch, l)
    BY <1>9 DEF Removecartlistitem
  <2>2. /\ requests' \in [Requests -> Request]
        /\ \A q \in Requests : requests'[q].at # "none" =>
             /\ requests'[q].kind # "order" => requests'[q].line \in Lines
             /\ requests'[q].kind = "count" => requests'[q].batch \in Batches
    BY <2>1, BeginType
  <2>3. /\ checkout' \in Checkout /\ cartPage' \in Views \cup {NoView}
        /\ checkout'.lines # {} => checkout'.batch \in Batches
    BY <1>9 DEF Removecartlistitem, TypeInv, TypeOK, WellFormed, Checkout, Closed
  <2>4. QED
    BY <1>9, <2>2, <2>3 DEF Removecartlistitem, TypeInv, TypeOK, WellFormed
<1>10. ASSUME NEW r \in Requests, Order(r)
       PROVE  TypeInv'
  <2>1. Begin(r, "order", "storage", NoView, NoBatch, NoLine)
    BY <1>10 DEF Order
  <2>2. /\ requests' \in [Requests -> Request]
        /\ \A q \in Requests : requests'[q].at # "none" =>
             /\ requests'[q].kind # "order" => requests'[q].line \in Lines
             /\ requests'[q].kind = "count" => requests'[q].batch \in Batches
    BY <2>1, BeginType
  <2>3. checkout' \in Checkout /\ (checkout'.lines # {} => checkout'.batch \in Batches)
    BY <1>10 DEF Order, TypeInv, TypeOK, WellFormed, Checkout
  <2>4. QED
    BY <1>10, <2>2, <2>3 DEF Order, TypeInv, TypeOK, WellFormed
<1>11. QED
  BY <1>1, <1>2, <1>3, <1>4, <1>5, <1>6, <1>7, <1>8, <1>9, <1>10 DEF PageStep

LEMMA SentType ==
    ASSUME NEW q \in Request, NEW n \in Qty
    PROVE  [q EXCEPT !.at = "sent", !.n = n] \in Request
BY DEF Request

LEMMA AnsweredType ==
    ASSUME NEW q \in Request, NEW c \in Carts
    PROVE  [q EXCEPT !.at = "answered", !.answer = c] \in Request
BY DEF Request

LEMMA SendType ==
    ASSUME TypeInv, NEW r \in Requests, Send(r)
    PROVE  TypeInv'
<1> DEFINE n == IF requests[r].kind = "count"
                THEN pcount[requests[r].batch][requests[r].line] ELSE 1
<1>1. n \in Qty
  <2>1. requests[r].at # "none"
    BY DEF Send
  <2>2. CASE requests[r].kind = "count"
    BY <2>1, <2>2 DEF TypeInv, TypeOK, WellFormed
  <2>3. CASE requests[r].kind # "count"
    BY <2>3, CartSyncAssumption DEF Qty
  <2>4. QED
    BY <2>2, <2>3
<1>2. requests' = [requests EXCEPT ![r] = [requests[r] EXCEPT !.at = "sent", !.n = n]]
  BY DEF Send, TypeInv, TypeOK
<1> HIDE DEF n
<1>3. requests' \in [Requests -> Request]
  <2>1. [requests[r] EXCEPT !.at = "sent", !.n = n] \in Request
    BY <1>1, SentType DEF TypeInv, TypeOK
  <2>2. QED
    BY <1>2, <2>1 DEF TypeInv, TypeOK
<1>4. \A q \in Requests : /\ requests'[q].kind = requests[q].kind
                          /\ requests'[q].line = requests[q].line
                          /\ requests'[q].batch = requests[q].batch
                          /\ requests'[q].at # "none" => requests[q].at # "none"
  BY <1>2 DEF Send, TypeInv, TypeOK, Request
<1>5. WellFormed'
  BY <1>4 DEF Send, TypeInv, WellFormed, pageVars
<1>6. QED
  BY <1>3, <1>5 DEF Send, TypeInv, TypeOK, pageVars, histVars

LEMMA HandledType ==
    ASSUME TypeInv, NEW q \in Request
    PROVE  Handled(q) \in Carts
<1>1. q.kind \in {"delete", "count", "add", "order"} /\ q.n \in 0..MaxQty
  BY CartSyncAssumption DEF Request, Qty
<1>2. server \in [Lines -> 0..MaxQty] /\ 0 \in 0..MaxQty /\ 1 \in 0..MaxQty
  BY CartSyncAssumption DEF TypeInv, TypeOK, Carts
<1>3. CASE q.kind = "delete"
  BY <1>2, <1>3 DEF Handled, Carts
<1>4. CASE q.kind = "count"
  BY <1>1, <1>2, <1>4 DEF Handled, Carts
<1>5. CASE q.kind = "add"
  BY <1>2, <1>5 DEF Handled, Carts
<1>6. CASE q.kind = "order"
  BY <1>2, <1>6 DEF Handled, Carts, Empty
<1>7. QED
  BY <1>1, <1>3, <1>4, <1>5, <1>6

LEMMA ServeType ==
    ASSUME TypeInv, NEW r \in Requests, Serve(r)
    PROVE  TypeInv'
<1>1. server' \in Carts
  BY HandledType DEF Serve, TypeInv, TypeOK
<1>2. requests' = [requests EXCEPT ![r] = [requests[r] EXCEPT !.at = "answered",
                                                              !.answer = server']]
  BY DEF Serve, TypeInv, TypeOK
<1>3. requests' \in [Requests -> Request]
  <2>1. [requests[r] EXCEPT !.at = "answered", !.answer = server'] \in Request
    BY <1>1, AnsweredType DEF TypeInv, TypeOK
  <2>2. QED
    BY <1>2, <2>1 DEF TypeInv, TypeOK
<1>4. \A q \in Requests : /\ requests'[q].kind = requests[q].kind
                          /\ requests'[q].line = requests[q].line
                          /\ requests'[q].batch = requests[q].batch
                          /\ requests'[q].at # "none" => requests[q].at # "none"
  BY <1>2 DEF Serve, TypeInv, TypeOK, Request
<1>5. WellFormed'
  BY <1>4 DEF Serve, TypeInv, WellFormed, pageVars
<1>6. QED
  BY <1>1, <1>3, <1>5 DEF Serve, TypeInv, TypeOK, pageVars

LEMMA ReplyType ==
    ASSUME TypeInv, NEW r \in Requests, NEW b \in Batches, Reply(r, b)
    PROVE  TypeInv'
<1> DEFINE q == requests[r]
<1>1. /\ q.answer \in Carts /\ q.by \in Views \cup {NoView}
      /\ TakeList(b, q.answer) /\ End(r)
  BY DEF Reply, TypeInv, TypeOK, Request
<1>2. /\ list' \in [batch : Batches, lines : SUBSET Lines]
      /\ pcount' \in [Batches -> [Lines -> Qty]]
  BY <1>1, TakeListType DEF TypeInv
<1>3. /\ requests' \in [Requests -> Request]
      /\ \A p \in Requests : requests'[p].at # "none" =>
           /\ requests'[p].kind # "order" => requests'[p].line \in Lines
           /\ requests'[p].kind = "count" => requests'[p].batch \in Batches
  BY <1>1, EndType
<1>4. count' \in 0..Cardinality(Lines)
  <2>1. Cardinality(list'.lines) \in 0..Cardinality(Lines)
    BY <1>2, CardinalityType
  <2>2. QED
    BY <2>1 DEF Reply, TypeInv, TypeOK
<1>5. view' \in [Views -> View]
  <2>1. CASE q.by = NoView
    BY <2>1 DEF Reply, TypeInv, TypeOK
  <2>2. CASE q.by # NoView
    <3> DEFINE s == view[q.by].isanimation /\ ~EndsSpinner(q)
               t == Total(q.answer)
    <3>1. q.by \in Views /\ t \in {Total(d) : d \in Carts} /\ s \in BOOLEAN
      BY <1>1, <2>2, TotalType
    <3>2. view' = [view EXCEPT ![q.by].isanimation = s, ![q.by].total = t]
      BY <2>2 DEF Reply
    <3> HIDE DEF s, t, q
    <3>3. QED
      BY <3>1, <3>2 DEF TypeInv, TypeOK, View
  <2>3. QED
    BY <2>1, <2>2
<1>6. latest' \in Requests \cup {NoRequest} /\ current' \in BOOLEAN
      /\ straight' \in BOOLEAN /\ astray' \in BOOLEAN
  BY DEF Reply, Forget, TypeInv, TypeOK
<1>7. server' = server /\ cartPage' = cartPage /\ checkout' = checkout
  BY DEF Reply
<1>8. QED
  BY <1>2, <1>3, <1>4, <1>5, <1>6, <1>7 DEF TypeInv, TypeOK, WellFormed

LEMMA OrderReplyType ==
    ASSUME TypeInv, NEW r \in Requests, NEW ok \in BOOLEAN, OrderReply(r, ok)
    PROVE  TypeInv'
<1>1. /\ requests' \in [Requests -> Request]
      /\ \A p \in Requests : requests'[p].at # "none" =>
           /\ requests'[p].kind # "order" => requests'[p].line \in Lines
           /\ requests'[p].kind = "count" => requests'[p].batch \in Batches
  BY EndType DEF OrderReply
<1>2. list' \in [batch : Batches, lines : SUBSET Lines]
  BY DEF OrderReply, TypeInv, TypeOK
<1>3. /\ checkout' \in Checkout /\ cartPage' \in Views \cup {NoView}
      /\ checkout'.lines # {} => checkout'.batch \in Batches
  BY DEF OrderReply, TypeInv, TypeOK, WellFormed, Closed, Checkout
<1>4. latest' \in Requests \cup {NoRequest} /\ current' \in BOOLEAN
      /\ straight' \in BOOLEAN /\ astray' \in BOOLEAN
  BY DEF OrderReply, Forget, TypeInv, TypeOK
<1>5. QED
  BY <1>1, <1>2, <1>3, <1>4 DEF OrderReply, TypeInv, TypeOK, WellFormed

LEMMA FailType ==
    ASSUME TypeInv, NEW r \in Requests, Fail(r)
    PROVE  TypeInv'
<1>1. /\ requests' \in [Requests -> Request]
      /\ \A p \in Requests : requests'[p].at # "none" =>
           /\ requests'[p].kind # "order" => requests'[p].line \in Lines
           /\ requests'[p].kind = "count" => requests'[p].batch \in Batches
  BY EndType DEF Fail
<1>2. latest' \in Requests \cup {NoRequest} /\ current' \in BOOLEAN
      /\ straight' \in BOOLEAN /\ astray' \in BOOLEAN
  BY DEF Fail, Forget, TypeInv, TypeOK
<1>3. QED
  BY <1>1, <1>2 DEF Fail, TypeInv, TypeOK, WellFormed, pageVars

LEMMA TypeStep == TypeInv /\ [Next]_vars => TypeInv'
<1> SUFFICES ASSUME TypeInv, [Next]_vars PROVE TypeInv'
  OBVIOUS
<1>1. CASE UNCHANGED vars
  BY <1>1 DEF vars, pageVars, histVars, TypeInv, TypeOK, WellFormed
<1>2. CASE PageStep
  BY <1>2, TypePage
<1>3. ASSUME NEW r \in Requests, Progress(r) \/ Fail(r)
      PROVE  TypeInv'
  BY <1>3, SendType, ServeType, ReplyType, OrderReplyType, FailType DEF Progress
<1>4. QED
  BY <1>1, <1>2, <1>3 DEF Next

\* Every reachable state of CartSync is well typed, and a request under way
\* always names the line, and a counter's the Cart object, it will read.
THEOREM TypeCorrect == Spec => []TypeOK
<1>1. Spec => []TypeInv
  BY TypeInit, TypeStep, PTL DEF Spec
<1>2. TypeInv => TypeOK
  BY DEF TypeInv
<1>3. QED
  BY <1>1, <1>2, PTL

-----------------------------------------------------------------------------
(* What each step does to the list, as quantities, and to the answers. *)

LEMMA BeginFrame ==
    ASSUME TypeInv, NEW r \in Requests, NEW kind, NEW at \in {"storage", "sent"},
           NEW by, NEW b, NEW l, Begin(r, kind, at, by, b, l)
    PROVE  /\ requests[r].at = "none"
           /\ requests'[r].kind = kind /\ requests'[r].at = at
           /\ requests'[r].batch = b /\ requests'[r].line = l
           /\ \A q \in Requests \ {r} : requests'[q] = requests[q]
BY DEF Begin, TypeInv, TypeOK

LEMMA EndFrame ==
    ASSUME TypeInv, NEW r \in Requests, End(r)
    PROVE  /\ requests'[r].at = "none"
           /\ \A q \in Requests \ {r} : requests'[q] = requests[q]
BY DEF End, TypeInv, TypeOK, Idle

\* A counter changes the quantity of its line, if the list still has the object.
LEMMA CountedCart ==
    ASSUME TypeInv, NEW b \in Batches, NEW l \in Lines, ChangeCount(b, l), UNCHANGED list
    PROVE  /\ \A m \in Lines : m # l => Cart'[m] = Cart[m]
           /\ b # list.batch \/ l \notin list.lines => Cart' = Cart
           /\ b = list.batch /\ l \in list.lines =>
                /\ Cart[l] \in Qty /\ Cart'[l] \in Qty
                /\ Cart'[l] - Cart[l] \in {-1, 1}
                /\ Cart' = [Cart EXCEPT ![l] = Cart'[l]]
<1>1. PICK n \in Qty : n - pcount[b][l] \in {-1, 1} /\ pcount' = [pcount EXCEPT ![b][l] = n]
  BY DEF ChangeCount
<1>2. pcount \in [Batches -> [Lines -> Qty]] /\ list.batch \in Batches
  BY DEF TypeInv, TypeOK
<1>3. \A m \in Lines : m # l => Cart'[m] = Cart[m]
  BY <1>1, <1>2 DEF Cart
<1>4. b # list.batch \/ l \notin list.lines => Cart' = Cart
  BY <1>1, <1>2 DEF Cart
<1>5. ASSUME b = list.batch, l \in list.lines
      PROVE  /\ Cart[l] \in Qty /\ Cart'[l] \in Qty
             /\ Cart'[l] - Cart[l] \in {-1, 1}
             /\ Cart' = [Cart EXCEPT ![l] = Cart'[l]]
  <2>1. Cart[l] = pcount[b][l] /\ Cart'[l] = n
    BY <1>1, <1>2, <1>5 DEF Cart
  <2>2. DOMAIN Cart = Lines /\ DOMAIN Cart' = Lines
    BY DEF Cart
  <2>3. Cart' = [m \in Lines |-> Cart'[m]] /\ Cart = [m \in Lines |-> Cart[m]]
    BY DEF Cart
  <2>4. QED
    BY <1>1, <1>2, <1>3, <2>1, <2>2, <2>3
<1>6. QED
  BY <1>3, <1>4, <1>5

\* clear and addAll make the list the answer, whatever its objects were.
LEMMA TakenCart ==
    ASSUME TypeInv, NEW b \in Batches, NEW c \in Carts, TakeList(b, c)
    PROVE  Cart' = c
<1>1. \A l \in Lines : Cart'[l] = c[l]
  BY DEF TakeList, Cart, TypeInv, TypeOK
<1>2. Cart' = [l \in Lines |-> Cart'[l]] /\ c = [l \in Lines |-> c[l]]
  BY DEF Cart, Carts
<1>3. QED
  BY <1>1, <1>2

LEMMA SameCart ==
    ASSUME UNCHANGED <<list, pcount>>
    PROVE  Cart' = Cart
BY DEF Cart

-----------------------------------------------------------------------------
(* An undisturbed list is the server's cart.  While requests are under way it *)
(* differs at most in lines whose counter has not been handled yet, on the    *)
(* objects the list still holds.                                              *)

Behind(l) == \E r \in Requests :
    /\ requests[r].kind = "count" /\ requests[r].at \in {"storage", "sent"}
    /\ requests[r].batch = list.batch /\ requests[r].line = l

InStep == current => \A l \in Lines : Cart[l] = server[l] \/ Behind(l)

LatestIsServers ==
    latest # NoRequest => requests[latest].at = "answered" /\ requests[latest].answer = server

OrderEmpties == \A r \in Requests :
    requests[r].kind = "order" /\ requests[r].at = "answered" => requests[r].answer = Empty

SyncInv == TypeInv /\ InStep /\ LatestIsServers /\ OrderEmpties

LEMMA BootCart ==
    ASSUME Init
    PROVE  Cart = server
<1>1. PICK b \in Batches :
        /\ list = [batch |-> b, lines |-> {l \in Lines : server[l] # 0}]
        /\ pcount = [c \in Batches |->
                       [l \in Lines |-> IF server[l] = 0 THEN 1 ELSE server[l]]]
  BY DEF Init
<1>2. \A l \in Lines : Cart[l] = server[l]
  BY <1>1 DEF Cart
<1>3. Cart = [l \in Lines |-> Cart[l]] /\ server = [l \in Lines |-> server[l]]
  BY DEF Cart, Init, Carts
<1>4. QED
  BY <1>2, <1>3

LEMMA SyncInit == Init => SyncInv
<1> SUFFICES ASSUME Init PROVE SyncInv
  OBVIOUS
<1>1. TypeInv
  BY TypeInit
<1>2. InStep
  BY BootCart DEF InStep
<1>3. LatestIsServers /\ OrderEmpties
  BY DEF Init, LatestIsServers, OrderEmpties, Idle
<1>4. QED
  BY <1>1, <1>2, <1>3 DEF SyncInv

\* A handler that begins a request, without touching the list.
LEMMA SyncBegin ==
    ASSUME SyncInv, NEW r \in Requests, NEW kind, NEW at \in {"storage", "sent"},
           NEW by, NEW b, NEW l, Begin(r, kind, at, by, b, l),
           UNCHANGED <<server, list, latest, current>>,
           current => \A m \in Lines : \/ Cart'[m] = Cart[m]
                                       \/ /\ m = l /\ kind = "count"
                                          /\ at = "storage" /\ b = list.batch
    PROVE  (InStep /\ LatestIsServers /\ OrderEmpties)'
<1>1. TypeInv /\ InStep /\ LatestIsServers /\ OrderEmpties
  BY DEF SyncInv
<1>2. /\ requests[r].at = "none"
      /\ requests'[r].kind = kind /\ requests'[r].at = at
      /\ requests'[r].batch = b /\ requests'[r].line = l
      /\ \A q \in Requests \ {r} : requests'[q] = requests[q]
  BY <1>1 DEF Begin, TypeInv, TypeOK
<1>3. ASSUME NEW m \in Lines, Behind(m)
      PROVE  Behind(m)'
  <2>1. PICK q \in Requests :
          /\ requests[q].kind = "count" /\ requests[q].at \in {"storage", "sent"}
          /\ requests[q].batch = list.batch /\ requests[q].line = m
    BY <1>3 DEF Behind
  <2>2. requests'[q] = requests[q]
    BY <1>2, <2>1
  <2>3. QED
    BY <2>1, <2>2 DEF Behind
<1>4. kind = "count" /\ at = "storage" /\ b = list.batch => Behind(l)'
  BY <1>2 DEF Behind
<1>5. InStep'
  BY <1>1, <1>3, <1>4 DEF InStep
<1>6. LatestIsServers' /\ OrderEmpties'
  BY <1>1, <1>2 DEF LatestIsServers, OrderEmpties, TypeInv, TypeOK
<1>7. QED
  BY <1>5, <1>6

LEMMA SyncPage ==
    ASSUME SyncInv, PageStep
    PROVE  (InStep /\ LatestIsServers /\ OrderEmpties)'
<1> USE DEF pageVars, histVars
<1>1. TypeInv /\ InStep /\ LatestIsServers /\ OrderEmpties
  BY DEF SyncInv
<1>2. ASSUME UNCHANGED <<server, list, pcount, requests, latest, current>>
      PROVE  (InStep /\ LatestIsServers /\ OrderEmpties)'
  <2>1. Cart' = Cart
    BY <1>2, SameCart
  <2>2. QED
    BY <1>1, <1>2, <2>1 DEF InStep, Behind, LatestIsServers, OrderEmpties
<1>3. CASE (\E v \in Views : OpenCart(v)) \/ LeaveCart \/ OpenCheckout \/ CloseCheckout
  BY <1>2, <1>3 DEF OpenCart, LeaveCart, OpenCheckout, CloseCheckout
<1>4. ASSUME NEW r \in Requests, NEW v \in Views, NEW l \in Lines, Counter(r, v, l)
      PROVE  (InStep /\ LatestIsServers /\ OrderEmpties)'
  <2>1. /\ ChangeCount(list.batch, l) /\ Begin(r, "count", "storage", v, list.batch, l)
        /\ UNCHANGED <<server, list, latest, current>> /\ list.batch \in Batches
    BY <1>1, <1>4 DEF Counter, TypeInv, TypeOK
  <2>2. \A m \in Lines : m # l => Cart'[m] = Cart[m]
    BY <1>1, <2>1, CountedCart
  <2>3. QED
    BY <2>1, <2>2, SyncBegin
<1>5. ASSUME NEW r \in Requests, NEW v \in Views, NEW l \in Lines, Removecartlist(r, v, l)
      PROVE  (InStep /\ LatestIsServers /\ OrderEmpties)'
  <2>1. Begin(r, "delete", "storage", v, NoBatch, l)
        /\ UNCHANGED <<server, list, latest, current>> /\ Cart' = Cart
    BY <1>5, SameCart DEF Removecartlist
  <2>2. QED
    BY <2>1, SyncBegin
<1>6. ASSUME NEW r \in Requests, NEW l \in Lines, Addcartlist(r, l)
      PROVE  (InStep /\ LatestIsServers /\ OrderEmpties)'
  <2>1. Begin(r, "add", "sent", NoView, NoBatch, l)
        /\ UNCHANGED <<server, list, latest, current>> /\ Cart' = Cart
    BY <1>6, SameCart DEF Addcartlist
  <2>2. QED
    BY <2>1, SyncBegin
<1>7. ASSUME NEW r \in Requests, NEW l \in Lines, CheckoutCounter(r, l)
      PROVE  (InStep /\ LatestIsServers /\ OrderEmpties)'
  <2>1. /\ ChangeCount(checkout.batch, l)
        /\ Begin(r, "count", "storage", NoView, checkout.batch, l)
        /\ UNCHANGED <<server, list, latest, current>> /\ checkout.batch \in Batches
    BY <1>1, <1>7 DEF CheckoutCounter, TypeInv, WellFormed
  <2>2. /\ \A m \in Lines : m # l => Cart'[m] = Cart[m]
        /\ checkout.batch # list.batch => Cart' = Cart
    BY <1>1, <2>1, CountedCart
  <2>3. QED
    BY <2>1, <2>2, SyncBegin
<1>8. ASSUME NEW r \in Requests, NEW l \in Lines, Removecartlistitem(r, l)
      PROVE  (InStep /\ LatestIsServers /\ OrderEmpties)'
  <2>1. Begin(r, "delete", "storage", NoView, NoBatch, l)
        /\ UNCHANGED <<server, list, latest, current>> /\ Cart' = Cart
    BY <1>8, SameCart DEF Removecartlistitem
  <2>2. QED
    BY <2>1, SyncBegin
<1>9. ASSUME NEW r \in Requests, Order(r)
      PROVE  (InStep /\ LatestIsServers /\ OrderEmpties)'
  <2>1. Begin(r, "order", "storage", NoView, NoBatch, NoLine)
        /\ UNCHANGED <<server, list, latest, current>> /\ Cart' = Cart
    BY <1>9, SameCart DEF Order
  <2>2. QED
    BY <2>1, SyncBegin
<1>10. QED
  BY <1>3, <1>4, <1>5, <1>6, <1>7, <1>8, <1>9 DEF PageStep

LEMMA SyncSend ==
    ASSUME SyncInv, NEW r \in Requests, Send(r)
    PROVE  (InStep /\ LatestIsServers /\ OrderEmpties)'
<1>1. TypeInv /\ InStep /\ LatestIsServers /\ OrderEmpties
  BY DEF SyncInv
<1>2. /\ requests[r].at = "storage" /\ requests'[r].at = "sent"
      /\ requests'[r].kind = requests[r].kind /\ requests'[r].batch = requests[r].batch
      /\ requests'[r].line = requests[r].line
      /\ \A q \in Requests \ {r} : requests'[q] = requests[q]
      /\ UNCHANGED <<server, list, pcount, latest, current>>
  BY <1>1 DEF Send, TypeInv, TypeOK, Request, pageVars, histVars
<1>3. Cart' = Cart
  BY <1>2, SameCart
<1>4. \A l \in Lines : Behind(l) => Behind(l)'
  BY <1>2 DEF Behind
<1>5. InStep'
  BY <1>1, <1>2, <1>3, <1>4 DEF InStep
<1>6. LatestIsServers' /\ OrderEmpties'
  BY <1>1, <1>2 DEF LatestIsServers, OrderEmpties, TypeInv, TypeOK
<1>7. QED
  BY <1>5, <1>6

LEMMA SyncServe ==
    ASSUME SyncInv, NEW r \in Requests, Serve(r)
    PROVE  (InStep /\ LatestIsServers /\ OrderEmpties)'
<1>1. TypeInv /\ OrderEmpties
  BY DEF SyncInv
<1>2. /\ requests' = [requests EXCEPT ![r] = [requests[r] EXCEPT !.at = "answered",
                                                                 !.answer = server']]
      /\ latest' = r /\ current' = FALSE
      /\ server' = Handled(requests[r])
  BY <1>1 DEF Serve, TypeInv, TypeOK
<1> DEFINE q == requests[r]  e == [q EXCEPT !.at = "answered", !.answer = server']
<1>3. e.at = "answered" /\ e.answer = server' /\ e.kind = q.kind
  <2>1. q \in Request
    BY <1>1 DEF TypeInv, TypeOK
  <2> HIDE DEF q
  <2>2. QED
    BY <2>1 DEF Request
<1>4. requests'[r] = e /\ \A p \in Requests \ {r} : requests'[p] = requests[p]
  BY <1>1, <1>2 DEF TypeInv, TypeOK
<1> HIDE DEF e
<1>5. requests[r].kind = "order" => server' = Empty
  BY <1>2 DEF Handled
<1>6. QED
  BY <1>1, <1>2, <1>3, <1>4, <1>5 DEF InStep, LatestIsServers, OrderEmpties

LEMMA SyncReply ==
    ASSUME SyncInv, NEW r \in Requests, NEW b \in Batches, Reply(r, b)
    PROVE  (InStep /\ LatestIsServers /\ OrderEmpties)'
<1>1. TypeInv /\ LatestIsServers /\ OrderEmpties
  BY DEF SyncInv
<1>2. requests[r].answer \in Carts /\ TakeList(b, requests[r].answer)
  BY <1>1 DEF Reply, TypeInv, TypeOK, Request
<1>3. Cart' = requests[r].answer
  BY <1>1, <1>2, TakenCart
<1>4. /\ requests'[r].at = "none"
      /\ \A q \in Requests \ {r} : requests'[q] = requests[q]
  BY <1>1, EndFrame DEF Reply
<1>5. /\ latest' = IF latest = r THEN NoRequest ELSE latest
      /\ current' = (latest = r) /\ server' = server
  BY DEF Reply, Forget
<1>6. InStep'
  BY <1>1, <1>3, <1>5, CartSyncAssumption DEF InStep, LatestIsServers
<1>7. LatestIsServers' /\ OrderEmpties'
  BY <1>1, <1>4, <1>5 DEF LatestIsServers, OrderEmpties, TypeInv, TypeOK
<1>8. QED
  BY <1>6, <1>7

LEMMA OrderedCart ==
    ASSUME TypeInv, list' = [list EXCEPT !.lines = {}]
    PROVE  Cart' = Empty
BY DEF TypeInv, TypeOK, Cart, Empty

LEMMA SyncOrderReply ==
    ASSUME SyncInv, NEW r \in Requests, NEW ok \in BOOLEAN, OrderReply(r, ok)
    PROVE  (InStep /\ LatestIsServers /\ OrderEmpties)'
<1>1. TypeInv /\ InStep /\ LatestIsServers /\ OrderEmpties
  BY DEF SyncInv
<1>2. /\ requests'[r].at = "none"
      /\ \A q \in Requests \ {r} : requests'[q] = requests[q]
  BY <1>1, EndFrame DEF OrderReply
<1>3. /\ latest' = IF latest = r THEN NoRequest ELSE latest
      /\ server' = server /\ pcount' = pcount
      /\ requests[r].kind = "order"
  BY DEF OrderReply, Forget
<1>4. InStep'
  <2>1. CASE ok
    <3>1. Cart' = Empty /\ requests[r].at = "answered" /\ current' = (latest = r)
      BY <1>1, <2>1, OrderedCart DEF OrderReply
    <3>2. QED
      BY <1>1, <1>3, <3>1, CartSyncAssumption DEF InStep, LatestIsServers, OrderEmpties
  <2>2. CASE ~ok
    <3>1. list' = list /\ current' = current
      BY <2>2 DEF OrderReply
    <3>2. Cart' = Cart
      BY <1>3, <3>1, SameCart
    <3>3. \A l \in Lines : Behind(l) => Behind(l)'
      BY <1>2, <1>3, <3>1 DEF Behind
    <3>4. QED
      BY <1>1, <1>3, <3>1, <3>2, <3>3 DEF InStep
  <2>3. QED
    BY <2>1, <2>2
<1>5. LatestIsServers' /\ OrderEmpties'
  BY <1>1, <1>2, <1>3 DEF LatestIsServers, OrderEmpties, TypeInv, TypeOK
<1>6. QED
  BY <1>4, <1>5

LEMMA SyncFail ==
    ASSUME SyncInv, NEW r \in Requests, Fail(r)
    PROVE  (InStep /\ LatestIsServers /\ OrderEmpties)'
<1>1. TypeInv /\ InStep /\ LatestIsServers /\ OrderEmpties
  BY DEF SyncInv
<1>2. /\ requests'[r].at = "none"
      /\ \A q \in Requests \ {r} : requests'[q] = requests[q]
  BY <1>1, EndFrame DEF Fail
<1>3. /\ latest' = IF latest = r THEN NoRequest ELSE latest
      /\ UNCHANGED <<server, list, pcount>>
      /\ current' = (current /\ requests[r].kind # "count")
  BY DEF Fail, Forget
<1>4. Cart' = Cart
  BY <1>3, SameCart
<1>5. requests[r].kind # "count" => \A l \in Lines : Behind(l) => Behind(l)'
  BY <1>2, <1>3 DEF Behind
<1>6. InStep'
  BY <1>1, <1>3, <1>4, <1>5 DEF InStep
<1>7. LatestIsServers' /\ OrderEmpties'
  BY <1>1, <1>2, <1>3 DEF LatestIsServers, OrderEmpties, TypeInv, TypeOK
<1>8. QED
  BY <1>6, <1>7

LEMMA SyncStep == SyncInv /\ [Next]_vars => SyncInv'
<1> SUFFICES ASSUME SyncInv, [Next]_vars PROVE SyncInv'
  OBVIOUS
<1>1. TypeInv'
  BY TypeStep DEF SyncInv
<1>2. CASE UNCHANGED vars
  <2>1. Cart' = Cart
    BY <1>2, SameCart DEF vars
  <2>2. QED
    BY <1>1, <1>2, <2>1
    DEF vars, histVars, SyncInv, InStep, Behind, LatestIsServers, OrderEmpties
<1>3. CASE PageStep
  BY <1>1, <1>3, SyncPage DEF SyncInv
<1>4. ASSUME NEW r \in Requests, Progress(r) \/ Fail(r)
      PROVE  SyncInv'
  BY <1>1, <1>4, SyncSend, SyncServe, SyncReply, SyncOrderReply, SyncFail
  DEF Progress, SyncInv
<1>5. QED
  BY <1>2, <1>3, <1>4 DEF Next

\* A list last replaced by the answer to the request the server handled last is
\* the server's cart as soon as nothing is under way.
THEOREM CurrentCorrect == Spec => []CurrentIsServers
<1>1. Spec => []SyncInv
  BY SyncInit, SyncStep, PTL DEF Spec
<1>2. SyncInv => CurrentIsServers
  <2> SUFFICES ASSUME SyncInv, current, \A r \in Requests : requests[r].at = "none"
               PROVE  Cart = server
    BY DEF CurrentIsServers
  <2>1. \A l \in Lines : Cart[l] = server[l]
    BY DEF SyncInv, InStep, Behind
  <2>2. Cart = [l \in Lines |-> Cart[l]] /\ server = [l \in Lines |-> server[l]]
    BY DEF Cart, SyncInv, TypeInv, TypeOK, Carts
  <2>3. QED
    BY <2>1, <2>2
<1>3. QED
  BY <1>1, <1>2, PTL

-----------------------------------------------------------------------------
(* CartSync implements CartCopy: the answers on their way are its answers, and *)
(* the list, as quantities, is its copy.                                      *)

Copied == <<server, Cart, Answers>>

\* Nothing CartCopy sees.
LEMMA Unseen ==
    ASSUME TypeInv, UNCHANGED <<server, list, pcount>>,
           \A r \in Requests : /\ requests'[r].at = "answered" <=> requests[r].at = "answered"
                               /\ requests[r].at = "answered" =>
                                    requests'[r].answer = requests[r].answer
    PROVE  UNCHANGED Copied
<1>1. Cart' = Cart
  BY SameCart
<1>2. Answers' = Answers
  BY DEF Answers
<1>3. QED
  BY <1>1, <1>2 DEF Copied

LEMMA BeginAnswers ==
    ASSUME TypeInv, NEW r \in Requests, NEW kind, NEW at \in {"storage", "sent"},
           NEW by, NEW b, NEW l, Begin(r, kind, at, by, b, l)
    PROVE  /\ Answers' = Answers
           /\ \A q \in Requests : /\ requests'[q].at = "answered" <=> requests[q].at = "answered"
                                  /\ requests[q].at = "answered" =>
                                       requests'[q].answer = requests[q].answer
<1>1. /\ requests[r].at = "none" /\ requests'[r].at = at
      /\ \A q \in Requests \ {r} : requests'[q] = requests[q]
  BY DEF Begin, TypeInv, TypeOK
<1>2. \A q \in Requests : /\ requests'[q].at = "answered" <=> requests[q].at = "answered"
                          /\ requests[q].at = "answered" =>
                               requests'[q].answer = requests[q].answer
  BY <1>1
<1>3. QED
  BY <1>2 DEF Answers

LEMMA EndAnswers ==
    ASSUME TypeInv, NEW r \in Requests, End(r)
    PROVE  Answers' = [Answers EXCEPT ![r] = {}]
<1>1. /\ requests'[r].at = "none"
      /\ \A q \in Requests \ {r} : requests'[q] = requests[q]
  BY EndFrame
<1>2. QED
  BY <1>1 DEF Answers

LEMMA CounterCopies ==
    ASSUME TypeInv, NEW b \in Batches, NEW l \in Lines, ChangeCount(b, l),
           UNCHANGED <<server, list>>, Answers' = Answers
    PROVE  Copy!Next \/ UNCHANGED Copied
<1>1. /\ b # list.batch \/ l \notin list.lines => Cart' = Cart
      /\ b = list.batch /\ l \in list.lines =>
           /\ Cart[l] \in Qty /\ Cart'[l] \in Qty
           /\ Cart'[l] - Cart[l] \in {-1, 1}
           /\ Cart' = [Cart EXCEPT ![l] = Cart'[l]]
  BY CountedCart
<1>2. CASE b # list.batch \/ l \notin list.lines
  BY <1>1, <1>2 DEF Copied
<1>3. CASE b = list.batch /\ l \in list.lines
  <2>1. Copy!Tap(l)
    BY <1>1, <1>3 DEF Copy!Tap, Answers, Qty
  <2>2. QED
    BY <2>1 DEF Copy!Next
<1>4. QED
  BY <1>2, <1>3

LEMMA PageCopies ==
    ASSUME TypeInv, PageStep
    PROVE  Copy!Next \/ UNCHANGED Copied
<1> USE DEF pageVars, histVars
<1>1. CASE (\E v \in Views : OpenCart(v)) \/ LeaveCart \/ OpenCheckout \/ CloseCheckout
  BY <1>1, Unseen DEF OpenCart, LeaveCart, OpenCheckout, CloseCheckout
<1>2. ASSUME NEW r \in Requests, NEW v \in Views, NEW l \in Lines, Counter(r, v, l)
      PROVE  Copy!Next \/ UNCHANGED Copied
  <2>1. /\ ChangeCount(list.batch, l) /\ Begin(r, "count", "storage", v, list.batch, l)
        /\ UNCHANGED <<server, list>> /\ list.batch \in Batches
    BY <1>2 DEF Counter, TypeInv, TypeOK
  <2>2. Answers' = Answers
    BY <2>1, BeginAnswers
  <2>3. QED
    BY <2>1, <2>2, CounterCopies
<1>3. ASSUME NEW r \in Requests, NEW l \in Lines, CheckoutCounter(r, l)
      PROVE  Copy!Next \/ UNCHANGED Copied
  <2>1. /\ ChangeCount(checkout.batch, l)
        /\ Begin(r, "count", "storage", NoView, checkout.batch, l)
        /\ UNCHANGED <<server, list>> /\ checkout.batch \in Batches
    BY <1>3 DEF CheckoutCounter, TypeInv, WellFormed
  <2>2. Answers' = Answers
    BY <2>1, BeginAnswers
  <2>3. QED
    BY <2>1, <2>2, CounterCopies
<1>4. ASSUME NEW r \in Requests, NEW kind, NEW at \in {"storage", "sent"}, NEW by, NEW b,
             NEW l, Begin(r, kind, at, by, b, l), UNCHANGED <<server, list, pcount>>
      PROVE  UNCHANGED Copied
  <2>1. Answers' = Answers
    BY <1>4, BeginAnswers
  <2>2. Cart' = Cart
    BY <1>4, SameCart
  <2>3. QED
    BY <1>4, <2>1, <2>2 DEF Copied
<1>5. ASSUME NEW r \in Requests, NEW v \in Views, NEW l \in Lines, Removecartlist(r, v, l)
      PROVE  UNCHANGED Copied
  BY <1>4, <1>5 DEF Removecartlist
<1>6. ASSUME NEW r \in Requests, NEW l \in Lines, Addcartlist(r, l)
      PROVE  UNCHANGED Copied
  BY <1>4, <1>6 DEF Addcartlist
<1>7. ASSUME NEW r \in Requests, NEW l \in Lines, Removecartlistitem(r, l)
      PROVE  UNCHANGED Copied
  BY <1>4, <1>7 DEF Removecartlistitem
<1>8. ASSUME NEW r \in Requests, Order(r)
      PROVE  UNCHANGED Copied
  BY <1>4, <1>8 DEF Order
<1>9. QED
  BY <1>1, <1>2, <1>3, <1>5, <1>6, <1>7, <1>8 DEF PageStep

LEMMA SendCopies ==
    ASSUME TypeInv, NEW r \in Requests, Send(r)
    PROVE  UNCHANGED Copied
<1>1. /\ requests[r].at = "storage" /\ requests'[r].at = "sent"
      /\ \A q \in Requests \ {r} : requests'[q] = requests[q]
      /\ UNCHANGED <<server, list, pcount>>
  BY DEF Send, TypeInv, TypeOK, Request
<1>2. QED
  BY <1>1, Unseen

LEMMA ServeCopies ==
    ASSUME TypeInv, NEW r \in Requests, Serve(r)
    PROVE  Copy!Handle(r)
<1>1. requests' = [requests EXCEPT ![r] = [requests[r] EXCEPT !.at = "answered",
                                                              !.answer = server']]
  BY DEF Serve, TypeInv, TypeOK
<1>2. requests'[r].at = "answered" /\ requests'[r].answer = server'
  <2>1. requests[r] \in Request
    BY DEF TypeInv, TypeOK
  <2>2. [requests[r] EXCEPT !.at = "answered", !.answer = server'].at = "answered"
        /\ [requests[r] EXCEPT !.at = "answered", !.answer = server'].answer = server'
    BY <2>1 DEF Request
  <2>3. QED
    BY <1>1, <2>2 DEF TypeInv, TypeOK
<1>3. \A q \in Requests \ {r} : requests'[q] = requests[q]
  BY <1>1 DEF TypeInv, TypeOK
<1>4. Answers[r] = {} /\ Answers' = [Answers EXCEPT ![r] = {server'}]
  BY <1>2, <1>3 DEF Answers, Serve
<1>5. Cart' = Cart
  BY SameCart DEF Serve
<1>6. server' \in Carts
  BY HandledType DEF Serve, TypeInv, TypeOK
<1>7. QED
  BY <1>4, <1>5, <1>6 DEF Copy!Handle, Copy!Carts, Carts, Answers

LEMMA ReplyCopies ==
    ASSUME TypeInv, NEW r \in Requests, NEW b \in Batches, Reply(r, b)
    PROVE  Copy!Take(r)
<1>1. requests[r].answer \in Carts /\ TakeList(b, requests[r].answer) /\ End(r)
  BY DEF Reply, TypeInv, TypeOK, Request
<1>2. Answers[r] = {Cart'}
  BY <1>1, TakenCart DEF Answers, Reply
<1>3. Answers' = [Answers EXCEPT ![r] = {}]
  BY <1>1, EndAnswers
<1>4. QED
  BY <1>2, <1>3 DEF Copy!Take, Answers, Reply

LEMMA OrderReplyCopies ==
    ASSUME TypeInv, OrderEmpties, NEW r \in Requests, NEW ok \in BOOLEAN, OrderReply(r, ok)
    PROVE  Copy!Take(r) \/ Copy!Lose(r)
<1>1. Answers' = [Answers EXCEPT ![r] = {}]
  BY EndAnswers DEF OrderReply
<1>2. CASE ok
  <2>1. Cart' = Empty /\ requests[r].at = "answered" /\ requests[r].answer = Empty
    BY <1>2, OrderedCart DEF OrderReply, OrderEmpties
  <2>2. QED
    BY <1>1, <2>1 DEF Copy!Take, Answers, OrderReply
<1>3. CASE ~ok
  <2>1. Cart' = Cart
    BY <1>3, SameCart DEF OrderReply
  <2>2. QED
    BY <1>1, <2>1 DEF Copy!Lose, Answers, OrderReply
<1>4. QED
  BY <1>2, <1>3

LEMMA FailCopies ==
    ASSUME TypeInv, NEW r \in Requests, Fail(r)
    PROVE  Copy!Lose(r)
<1>1. Answers' = [Answers EXCEPT ![r] = {}]
  BY EndAnswers DEF Fail
<1>2. Cart' = Cart
  BY SameCart DEF Fail
<1>3. QED
  BY <1>1, <1>2 DEF Copy!Lose, Answers, Fail

LEMMA CopyInit == Init => Copy!Init
<1> SUFFICES ASSUME Init PROVE Copy!Init
  OBVIOUS
<1>1. Cart = server
  BY BootCart
<1>2. Answers = [r \in Requests |-> {}]
  BY DEF Init, Answers, Idle
<1>3. QED
  BY <1>1, <1>2 DEF Copy!Init, Copy!Carts, Init, Carts, Answers

LEMMA CopyStep == SyncInv /\ [Next]_vars => [Copy!Next]_Copied
<1> SUFFICES ASSUME SyncInv, [Next]_vars PROVE [Copy!Next]_Copied
  OBVIOUS
<1>1. TypeInv /\ OrderEmpties
  BY DEF SyncInv
<1>2. CASE UNCHANGED vars
  BY <1>1, <1>2, Unseen DEF vars
<1>3. CASE PageStep
  BY <1>1, <1>3, PageCopies
<1>4. ASSUME NEW r \in Requests, Progress(r) \/ Fail(r)
      PROVE  Copy!Next \/ UNCHANGED Copied
  <2>1. CASE Send(r)
    BY <1>1, <2>1, SendCopies
  <2>2. CASE Serve(r)
    BY <1>1, <2>2, ServeCopies DEF Copy!Next
  <2>3. CASE \E b \in Batches : Reply(r, b)
    BY <1>1, <2>3, ReplyCopies DEF Copy!Next
  <2>4. CASE \E ok \in BOOLEAN : OrderReply(r, ok)
    BY <1>1, <2>4, OrderReplyCopies DEF Copy!Next
  <2>5. CASE Fail(r)
    BY <1>1, <2>5, FailCopies DEF Copy!Next
  <2>6. QED
    BY <1>4, <2>1, <2>2, <2>3, <2>4, <2>5 DEF Progress
<1>5. QED
  BY <1>2, <1>3, <1>4 DEF Next

\* The list is only ever replaced by one whole answer, each answer is used at
\* most once, and a tap changes one quantity by one within the limits, whichever
\* pages come and go and however requests overlap, fail and overtake each other.
THEOREM Refines == Spec => IsCartCopy
<1>1. Spec => []SyncInv
  BY SyncInit, SyncStep, PTL DEF Spec
<1>2. SyncInv /\ [Next]_vars => [Copy!Next]_<<server, Cart, Answers>>
  BY CopyStep DEF Copied
<1>3. QED
  BY <1>1, <1>2, CopyInit, PTL DEF Spec, IsCartCopy, Copy!Spec

-----------------------------------------------------------------------------
(* The total under the list.  TotalMatchesList is inductive: each tap has a *)
(* request of the page behind it, each answer of the page adds up the list  *)
(* it brings, and whatever else changes the list is recorded.               *)

\* A step that leaves list, page and total alone and ends no counter unrecorded.
LEMMA TotalKept ==
    ASSUME TotalMatchesList, UNCHANGED <<view, cartPage>>,
           Cart' = Cart \/ astray', astray => astray',
           \A r \in Requests : requests[r].at # "none" /\ requests[r].kind = "count" =>
               \/ astray'
               \/ /\ requests'[r].at # "none" /\ requests'[r].kind = "count"
                  /\ requests'[r].by = requests[r].by
    PROVE  TotalMatchesList'
BY DEF TotalMatchesList, CounterUnderWay

LEMMA BeginKeeps ==
    ASSUME TypeInv, NEW r \in Requests, NEW kind, NEW at, NEW by, NEW b, NEW l,
           Begin(r, kind, at, by, b, l)
    PROVE  \A q \in Requests : requests[q].at # "none" => requests'[q] = requests[q]
BY DEF Begin, TypeInv, TypeOK

LEMMA TotalPage ==
    ASSUME TypeInv, TotalMatchesList, PageStep
    PROVE  TotalMatchesList'
<1> USE DEF pageVars, histVars
<1>1. ASSUME NEW v \in Views, OpenCart(v)
      PROVE  TotalMatchesList'
  <2>1. view'[v].total = Total(Cart) /\ cartPage' = v
    BY <1>1 DEF OpenCart, TypeInv, TypeOK
  <2>2. Cart' = Cart
    BY <1>1, SameCart DEF OpenCart
  <2>3. QED
    BY <2>1, <2>2 DEF TotalMatchesList
<1>2. CASE LeaveCart
  BY <1>2 DEF LeaveCart, TotalMatchesList
<1>3. CASE OpenCheckout \/ CloseCheckout
  BY <1>3, TotalKept, SameCart DEF OpenCheckout, CloseCheckout
<1>4. ASSUME NEW r \in Requests, NEW v \in Views, NEW l \in Lines, Counter(r, v, l)
      PROVE  TotalMatchesList'
  <2>1. requests'[r].at = "storage" /\ requests'[r].kind = "count" /\ requests'[r].by = v
    BY <1>4 DEF Counter, Begin, TypeInv, TypeOK
  <2>2. cartPage' = v
    BY <1>4 DEF Counter, CanTap
  <2>3. CounterUnderWay(cartPage)'
    BY <2>1, <2>2 DEF CounterUnderWay
  <2>4. QED
    BY <2>3 DEF TotalMatchesList
<1>5. ASSUME NEW r \in Requests, NEW kind, NEW at, NEW by, NEW b, NEW l,
             Begin(r, kind, at, by, b, l), UNCHANGED <<list, pcount, view, cartPage, astray>>
      PROVE  TotalMatchesList'
  <2>1. \A q \in Requests : requests[q].at # "none" => requests'[q] = requests[q]
    BY <1>5, BeginKeeps
  <2>2. QED
    BY <1>5, <2>1, TotalKept, SameCart
<1>6. ASSUME NEW r \in Requests, NEW v \in Views, NEW l \in Lines, Removecartlist(r, v, l)
      PROVE  TotalMatchesList'
  <2>1. Begin(r, "delete", "storage", v, NoBatch, l)
    BY <1>6 DEF Removecartlist
  <2>2. \A q \in Requests : requests[q].at # "none" => requests'[q] = requests[q]
    BY <2>1, BeginKeeps
  <2>3. Cart' = Cart /\ cartPage' = v /\ cartPage = v /\ view'[v].total = view[v].total
        /\ astray' = astray
    BY <1>6, SameCart DEF Removecartlist, CanTap, TypeInv, TypeOK, View
  <2>4. QED
    BY <2>2, <2>3 DEF TotalMatchesList, CounterUnderWay
<1>7. ASSUME NEW r \in Requests, NEW l \in Lines, Addcartlist(r, l)
      PROVE  TotalMatchesList'
  BY <1>5, <1>7 DEF Addcartlist
<1>8. ASSUME NEW r \in Requests, NEW l \in Lines, CheckoutCounter(r, l)
      PROVE  TotalMatchesList'
  <2>1. /\ ChangeCount(checkout.batch, l) /\ checkout.batch \in Batches
        /\ Begin(r, "count", "storage", NoView, checkout.batch, l)
        /\ UNCHANGED <<list, view, cartPage>>
        /\ astray' = (astray \/ checkout.batch = list.batch)
    BY <1>8 DEF CheckoutCounter, TypeInv, WellFormed
  <2>2. \A q \in Requests : requests[q].at # "none" => requests'[q] = requests[q]
    BY <2>1, BeginKeeps
  <2>3. checkout.batch # list.batch => Cart' = Cart
    BY <2>1, CountedCart
  <2>4. QED
    BY <2>1, <2>2, <2>3, TotalKept
<1>9. ASSUME NEW r \in Requests, NEW l \in Lines, Removecartlistitem(r, l)
      PROVE  TotalMatchesList'
  <2>1. CASE checkout.lines = {l}
    BY <1>9, <2>1 DEF Removecartlistitem, TotalMatchesList
  <2>2. CASE checkout.lines # {l}
    BY <1>5, <1>9, <2>2 DEF Removecartlistitem
  <2>3. QED
    BY <2>1, <2>2
<1>10. ASSUME NEW r \in Requests, Order(r)
       PROVE  TotalMatchesList'
  BY <1>5, <1>10 DEF Order
<1>11. QED
  BY <1>1, <1>2, <1>3, <1>4, <1>6, <1>7, <1>8, <1>9, <1>10 DEF PageStep

LEMMA TotalReply ==
    ASSUME TypeInv, NEW r \in Requests, NEW b \in Batches, Reply(r, b)
    PROVE  TotalMatchesList'
<1> SUFFICES ASSUME cartPage' # NoView, ~astray'
             PROVE  view'[cartPage'].total = Total(Cart')
  BY DEF TotalMatchesList
<1>1. cartPage' = cartPage /\ requests[r].by = cartPage
  BY DEF Reply
<1>2. requests[r].answer \in Carts /\ TakeList(b, requests[r].answer)
  BY DEF Reply, TypeInv, TypeOK, Request
<1>3. Cart' = requests[r].answer
  BY <1>2, TakenCart
<1>4. cartPage \in Views
  BY <1>1 DEF TypeInv, TypeOK
<1>5. view'[cartPage].total = Total(requests[r].answer)
  BY <1>1, <1>4 DEF Reply, TypeInv, TypeOK, View
<1>6. QED
  BY <1>1, <1>3, <1>5

LEMMA TotalProgress ==
    ASSUME TypeInv, TotalMatchesList, NEW r \in Requests, Progress(r) \/ Fail(r)
    PROVE  TotalMatchesList'
<1> USE DEF pageVars, histVars
<1>1. CASE Send(r) \/ Serve(r)
  <2>1. \A q \in Requests : /\ requests'[q].kind = requests[q].kind
                            /\ requests'[q].by = requests[q].by
                            /\ requests[q].at # "none" => requests'[q].at # "none"
    BY <1>1 DEF Send, Serve, TypeInv, TypeOK, Request
  <2>2. Cart' = Cart /\ UNCHANGED <<view, cartPage, astray>>
    BY <1>1, SameCart DEF Send, Serve
  <2>3. QED
    BY <2>1, <2>2, TotalKept
<1>2. CASE \E b \in Batches : Reply(r, b)
  BY <1>2, TotalReply
<1>3. CASE \E ok \in BOOLEAN : OrderReply(r, ok)
  BY <1>3 DEF OrderReply, TotalMatchesList
<1>4. CASE Fail(r)
  <2>1. Cart' = Cart /\ UNCHANGED <<view, cartPage>>
        /\ astray' = (astray \/ requests[r].kind = "count")
    BY <1>4, SameCart DEF Fail
  <2>2. \A q \in Requests \ {r} : requests'[q] = requests[q]
    BY <1>4, EndFrame DEF Fail
  <2>3. QED
    BY <2>1, <2>2, TotalKept
<1>5. QED
  BY <1>1, <1>2, <1>3, <1>4 DEF Progress

\* The total under the cart page's list is the list's, unless one of its own
\* counters is under way or something else changed the list under the page.
THEOREM TotalCorrect == Spec => []TotalMatchesList
<1>1. Init => TotalMatchesList
  BY DEF Init, TotalMatchesList
<1>2. TypeInv /\ TotalMatchesList /\ [Next]_vars => TotalMatchesList'
  <2> SUFFICES ASSUME TypeInv, TotalMatchesList, [Next]_vars PROVE TotalMatchesList'
    OBVIOUS
  <2>1. CASE UNCHANGED vars
    <3>1. Cart' = Cart /\ UNCHANGED <<view, cartPage, astray, requests>>
      BY <2>1, SameCart DEF vars, pageVars, histVars
    <3>2. QED
      BY <3>1, TotalKept
  <2>2. QED
    BY <2>1, TotalPage, TotalProgress DEF Next
<1>3. Spec => []TypeInv
  BY TypeInit, TypeStep, PTL DEF Spec
<1>4. QED
  BY <1>1, <1>2, <1>3, PTL DEF Spec

-----------------------------------------------------------------------------
(* The badge.  While answers come one at a time, the only one on its way is the *)
(* server's cart, and a counter's has the list's lines.                        *)

LinesOf(c) == {l \in Lines : c[l] # 0}

Answered(r) == requests[r].at = "answered"

BadgeInv == straight =>
    /\ count = Cardinality(list.lines)
    /\ (\A r \in Requests : ~Answered(r)) => list.lines = LinesOf(server)
    /\ \A r \in Requests : Answered(r) /\ Alone(r) =>
         /\ requests[r].answer = server
         /\ requests[r].kind = "count" => list.lines = LinesOf(server)

\* A step the badge does not depend on.
LEMMA BadgeKept ==
    ASSUME BadgeInv, straight' => straight, UNCHANGED <<count, list, server>>,
           straight' => \A r \in Requests :
               /\ requests'[r].at = "answered" <=> requests[r].at = "answered"
               /\ requests[r].at = "answered" =>
                    /\ requests'[r].kind = requests[r].kind
                    /\ requests'[r].answer = requests[r].answer
    PROVE  BadgeInv'
BY DEF BadgeInv, Answered, Alone

LEMMA BeginBadge ==
    ASSUME TypeInv, BadgeInv, NEW r \in Requests, NEW kind, NEW at \in {"storage", "sent"},
           NEW by, NEW b, NEW l, Begin(r, kind, at, by, b, l),
           UNCHANGED <<count, list, server, straight>>
    PROVE  BadgeInv'
<1>1. /\ requests[r].at = "none" /\ requests'[r].at = at
      /\ \A q \in Requests \ {r} : requests'[q] = requests[q]
  BY DEF Begin, TypeInv, TypeOK
<1>2. QED
  BY <1>1, BadgeKept

LEMMA BadgePage ==
    ASSUME TypeInv, BadgeInv, PageStep
    PROVE  BadgeInv'
<1> USE DEF pageVars, histVars
<1>1. CASE (\E v \in Views : OpenCart(v)) \/ LeaveCart \/ OpenCheckout \/ CloseCheckout
  BY <1>1, BadgeKept DEF OpenCart, LeaveCart, OpenCheckout, CloseCheckout
<1>2. ASSUME NEW r \in Requests, NEW v \in Views, NEW l \in Lines,
             Counter(r, v, l) \/ Removecartlist(r, v, l)
      PROVE  BadgeInv'
  BY <1>2, BeginBadge DEF Counter, Removecartlist
<1>3. ASSUME NEW r \in Requests, NEW l \in Lines,
             Addcartlist(r, l) \/ CheckoutCounter(r, l) \/ Removecartlistitem(r, l)
      PROVE  BadgeInv'
  BY <1>3, BeginBadge DEF Addcartlist, CheckoutCounter, Removecartlistitem
<1>4. ASSUME NEW r \in Requests, Order(r)
      PROVE  BadgeInv'
  BY <1>4, BeginBadge DEF Order
<1>5. QED
  BY <1>1, <1>2, <1>3, <1>4 DEF PageStep

LEMMA BadgeServe ==
    ASSUME TypeInv, BadgeInv, NEW r \in Requests, Serve(r)
    PROVE  BadgeInv'
<1>1. /\ requests' = [requests EXCEPT ![r] = [requests[r] EXCEPT !.at = "answered",
                                                                 !.answer = server']]
      /\ requests[r] \in Request /\ requests[r].at = "sent"
  BY DEF Serve, TypeInv, TypeOK
<1>2. /\ requests'[r].at = "answered" /\ requests'[r].answer = server'
      /\ requests'[r].kind = requests[r].kind
  <2>1. ASSUME NEW q \in Request, NEW c
        PROVE  LET e == [q EXCEPT !.at = "answered", !.answer = c]
               IN  e.at = "answered" /\ e.answer = c /\ e.kind = q.kind
    BY DEF Request
  <2>2. QED
    BY <1>1, <2>1 DEF TypeInv, TypeOK
<1>3. \A q \in Requests \ {r} : requests'[q] = requests[q]
  BY <1>1 DEF TypeInv, TypeOK
<1>4. UNCHANGED <<list, count, straight>>
  BY DEF Serve, pageVars
<1>5. SUFFICES ASSUME straight
               PROVE  \A q \in Requests : Answered(q)' /\ Alone(q)' =>
                        /\ requests'[q].answer = server'
                        /\ requests'[q].kind = "count" => list.lines = LinesOf(server)'
  BY <1>2, <1>4 DEF BadgeInv, Answered
<1>6. SUFFICES ASSUME Alone(r)', requests[r].kind = "count"
               PROVE  list.lines = LinesOf(server)'
  BY <1>2, <1>3 DEF Answered, Alone
<1>7. list.lines = LinesOf(server)
  <2>1. \A q \in Requests : ~Answered(q)
    BY <1>1, <1>3, <1>6 DEF Answered, Alone
  <2>2. QED
    BY <1>5, <2>1 DEF BadgeInv
<1>8. server' = [server EXCEPT ![requests[r].line] =
                   IF server[requests[r].line] = 0 THEN 0 ELSE requests[r].n]
  BY <1>6 DEF Serve, Handled
<1>9. requests[r].n # 0 /\ server \in Carts
  BY <1>1 DEF Request, Qty, TypeInv, TypeOK
<1>10. \A l \in Lines : server'[l] # 0 <=> server[l] # 0
  BY <1>8, <1>9 DEF Carts
<1>11. QED
  BY <1>7, <1>10 DEF LinesOf

LEMMA BadgeReply ==
    ASSUME TypeInv, BadgeInv, NEW r \in Requests, NEW b \in Batches, Reply(r, b)
    PROVE  BadgeInv'
<1> SUFFICES ASSUME straight' PROVE BadgeInv'
  BY DEF BadgeInv
<1>1. /\ straight /\ Alone(r) /\ Answered(r)
      /\ requests[r].kind = "delete" => requests[r].by # NoView
      /\ requests[r].kind \in {"delete", "count", "add"}
  BY DEF Reply, Answered, TypeInv, TypeOK, Request
<1>2. /\ requests[r].answer = server
      /\ requests[r].kind = "count" => list.lines = LinesOf(server)
      /\ count = Cardinality(list.lines)
  BY <1>1 DEF BadgeInv
<1>3. list'.lines = LinesOf(server)
  BY <1>2 DEF Reply, TakeList, LinesOf
<1>4. count' = Cardinality(list'.lines)
  BY <1>1, <1>2, <1>3 DEF Reply, Counted
<1>5. \A q \in Requests : requests'[q].at # "answered"
  <2>1. /\ requests'[r].at = "none"
        /\ \A q \in Requests \ {r} : requests'[q] = requests[q]
    BY EndFrame DEF Reply
  <2>2. QED
    BY <1>1, <2>1 DEF Alone
<1>6. server' = server
  BY DEF Reply
<1>7. QED
  BY <1>3, <1>4, <1>5, <1>6 DEF BadgeInv, Answered, LinesOf

LEMMA BadgeProgress ==
    ASSUME TypeInv, BadgeInv, NEW r \in Requests, Progress(r) \/ Fail(r)
    PROVE  BadgeInv'
<1> USE DEF pageVars, histVars
<1>1. CASE Send(r)
  <2>1. /\ requests[r].at = "storage" /\ requests'[r].at = "sent"
        /\ \A q \in Requests \ {r} : requests'[q] = requests[q]
    BY <1>1 DEF Send, TypeInv, TypeOK, Request
  <2>2. QED
    BY <1>1, <2>1, BadgeKept DEF Send
<1>2. CASE Serve(r)
  BY <1>2, BadgeServe
<1>3. CASE \E b \in Batches : Reply(r, b)
  BY <1>3, BadgeReply
<1>4. CASE \E ok \in BOOLEAN : OrderReply(r, ok)
  BY <1>4 DEF OrderReply, BadgeInv
<1>5. CASE Fail(r)
  <2>1. /\ requests'[r].at = "none"
        /\ \A q \in Requests \ {r} : requests'[q] = requests[q]
    BY <1>5, EndFrame DEF Fail
  <2>2. QED
    BY <1>5, <2>1, BadgeKept DEF Fail
<1>6. QED
  BY <1>1, <1>2, <1>3, <1>4, <1>5 DEF Progress

\* The badge counts the lines of the list while answers come one at a time and
\* the Placeorder page removes and orders nothing.
THEOREM BadgeCorrect == Spec => []BadgeCountsList
<1>1. Init => BadgeInv
  <2> SUFFICES ASSUME Init PROVE BadgeInv
    OBVIOUS
  <2>1. count = Cardinality(list.lines) /\ list.lines = LinesOf(server)
    BY DEF Init, LinesOf
  <2>2. \A r \in Requests : ~Answered(r)
    BY DEF Init, Answered, Idle
  <2>3. QED
    BY <2>1, <2>2 DEF BadgeInv
<1>2. TypeInv /\ BadgeInv /\ [Next]_vars => BadgeInv'
  <2> SUFFICES ASSUME TypeInv, BadgeInv, [Next]_vars PROVE BadgeInv'
    OBVIOUS
  <2>1. CASE UNCHANGED vars
    BY <2>1, BadgeKept DEF vars, pageVars, histVars
  <2>2. QED
    BY <2>1, BadgePage, BadgeProgress DEF Next
<1>3. BadgeInv => BadgeCountsList
  BY DEF BadgeInv, BadgeCountsList
<1>4. Spec => []TypeInv
  BY TypeInit, TypeStep, PTL DEF Spec
<1>5. QED
  BY <1>1, <1>2, <1>3, <1>4, PTL DEF Spec
===============================================================================
