------------------------------- MODULE CartSync -------------------------------
(***************************************************************************)
(* The server's cart and the application's copy of it, constantcartData-   *)
(* Response: the cart page (fragments/Cart.dart), the count badge of the   *)
(* app bar, and the cart requests of the Placeorder and product pages.     *)
(*                                                                         *)
(* Every request is answered with the whole cart.  Several may be under    *)
(* way, of pages that may be gone, and answers come in any order.          *)
(* Products have one colour in the cart: the Placeorder page's requests,   *)
(* which name no colour, then mean one line.                               *)
(***************************************************************************)
EXTENDS Integers, FiniteSets, FiniteSetsExt

CONSTANTS
    Lines, NoLine,      \* cart lines, one per product and colour
    MaxQty,             \* the counter's upper limit, 10 in the code
    Rate,               \* productDiscountRate of a line
    Views, NoView,      \* cart pages, one State object each
    Batches, NoBatch,   \* identities of lists of Cart objects
    Requests, NoRequest \* identities of requests; bounds those under way

ASSUME CartSyncAssumption ==
    /\ IsFiniteSet(Lines)
    /\ NoLine \notin Lines /\ NoView \notin Views
    /\ NoBatch \notin Batches /\ NoRequest \notin Requests
    /\ MaxQty \in Nat \ {0}
    /\ Rate \in [Lines -> Nat]

VARIABLES
    server,     \* the server's cart: the quantity of each line, 0 if absent
    list,       \* constantcartDataResponse: a batch of Cart objects and its lines
    pcount,     \* pcount[b][l]: the quantity held by the Cart object of line l
    count,      \* the badge of the app bar
    view,       \* view[v]: the State object of cart page v
    cartPage,   \* the cart page in the navigator
    checkout,   \* the Placeorder page on top
    requests,   \* requests[r]
    latest,     \* history: the request the server handled last
    current,    \* history: the list was last replaced by the answer to 'latest'
    straight,   \* history: answers came one at a time, none from Placeorder
    astray      \* history: the list changed behind the cart page's back

pageVars == <<count, view, cartPage, checkout>>
histVars == <<latest, current, straight, astray>>
vars == <<server, list, pcount, pageVars, requests, histVars>>

Qty == 1..MaxQty
Carts == [Lines -> 0..MaxQty]
Empty == [l \in Lines |-> 0]

\* The list as quantities.
Cart == [l \in Lines |-> IF l \in list.lines THEN pcount[list.batch][l] ELSE 0]

\* productDiscountRate times pcount, over a list.
Total(c) == MapThenSumSet(LAMBDA l : Rate[l] * c[l], Lines)

View == [isanimation : BOOLEAN, total : {Total(c) : c \in Carts}]

Checkout == [batch : Batches \cup {NoBatch}, lines : SUBSET Lines,
             order : Requests \cup {NoRequest}]
Closed == [batch |-> NoBatch, lines |-> {}, order |-> NoRequest]
IsOpen == checkout # Closed

\* "storage": the handler awaits the device id; "sent": on its way to the
\* server; "answered": the answer is on its way.
Request == [kind : {"delete", "count", "add", "order"}, by : Views \cup {NoView},
            batch : Batches \cup {NoBatch}, line : Lines \cup {NoLine},
            at : {"none", "storage", "sent", "answered"}, n : Qty, answer : Carts]

Idle == [kind |-> "add", by |-> NoView, batch |-> NoBatch, line |-> NoLine,
         at |-> "none", n |-> 1, answer |-> Empty]

TypeOK ==
    /\ server \in Carts
    /\ list \in [batch : Batches, lines : SUBSET Lines]
    /\ pcount \in [Batches -> [Lines -> Qty]]
    /\ count \in 0..Cardinality(Lines)
    /\ view \in [Views -> View]
    /\ cartPage \in Views \cup {NoView}
    /\ checkout \in Checkout
    /\ requests \in [Requests -> Request]
    /\ latest \in Requests \cup {NoRequest}
    /\ current \in BOOLEAN /\ straight \in BOOLEAN /\ astray \in BOOLEAN

\* Boot: the list and the badge are the server's.
Init ==
    /\ server \in Carts
    /\ \E b \in Batches :
         /\ list = [batch |-> b, lines |-> {l \in Lines : server[l] # 0}]
         /\ pcount = [c \in Batches |->
                        [l \in Lines |-> IF server[l] = 0 THEN 1 ELSE server[l]]]
    /\ count = Cardinality(list.lines)
    /\ view = [v \in Views |-> [isanimation |-> FALSE, total |-> Total(Empty)]]
    /\ cartPage = NoView
    /\ checkout = Closed
    /\ requests = [r \in Requests |-> Idle]
    /\ latest = NoRequest
    /\ current = TRUE /\ straight = TRUE /\ astray = FALSE

-----------------------------------------------------------------------------
(* Requests begin. *)

\* Request r is posted from now on, without an answer so far.
Begin(r, kind, at, by, batch, line) ==
    /\ requests[r].at = "none"
    /\ requests' = [requests EXCEPT ![r] =
         [kind |-> kind, by |-> by, batch |-> batch, line |-> line, at |-> at,
          n |-> 1, answer |-> Empty]]

\* Mutant: initState adds nothing up.
OpenCartUnsummed(v) ==
    /\ cartPage = NoView /\ ~IsOpen
    /\ \A r \in Requests : requests[r].at # "none" => requests[r].by # v
    /\ cartPage' = v
    /\ view' = [view EXCEPT ![v].isanimation = FALSE]
    /\ astray' = FALSE
    /\ UNCHANGED <<server, list, pcount, count, checkout, requests, latest, current, straight>>

\* The cart tab is selected: a new State object adds up the list.
OpenCart(v) ==
    /\ cartPage = NoView /\ ~IsOpen
    /\ \A r \in Requests : requests[r].at # "none" => requests[r].by # v
    /\ cartPage' = v
    /\ view' = [view EXCEPT ![v] = [isanimation |-> FALSE, total |-> Total(Cart)]]
    /\ astray' = FALSE
    /\ UNCHANGED <<server, list, pcount, count, checkout, requests, latest, current, straight>>

\* Another tab; handlers of the old State object go on.
LeaveCart ==
    /\ cartPage # NoView /\ ~IsOpen
    /\ cartPage' = NoView
    /\ UNCHANGED <<server, list, pcount, count, view, checkout, requests, histVars>>

\* The lines of the cart page can be used.
CanTap(v, l) ==
    /\ cartPage = v /\ ~IsOpen
    /\ ~view[v].isanimation
    /\ l \in list.lines

\* Mutant: "-" has no lower limit.
ChangeCountToZero(b, l) ==
    \E n \in 0..MaxQty :
       /\ n - pcount[b][l] \in {-1, 1}
       /\ pcount' = [pcount EXCEPT ![b][l] = n]

\* A counter changes the Cart object of line l in batch b by one.
ChangeCount(b, l) ==
    \E n \in Qty :
       /\ n - pcount[b][l] \in {-1, 1}
       /\ pcount' = [pcount EXCEPT ![b][l] = n]

\* "+" and "-" of a line.
Counter(r, v, l) ==
    /\ CanTap(v, l)
    /\ ChangeCount(list.batch, l)
    /\ Begin(r, "count", "storage", v, list.batch, l)
    /\ UNCHANGED <<server, list, pageVars, histVars>>

Removecartlist(r, v, l) ==
    /\ CanTap(v, l)
    /\ view' = [view EXCEPT ![v].isanimation = TRUE]
    /\ Begin(r, "delete", "storage", v, NoBatch, l)
    /\ UNCHANGED <<server, list, pcount, count, cartPage, checkout, histVars>>

\* "Add to cart" in the product page, the device id already read.
Addcartlist(r, l) ==
    /\ ~IsOpen
    /\ Begin(r, "add", "sent", NoView, NoBatch, l)
    /\ UNCHANGED <<server, list, pcount, pageVars, histVars>>

\* "Place Order", or the badge: Placeorder over the list's Cart objects.
OpenCheckout ==
    /\ ~IsOpen /\ list.lines # {}
    /\ \/ cartPage # NoView /\ ~view[cartPage].isanimation
       \/ count >= 1
    /\ checkout' = [batch |-> list.batch, lines |-> list.lines, order |-> NoRequest]
    /\ UNCHANGED <<server, list, pcount, count, view, cartPage, requests, histVars>>

CloseCheckout ==
    /\ IsOpen
    /\ checkout' = Closed
    /\ UNCHANGED <<server, list, pcount, count, view, cartPage, requests, histVars>>

\* The Placeorder page is open and not waiting for an order.
CanCheckout == IsOpen /\ checkout.order = NoRequest

\* Its counters, on objects the list may still refer to.
CheckoutCounter(r, l) ==
    /\ CanCheckout /\ l \in checkout.lines
    /\ ChangeCount(checkout.batch, l)
    /\ Begin(r, "count", "storage", NoView, checkout.batch, l)
    /\ astray' = (astray \/ checkout.batch = list.batch)
    /\ UNCHANGED <<server, list, pageVars, latest, current, straight>>

\* Its removal; the page of the last line is replaced by Home.
Removecartlistitem(r, l) ==
    /\ CanCheckout /\ l \in checkout.lines
    /\ Begin(r, "delete", "storage", NoView, NoBatch, l)
    /\ IF checkout.lines = {l}
       THEN checkout' = Closed /\ cartPage' = NoView
       ELSE checkout' = [checkout EXCEPT !.lines = @ \ {l}] /\ UNCHANGED cartPage
    /\ UNCHANGED <<server, list, pcount, count, view, histVars>>

\* An order of a cart, not "Buy now".
Order(r) ==
    /\ CanCheckout
    /\ Begin(r, "order", "storage", NoView, NoBatch, NoLine)
    /\ checkout' = [checkout EXCEPT !.order = r]
    /\ UNCHANGED <<server, list, pcount, count, view, cartPage, histVars>>

-----------------------------------------------------------------------------
(* Requests go on. *)

\* Storage answers: the request is built.  A counter reads its Cart object now.
Send(r) ==
    /\ requests[r].at = "storage"
    /\ requests' = [requests EXCEPT ![r].at = "sent",
         ![r].n = IF requests[r].kind = "count"
                  THEN pcount[requests[r].batch][requests[r].line] ELSE 1]
    /\ UNCHANGED <<server, list, pcount, pageVars, histVars>>

\* What the server makes of a request.
Handled(q) ==
    CASE q.kind = "delete" -> [server EXCEPT ![q.line] = 0]
      [] q.kind = "count"  -> [server EXCEPT ![q.line] = IF @ = 0 THEN 0 ELSE q.n]
      [] q.kind = "add"    -> [server EXCEPT ![q.line] = 1]
      [] q.kind = "order"  -> Empty

Serve(r) ==
    /\ requests[r].at = "sent"
    /\ server' = Handled(requests[r])
    /\ requests' = [requests EXCEPT ![r].at = "answered", ![r].answer = server']
    /\ latest' = r
    /\ current' = FALSE
    /\ UNCHANGED <<list, pcount, pageVars, straight, astray>>

-----------------------------------------------------------------------------
(* Answers. *)

End(r) == requests' = [requests EXCEPT ![r] = Idle]

\* A batch nobody refers to: the objects a new list is made of.
Fresh(b) ==
    /\ b # list.batch /\ b # checkout.batch
    /\ \A r \in Requests : requests[r].at = "storage" => b # requests[r].batch

\* Mutant: an empty answer leaves the list as it is.
TakeListFilled(b, c) ==
    /\ Fresh(b)
    /\ IF c = Empty THEN UNCHANGED <<list, pcount>>
       ELSE /\ list' = [batch |-> b, lines |-> {l \in Lines : c[l] # 0}]
            /\ pcount' = [pcount EXCEPT ![b] = [l \in Lines |-> IF c[l] = 0 THEN 1 ELSE c[l]]]

\* Mutant: addAll without clear.
TakeListAppended(b, c) ==
    /\ Fresh(b)
    /\ list' = [batch |-> b, lines |-> list.lines \cup {l \in Lines : c[l] # 0}]
    /\ pcount' = [pcount EXCEPT ![b] = [l \in Lines |-> IF c[l] = 0 THEN 1 ELSE c[l]]]

\* clear and addAll: the list holds the answer's Cart objects.
TakeList(b, c) ==
    /\ Fresh(b)
    /\ list' = [batch |-> b, lines |-> {l \in Lines : c[l] # 0}]
    /\ pcount' = [pcount EXCEPT ![b] = [l \in Lines |-> IF c[l] = 0 THEN 1 ELSE c[l]]]

\* No other answer is on its way.
Alone(r) == \A q \in Requests \ {r} : requests[q].at # "answered"

Forget(r) == latest' = IF latest = r THEN NoRequest ELSE latest

\* Mutant: only additions set the badge.
CountedAdded(q) == q.kind = "add"

\* Deletions of the cart page and additions set the badge.
Counted(q) == q.kind = "add" \/ (q.kind = "delete" /\ q.by # NoView)

EndsSpinner(q) == q.kind = "delete"

\* An answer to anything but an order.  removecartlist, counter, addcartlist,
\* removecartlistitem and Counter replace the list alike.
Reply(r, b) ==
    LET q == requests[r]
    IN  /\ q.at = "answered" /\ q.kind # "order"
        /\ TakeList(b, q.answer)
        /\ count' = IF Counted(q) THEN Cardinality(list'.lines) ELSE count
        /\ view' = IF q.by = NoView THEN view
                   ELSE [view EXCEPT ![q.by].isanimation = @ /\ ~EndsSpinner(q),
                                     ![q.by].total = Total(q.answer)]
        /\ End(r)
        /\ Forget(r)
        /\ current' = (latest = r)
        /\ straight' = (straight /\ Alone(r) /\ (q.kind = "delete" => q.by # NoView))
        /\ astray' = (cartPage \notin {q.by, NoView})
        /\ UNCHANGED <<server, cartPage, checkout>>

\* The answer to an order: the list is cleared, the badge is not, and the page,
\* if it is still there, is replaced by Home.  A null answer clears nothing.
OrderReply(r, ok) ==
    LET q == requests[r]
    IN  /\ q.kind = "order" /\ q.at \in IF ok THEN {"answered"} ELSE {"sent", "answered"}
        /\ list' = IF ok THEN [list EXCEPT !.lines = {}] ELSE list
        /\ IF checkout.order = r THEN checkout' = Closed /\ cartPage' = NoView
           ELSE UNCHANGED <<checkout, cartPage>>
        /\ End(r)
        /\ Forget(r)
        /\ current' = IF ok THEN latest = r ELSE current
        /\ straight' = FALSE
        /\ astray' = TRUE
        /\ UNCHANGED <<server, pcount, count, view>>

\* A null answer or an exception ends the handler: a spinner stays.
Fail(r) ==
    LET q == requests[r]
    IN  /\ q.at # "none"
        /\ End(r)
        /\ Forget(r)
        /\ current' = (current /\ q.kind # "count")
        /\ straight' = (straight /\ q.at # "answered")
        /\ astray' = (astray \/ q.kind = "count")
        /\ UNCHANGED <<server, list, pcount, pageVars>>

-----------------------------------------------------------------------------
PageStep ==
    \/ \E v \in Views : OpenCart(v)
    \/ LeaveCart \/ OpenCheckout \/ CloseCheckout
    \/ \E r \in Requests :
         \/ \E v \in Views, l \in Lines : Counter(r, v, l) \/ Removecartlist(r, v, l)
         \/ \E l \in Lines :
              Addcartlist(r, l) \/ CheckoutCounter(r, l) \/ Removecartlistitem(r, l)
         \/ Order(r)

\* A request goes on; it may fail.
Progress(r) ==
    \/ Send(r) \/ Serve(r)
    \/ \E b \in Batches : Reply(r, b)
    \/ \E ok \in BOOLEAN : OrderReply(r, ok)

Next == PageStep \/ \E r \in Requests : Progress(r) \/ Fail(r)

Spec == Init /\ [][Next]_vars

-----------------------------------------------------------------------------
(* Properties. *)

\* When nothing is under way and the list was last replaced by the answer to
\* the request the server handled last, it is the server's cart, quantities
\* included: however many stale answers, aliased Cart objects and repeated taps
\* came before (TakeList and every handler that calls getCartlist).
CurrentIsServers ==
    current /\ (\A r \in Requests : requests[r].at = "none") => Cart = server

\* The badge counts the lines of the list, as long as answers came one at a
\* time and the Placeorder page, which never sets it, removed and ordered nothing.
BadgeCountsList == straight => count = Cardinality(list.lines)

CounterUnderWay(v) == \E r \in Requests :
    requests[r].at # "none" /\ requests[r].kind = "count" /\ requests[r].by = v

\* The total under the cart page's list is that list's, unless one of its own
\* counters is still under way or something else changed the list under it.
TotalMatchesList ==
    cartPage # NoView /\ ~astray /\ ~CounterUnderWay(cartPage) =>
        view[cartPage].total = Total(Cart)

\* The answers on their way.
Answers == [r \in Requests |-> IF requests[r].at = "answered"
                               THEN {requests[r].answer} ELSE {}]

Copy == INSTANCE CartCopy WITH copy <- Cart, answers <- Answers

\* The list changes only as CartCopy allows: whole answers, each once, and taps.
IsCartCopy == Copy!Spec
=============================================================================
