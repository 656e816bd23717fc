------------------------- MODULE CheckoutOrderProofs -------------------------
(***************************************************************************)
(* Theorems about what an order of Checkout says: its products, their      *)
(* bill, the amount charged, the address, and the page that posts it.      *)
(***************************************************************************)
EXTENDS CheckoutProofs

-----------------------------------------------------------------------------
(* Products and bill of an order. *)

\* A bill depends on the quantities of its own lines only.
LEMMA BillOfListed ==
    ASSUME NEW L, NEW q, NEW cod
    PROVE  Bill(L, [l \in L |-> q[l]], cod) = Bill(L, q, cod)
<1> DEFINE r == [l \in L |-> q[l]]
<1>1. ASSUME NEW rate PROVE Sum(L, r, rate) = Sum(L, q, rate)
  <2>1. [l \in L |-> rate[l] * r[l]] = [l \in L |-> rate[l] * q[l]]
    OBVIOUS
  <2>2. QED
    BY <2>1, Zenon DEF Sum
<1> HIDE DEF r
<1>2. Bill(L, r, cod) = Bill(L, q, cod)
  BY <1>1 DEF Bill
<1>3. QED
  BY <1>2 DEF r

\* A request of a mounted page has the total of the lines it lists.
LEMMA RequestBilled ==
    ASSUME TypeInv, TotalsMatchProducts, NEW t \in Building, Mounted(t.session)
    PROVE  LET r == Request(t)
           IN  r.total_amount \in
                 {Bill(DOMAIN r.product, r.product, cod).finaltotal : cod \in BOOLEAN}
<1> DEFINE pg == page[t.session]
           q == pcount[pg.batch]
<1>1. t.session \in Sessions /\ pg \in Page
  BY DEF Building, TypeInv, TypeOK, Task
<1>2. pg.cod \in BOOLEAN
  BY <1>1 DEF Page
<1>3. /\ Request(t).total_amount = pg.bill.finaltotal
      /\ Request(t).product = [l \in pg.lines |-> q[l]]
      /\ DOMAIN Request(t).product = pg.lines
  BY DEF Request
<1>4. pg.bill = Bill(pg.lines, q, pg.cod)
  BY <1>1 DEF TotalsMatchProducts
<1>5. pg.bill = Bill(pg.lines, [l \in pg.lines |-> q[l]], pg.cod)
  BY <1>4, BillOfListed
<1> HIDE DEF pg, q
<1>6. QED
  BY <1>2, <1>3, <1>5

-----------------------------------------------------------------------------
(* What a step does to a page. *)

\* Nothing an order reads from the page itself changes.
Same(s) ==
    /\ page'[s].batch = page[s].batch /\ page'[s].lines = page[s].lines
    /\ page'[s].bill = page[s].bill /\ page'[s].valueselect = page[s].valueselect

\* A tap on the page: products and address stay if there were any, and an edit
\* of the bill is remembered for the sheets the page opened.
Tapped(s) ==
    /\ Mounted(s) /\ page'[s].batch = page[s].batch
    /\ page[s].lines # {} => page'[s].lines # {}
    /\ page[s].valueselect # NoAddress => page'[s].valueselect # NoAddress
    /\ page'[s].valueselect # page[s].valueselect => addresses # {}
    /\ page'[s].bill = page[s].bill \/ \A p \in Payments : owner[p] = s => p \in touched'

\* The page is opened, with the first address if there is one.
Started(s) ==
    /\ s \notin Opened /\ page'[s].batch # NoBatch
    /\ page'[s].lines # {}
    /\ page'[s].valueselect = NoAddress <=> addresses = {}

LEMMA FieldsSame ==
    ASSUME TypeInv, NEW s \in Sessions, NEW x \in BOOLEAN, 
           page' = [page EXCEPT ![s].isAnimation = x]
    PROVE  \A u \in Sessions : Same(u)
BY DEF TypeInv, TypeOK, Page, Same

LEMMA StartedPage ==
    ASSUME TypeInv, NEW s \in Sessions, NEW b \in Batches, NEW L, NEW q, NEW buynow,
           InitState(s, b, L, q, buynow), L # {}
    PROVE  \A u \in Sessions : Same(u) \/ Started(u)
<1>1. PICK a \in IF addresses = {} THEN {NoAddress} ELSE addresses :
        page' = [page EXCEPT ![s] =
                   [batch |-> b, lines |-> L, buynow |-> buynow,
                    cod |-> "cod" \in PayTypes,
                    bill |-> Bill(L, q, "cod" \in PayTypes),
                    isAnimation |-> FALSE, valueselect |-> a]]
  BY DEF InitState
<1>2. a = NoAddress <=> addresses = {}
  BY CheckoutAssumption DEF TypeInv, TypeOK
<1>3. Started(s)
  BY <1>1, <1>2, CheckoutAssumption DEF Started, InitState, TypeInv, TypeOK
<1>4. \A u \in Sessions : u # s => Same(u)
  BY <1>1 DEF Same, TypeInv, TypeOK
<1>5. QED
  BY <1>3, <1>4

\* Every step does one of these to every page.
LEMMA PageEdits ==
    ASSUME TypeInv, [Next]_vars
    PROVE  \A u \in Sessions : Same(u) \/ Tapped(u) \/ Started(u)
<1>1. CASE page' = page
  BY <1>1 DEF Same
<1>2. ASSUME NEW s \in Sessions, OpenFromCart(s)
      PROVE  \A u \in Sessions : Same(u) \/ Started(u)
  <2>1. cart.batch \in Batches
    BY DEF TypeInv, TypeOK
  <2>2. QED
    BY <1>2, <2>1, StartedPage DEF OpenFromCart
<1>3. ASSUME NEW s \in Sessions, NEW l \in Lines, NEW b \in Batches, BuyNow(s, l, b)
      PROVE  \A u \in Sessions : Same(u) \/ Started(u)
  <2>1. {l} # {}
    OBVIOUS
  <2>2. QED
    BY <1>3, <2>1, StartedPage DEF BuyNow
<1>4. ASSUME NEW s \in Sessions, NEW l \in Lines, NEW n, Mounted(s), SetCount(s, l, n)
      PROVE  \A u \in Sessions : Same(u) \/ Tapped(u)
  <2>1. Tapped(s)
    BY <1>4 DEF SetCount, Touch, Tapped, TypeInv, TypeOK, Page
  <2>2. \A u \in Sessions : u # s => Same(u)
    BY <1>4 DEF SetCount, Same, TypeInv, TypeOK
  <2>3. QED
    BY <2>1, <2>2
<1>5. ASSUME NEW s \in Sessions, NEW l \in Lines, RemoveLine(s, l)
      PROVE  \A u \in Sessions : Same(u) \/ Tapped(u)
  <2>1. page[s].lines \ {l} # {} /\ Mounted(s)
    BY <1>5 DEF RemoveLine, TakeLine, CanTap
  <2>2. Tapped(s)
    BY <1>5, <2>1 DEF RemoveLine, TakeLine, Touch, Tapped, TypeInv, TypeOK, Page
  <2>3. \A u \in Sessions : u # s => Same(u)
    BY <1>5 DEF RemoveLine, TakeLine, Same, TypeInv, TypeOK
  <2>4. QED
    BY <2>2, <2>3
<1>6. ASSUME NEW s \in Sessions, NEW kind \in PayTypes, SelectPayment(s, kind)
      PROVE  \A u \in Sessions : Same(u) \/ Tapped(u)
  <2>1. Tapped(s)
    BY <1>6 DEF SelectPayment, CanTap, Touch, Tapped, TypeInv, TypeOK, Page
  <2>2. \A u \in Sessions : u # s => Same(u)
    BY <1>6 DEF SelectPayment, Same, TypeInv, TypeOK
  <2>3. QED
    BY <2>1, <2>2
<1>7. ASSUME NEW s \in Sessions, NEW a \in Addresses, SelectAddress(s, a)
      PROVE  \A u \in Sessions : Same(u) \/ Tapped(u)
  <2>1. Tapped(s)
    BY <1>7, CheckoutAssumption DEF SelectAddress, CanTap, Tapped, TypeInv, TypeOK, Page
  <2>2. \A u \in Sessions : u # s => Same(u)
    BY <1>7 DEF SelectAddress, Same, TypeInv, TypeOK
  <2>3. QED
    BY <2>1, <2>2
<1>8. ASSUME NEW s \in Sessions, PageStep(s)
      PROVE  \A u \in Sessions : Same(u) \/ Tapped(u) \/ Started(u)
  <2>1. CASE CallCODPayment(s)
    BY <2>1, FieldsSame DEF CallCODPayment
  <2>2. CASE Back(s) \/ \E l \in Lines : RemoveLastLine(s, l)
    BY <1>1, <2>2 DEF Back, RemoveLastLine
  <2>3. CASE \E p \in Payments : CallRazorPayPayment(s, p)
    BY <1>1, <2>3 DEF CallRazorPayPayment, appVars
  <2>4. CASE \E l \in Lines : IncrementConter(s, l) \/ DecrementConter(s, l)
    BY <1>4, <2>4 DEF IncrementConter, DecrementConter, CanTap
  <2>5. QED
    BY <1>2, <1>3, <1>5, <1>6, <1>7, <1>8, <2>1, <2>2, <2>3, <2>4 DEF PageStep
<1>9. CASE OrderStep
  <2>1. ASSUME NEW r \in replies, HandlePaid(r) PROVE \A u \in Sessions : Same(u)
    <3>1. r.session \in Sessions
      BY DEF TypeInv, TypeOK, PluginTypeOK, Reply
    <3>2. QED
      BY <2>1, <3>1, FieldsSame DEF HandlePaid
  <2>2. ASSUME NEW t \in tasks, NEW ok \in BOOLEAN, OrderReply(t, ok)
        PROVE  \A u \in Sessions : Same(u)
    <3>1. t.session \in Sessions
      BY DEF TypeInv, TypeOK, Task
    <3>2. QED
      BY <2>2, <3>1, FieldsSame DEF OrderReply
  <2>3. QED
    BY <1>1, <1>9, <2>1, <2>2
    DEF OrderStep, HandleNothing, PostOrder, OrderThrows, appVars
<1>10. CASE PlatformStep
  BY <1>1, <1>10 DEF PlatformStep, appVars
<1>11. CASE ShopStep
  BY <1>1, <1>11 DEF ShopStep, Browse, CartCounter, CartRequest, CartReplyFails, AddressReply,
                     CartReply, ProcessDeath, SecondResultCrash, Restart
<1>12. QED
  BY <1>1, <1>8, <1>9, <1>10, <1>11 DEF Next, vars, appVars
-----------------------------------------------------------------------------
(* Where handlers, orders and results come from. *)

\* A handler was there, belongs to a "Continue", or took a result.
LEMMA TaskSources ==
    ASSUME TypeInv, [Next]_vars, NEW t \in tasks'
    PROVE  \/ \E u \in tasks : /\ u.session = t.session /\ u.handler = t.handler
                               /\ u.payment = t.payment
           \/ /\ Mounted(t.session) /\ t.handler = "cod"
              /\ page[t.session].valueselect # NoAddress
           \/ Mounted(t.session) /\ \E r \in replies : r.session = t.session
<1> DEFINE Goal ==
           \/ \E u \in tasks : u.session = t.session /\ u.handler = t.handler /\ u.payment = t.payment
           \/ /\ Mounted(t.session) /\ t.handler = "cod"
              /\ page[t.session].valueselect # NoAddress
           \/ Mounted(t.session) /\ \E r \in replies : r.session = t.session
<1>1. CASE tasks' \subseteq tasks
  BY <1>1
<1>2. ASSUME NEW s \in Sessions, PageStep(s) PROVE Goal
  <2>1. CASE CallCODPayment(s)
    BY <2>1 DEF CallCODPayment, CanOrder, CanTap
  <2>2. CASE ~CallCODPayment(s)
    <3>1. tasks' = tasks
      BY <1>2, <2>2 DEF PageStep, OpenFromCart, BuyNow, Back, IncrementConter, DecrementConter,
         SetCount, RemoveLine, TakeLine, RemoveLastLine, SelectPayment, SelectAddress,
         CallRazorPayPayment, appVars
    <3>2. QED
      BY <1>1, <3>1
  <2>3. QED
    BY <2>1, <2>2
<1>3. ASSUME NEW r \in replies, HandlePaid(r) PROVE Goal
  BY <1>3 DEF HandlePaid
<1>4. ASSUME NEW u \in tasks, PostOrder(u) PROVE Goal
  <2>1. u \in Task
    BY DEF TypeInv, TypeOK
  <2> DEFINE w == [u EXCEPT !.at = "posted"]
  <2>2. w.session = u.session /\ w.handler = u.handler /\ w.payment = u.payment
    BY <2>1 DEF Task
  <2>3. tasks' = (tasks \ {u}) \cup {w}
    BY <1>4 DEF PostOrder
  <2> HIDE DEF w
  <2>4. QED
    BY <2>2, <2>3
<1>5. CASE OrderStep
  <2>1. CASE \/ \E r \in replies : HandleNothing(r)
             \/ \E u \in tasks, ok \in BOOLEAN : OrderReply(u, ok)
             \/ \E u \in tasks : OrderThrows(u)
    <3>1. tasks' \subseteq tasks
      BY <2>1 DEF HandleNothing, OrderReply, OrderThrows, appVars
    <3>2. QED
      BY <1>1, <3>1
  <2>2. QED
    BY <1>3, <1>4, <1>5, <2>1 DEF OrderStep
<1>6. CASE PlatformStep \/ ShopStep \/ UNCHANGED vars
  <2>1. tasks' \subseteq tasks
    BY <1>6 DEF PlatformStep, ShopStep, Browse, CartCounter, CartRequest, CartReplyFails,
       AddressReply, CartReply, ProcessDeath, SecondResultCrash, Restart, vars, appVars
  <2>2. QED
    BY <1>1, <2>1
<1>7. QED
  BY <1>2, <1>5, <1>6 DEF Next

\* An order was there or was posted by a handler.
LEMMA OrderSources ==
    ASSUME TypeInv, [Next]_vars, NEW i \in DOMAIN orders'
    PROVE  \/ i \in DOMAIN orders /\ orders'[i] = orders[i]
           \/ \E t \in tasks : /\ t.session = orders'[i].session
                              /\ t.handler = orders'[i].handler
<1>1. CASE orders' = orders
  BY <1>1
<1>2. ASSUME NEW t \in tasks, PostOrder(t)
      PROVE  \/ i \in DOMAIN orders /\ orders'[i] = orders[i]
             \/ t.session = orders'[i].session /\ t.handler = orders'[i].handler
  <2> DEFINE x == [session |-> t.session, handler |-> t.handler, payment |-> t.payment]
  <2>1. orders' = Append(orders, x) /\ x.session = t.session /\ x.handler = t.handler
    BY <1>2 DEF PostOrder
  <2>2. x \in Order /\ orders \in Seq(Order)
    BY DEF TypeInv, TypeOK, Task, Order
  <2> HIDE DEF x
  <2>3. i \in 1..Len(orders) + 1
    BY <2>1, <2>2
  <2>4. CASE i = Len(orders) + 1
    BY <2>1, <2>2, <2>4
  <2>5. CASE i \in 1..Len(orders)
    BY <2>1, <2>2, <2>5
  <2>6. QED
    BY <2>2, <2>3, <2>4, <2>5
<1>3. ASSUME NEW s \in Sessions, PageStep(s) PROVE orders' = orders
  BY <1>3 DEF PageStep, OpenFromCart, BuyNow, Back, IncrementConter, DecrementConter, SetCount,
     RemoveLine, TakeLine, RemoveLastLine, SelectPayment, SelectAddress, CallCODPayment,
     CallRazorPayPayment, histVars
<1>4. CASE PlatformStep \/ ShopStep \/ UNCHANGED vars
  BY <1>1, <1>4 DEF PlatformStep, ShopStep, Browse, CartCounter, CartRequest, CartReplyFails,
     AddressReply, CartReply, ProcessDeath, SecondResultCrash, Restart, vars, histVars
<1>5. CASE OrderStep
  BY <1>1, <1>2, <1>5 DEF OrderStep, HandlePaid, HandleNothing, OrderReply, OrderThrows, histVars
<1>6. QED
  BY <1>1, <1>3, <1>4, <1>5 DEF Next

-----------------------------------------------------------------------------
(* Products. *)

FilledInv ==
    /\ \A s \in Opened : page[s].lines # {}
    /\ \A t \in tasks : t.session \in Opened

LEMMA InitPages ==
    Init => \A s \in Sessions : page[s].batch = NoBatch /\ page[s].valueselect = NoAddress
<1>1. NoPage.batch = NoBatch /\ NoPage.valueselect = NoAddress
  BY DEF NoPage
<1>2. QED
  BY <1>1, Zenon DEF Init

LEMMA FilledStep == TypeInv /\ FilledInv /\ [Next]_vars => FilledInv'
<1> SUFFICES ASSUME TypeInv, FilledInv, [Next]_vars PROVE FilledInv'
  OBVIOUS
<1>1. \A s \in Opened : s \in Opened' /\ page'[s].lines # {}
  BY PageEdits DEF Same, Tapped, Started, Opened, FilledInv
<1>2. \A s \in Opened' : page'[s].lines # {}
  BY PageEdits DEF Same, Tapped, Started, Opened, FilledInv
<1>3. \A s \in Sessions : Mounted(s) => s \in Opened
  BY TappableIsOpen, CheckoutAssumption DEF Opened
<1>4. ASSUME NEW t \in tasks' PROVE t.session \in Opened'
  <2>1. t.session \in Opened
    <3>1. CASE \E u \in tasks : u.session = t.session
      BY <3>1 DEF FilledInv
    <3>2. CASE Mounted(t.session)
      BY <3>2, <1>3 DEF Mounted, TypeInv, TypeOK, PluginTypeOK
    <3>3. QED
      BY <3>1, <3>2, TaskSources
  <2>2. QED
    BY <2>1, <1>1
<1>5. QED
  BY <1>2, <1>4 DEF FilledInv

\* An order lists some products and is billed as it lists them: the figures on
\* the page are those of its products, in whatever order handlers and answers ran,
\* and no sequence of them takes the last one away.
THEOREM BilledCorrect == Spec => []OrderBilledAsListed
<1>1. Init => TypeInv /\ FilledInv
  <2>1. Init => TypeInv /\ tasks = {}
    BY InitTyped DEF Init
  <2>2. QED
    BY <2>1, InitPages DEF FilledInv, Opened
<1>2. TypeInv /\ TotalsMatchProducts /\ FilledInv => OrderBilledAsListed
  <2>1. ASSUME FilledInv, NEW t \in Building
        PROVE  DOMAIN Request(t).product # {}
    BY <2>1 DEF FilledInv, Building, Request
  <2>2. QED
    BY <2>1, RequestBilled DEF OrderBilledAsListed
<1>3. QED
  BY <1>1, <1>2, TypeStep, FilledStep, TotalsCorrect, PTL DEF Spec

-----------------------------------------------------------------------------
(* The amount charged. *)

ChargedInv ==
    \A p \in Payments : owner[p] \in Sessions =>
        /\ owner[p] \in Opened
        /\ p \notin touched => charged[p] = Amount(owner[p])

\* Only "Continue" with a sheet names an owner and an amount.
LEMMA OwnerSteps ==
    ASSUME TypeInv, [Next]_vars
    PROVE  \/ UNCHANGED <<owner, charged>> /\ touched \subseteq touched'
           \/ \E s \in Sessions, p \in Payments : CallRazorPayPayment(s, p)
<1>1. ASSUME NEW s \in Sessions, PageStep(s), ~ \E p \in Payments : CallRazorPayPayment(s, p)
      PROVE  UNCHANGED <<owner, charged>> /\ touched \subseteq touched'
  BY <1>1 DEF PageStep, OpenFromCart, BuyNow, InitState, On, Back, Leave, Clear, IncrementConter,
     DecrementConter, SetCount, Touch, RemoveLine, TakeLine, RemoveLastLine, SelectPayment,
     SelectAddress, CallCODPayment, histVars, pluginVars
<1>2. ASSUME OrderStep \/ PlatformStep
      PROVE  UNCHANGED <<owner, charged>> /\ touched \subseteq touched'
  BY <1>2 DEF OrderStep, HandlePaid, HandleNothing, HandleResult, PostOrder, OrderReply, OrderThrows,
     Leave, Clear, PlatformStep, OpenCheckout, SendReply, Resync, histVars, pluginVars
<1>3. ASSUME ShopStep \/ UNCHANGED vars
      PROVE  UNCHANGED <<owner, charged>> /\ touched \subseteq touched'
  BY <1>3 DEF ShopStep, Browse, CartCounter, CartRequest, CartReplyFails, AddressReply, CartReply,
     ProcessDeath, SecondResultCrash, Restart, PluginRestart, vars, histVars, pluginVars
<1>4. QED
  BY <1>1, <1>2, <1>3 DEF Next

LEMMA ChargedStep == TypeInv /\ ChargedInv /\ [Next]_vars => ChargedInv'
<1> SUFFICES ASSUME TypeInv, ChargedInv, [Next]_vars, NEW p \in Payments, owner'[p] \in Sessions
             PROVE  /\ owner'[p] \in Opened'
                    /\ p \notin touched' => charged'[p] = Amount(owner[p])'
  BY DEF ChargedInv
<1>1. CASE UNCHANGED <<owner, charged>> /\ touched \subseteq touched'
  <2> DEFINE s == owner[p]
  <2>1. s \in Sessions /\ s \in Opened /\ owner'[p] = s
    BY <1>1 DEF ChargedInv
  <2>2. Same(s) \/ Tapped(s)
    BY <2>1, PageEdits DEF Started
  <2>3. s \in Opened'
    BY <2>1, <2>2 DEF Same, Tapped, Opened
  <2>4. p \notin touched' => page'[s].bill = page[s].bill
    BY <2>2 DEF Same, Tapped
  <2>5. p \notin touched' => charged'[p] = WholeRupees(page'[s].bill.finaltotal)
    BY <1>1, <2>1, <2>4 DEF ChargedInv, Amount
  <2>6. QED
    BY <2>1, <2>3, <2>5 DEF Amount
<1>2. ASSUME NEW s \in Sessions, NEW u \in Payments, CallRazorPayPayment(s, u)
      PROVE  /\ owner'[p] \in Opened'
             /\ p \notin touched' => charged'[p] = Amount(owner[p])'
  <2>1. /\ owner' = [owner EXCEPT ![u] = s] /\ charged' = [charged EXCEPT ![u] = Amount(s)]
        /\ page' = page /\ touched' = touched /\ Mounted(s)
    BY <1>2 DEF CallRazorPayPayment, CanOrder, CanTap, Open, appVars
  <2>2. s \in Opened /\ Opened' = Opened
    BY <2>1, TappableIsOpen, CheckoutAssumption DEF Opened
  <2>3. owner'[p] = (IF p = u THEN s ELSE owner[p])
        /\ charged'[p] = (IF p = u THEN Amount(s) ELSE charged[p])
    BY <2>1 DEF TypeInv, TypeOK, PluginTypeOK
  <2>4. \A w \in Sessions : WholeRupees(page'[w].bill.finaltotal) = Amount(w)
    BY <2>1 DEF Amount
  <2>5. QED
    BY <2>1, <2>2, <2>3, <2>4 DEF ChargedInv, Amount
<1>3. QED
  BY <1>1, <1>2, OwnerSteps

\* The sheet charges the total of the order it pays, in whole rupees, unless the
\* page was edited after "Continue".
THEOREM ChargedCorrect == Spec => []ChargedAsBilled
<1>1. Init => TypeInv /\ ChargedInv
  BY InitTyped, RazorpayAssumption DEF Init, PluginInit, ChargedInv
<1>2. TypeInv /\ PayInv /\ ChargedInv => ChargedAsBilled
  <2> SUFFICES ASSUME TypeInv, PayInv, ChargedInv, NEW t \in Building, t.handler # "cod",
                      owner[t.payment] = t.session, t.payment \notin touched
               PROVE  charged[t.payment] = WholeRupees(Request(t).total_amount)
    BY DEF ChargedAsBilled
  <2>1. t.session \in Sessions
    BY DEF Building, TypeInv, TypeOK, Task
  <2>2. t.payment \in Payments
    BY DEF PayInv, Backed, Building
  <2>3. QED
    BY <2>1, <2>2 DEF ChargedInv, Amount, Request
<1>3. QED
  BY <1>1, <1>2, TypeStep, PayInit, PayStep, ChargedStep, PTL DEF Spec

-----------------------------------------------------------------------------
(* The address. *)

\* A page that has an address keeps one, and while there is none in the
\* application no sheet was ever opened.  A page without one is not handed a
\* result: what the delegate stores stems from an earlier process, in which
\* there was an address.
AddressInv ==
    /\ \A s \in Sessions : page[s].valueselect # NoAddress => addresses # {}
    /\ (\E p \in Payments : sheet[p] # "unused") => addresses # {}
    /\ pendingReply # NoReply => addresses # {}
    /\ \A p \in Payments : sheet[p] # "unused" => page[owner[p]].valueselect # NoAddress
    /\ \A r \in replies : page[r.session].valueselect # NoAddress
    /\ \A t \in tasks : page[t.session].valueselect # NoAddress
    /\ \A s \in Sessions : resyncs[s] > 0 /\ page[s].valueselect = NoAddress =>
          pendingReply = NoReply /\ (pendingResult = NoPayment => Uncovered)

\* How a step may move results and sheets.
SheetMoves ==
    /\ \A p \in Payments : sheet'[p] # "unused" =>
          \/ sheet[p] # "unused" /\ owner'[p] = owner[p]
          \/ owner'[p] \in Sessions /\ page[owner'[p]].valueselect # NoAddress
    /\ \A r \in replies' :
          \/ r \in replies
          \/ pendingResult # NoPayment /\ r.session = owner[pendingResult]
          \/ pendingReply # NoReply /\ resyncs[r.session] > 0
    /\ pendingReply' # NoReply =>
          pendingReply # NoReply \/ (pendingResult = NoPayment /\ ~Uncovered)

Ask(s) ==
    \/ resyncs[s] > 0
    \/ Started(s) /\ UNCHANGED <<sheet, pendingReply, pendingResult>>

ResultMoves ==
    \/ \A s \in Sessions : resyncs'[s] = 0
    \/ /\ \A s \in Sessions : resyncs'[s] > 0 => Ask(s)
       /\ pendingResult' = NoPayment => pendingResult = NoPayment
       /\ ~Uncovered' => ~Uncovered \/ pendingResult' # NoPayment

\* An opened page starts to ask for stored results; nothing else moves.
LEMMA StartMoves ==
    ASSUME TypeInv, NEW s \in Sessions,
           OpenFromCart(s) \/ \E l \in Lines, b \in Batches : BuyNow(s, l, b)
    PROVE  SheetMoves /\ ResultMoves
<1>1. On(s) /\ Started(s)
  <2>1. PICK b, L, q, buynow : b \in Batches /\ InitState(s, b, L, q, buynow) /\ L # {}
    BY DEF OpenFromCart, BuyNow, TypeInv, TypeOK
  <2>2. Same(s) \/ Started(s)
    BY <2>1, StartedPage
  <2>3. page[s].batch = NoBatch /\ page'[s].batch # NoBatch
    BY <2>1, CheckoutAssumption DEF InitState, Opened, TypeInv, TypeOK
  <2>4. QED
    BY <2>1, <2>2, <2>3 DEF InitState, Same
<1>2. SheetMoves
  BY <1>1 DEF On, SheetMoves, TypeInv, OwnersKnown
<1>3. ResultMoves
  BY <1>1 DEF On, ResultMoves, Ask, Uncovered, TypeInv, TypeOK, PluginTypeOK
<1>4. QED
  BY <1>2, <1>3

LEMMA StillMoves ==
    ASSUME TypeInv, UNCHANGED <<sheet, owner, pendingResult, pendingReply, resyncs>>,
           replies' \subseteq replies
    PROVE  SheetMoves /\ ResultMoves
BY DEF SheetMoves, ResultMoves, Ask, Uncovered, TypeInv, OwnersKnown

LEMMA PluginMoves ==
    ASSUME TypeInv, [Next]_vars
    PROVE  SheetMoves /\ ResultMoves
<1>1. ASSUME NEW s \in Sessions, PageStep(s) PROVE SheetMoves /\ ResultMoves
  <2>1. CASE \E p \in Payments : CallRazorPayPayment(s, p)
    <3>1. PICK p \in Payments : Open(s, p) /\ page[s].valueselect # NoAddress
      BY <2>1 DEF CallRazorPayPayment, CanOrder
    <3>2. SheetMoves
      BY <3>1 DEF Open, SheetMoves, TypeInv, TypeOK, PluginTypeOK
    <3>3. ResultMoves
      BY <3>1 DEF Open, ResultMoves, Ask, Uncovered, TypeInv, TypeOK, PluginTypeOK
    <3>4. QED
      BY <3>2, <3>3
  <2>2. CASE OpenFromCart(s) \/ \E l \in Lines, b \in Batches : BuyNow(s, l, b)
    BY <2>2, StartMoves
  <2>3. CASE ~(\E p \in Payments : CallRazorPayPayment(s, p)) /\ ~OpenFromCart(s)
             /\ ~ \E l \in Lines, b \in Batches : BuyNow(s, l, b)
    <3>1. UNCHANGED <<sheet, owner, pendingResult, pendingReply, resyncs, replies>>
      BY <1>1, <2>3 DEF PageStep, Back, Leave, Clear, IncrementConter, DecrementConter, SetCount,
         RemoveLine, TakeLine, RemoveLastLine, SelectPayment, SelectAddress, CallCODPayment,
         pluginVars
    <3>2. QED
      BY <3>1, StillMoves
  <2>4. QED
    BY <2>1, <2>2, <2>3
<1>2. CASE OrderStep
  <2>1. /\ UNCHANGED <<sheet, owner, pendingResult, pendingReply, resyncs>>
        /\ replies' \subseteq replies
    BY <1>2 DEF OrderStep, HandlePaid, HandleNothing, HandleResult, PostOrder, OrderReply,
       OrderThrows, Leave, Clear, pluginVars
  <2>2. QED
    BY <2>1, StillMoves
<1>3. ASSUME NEW p \in Payments, OpenCheckout(p) PROVE SheetMoves /\ ResultMoves
  <2>1. SheetMoves
    BY <1>3 DEF OpenCheckout, SheetMoves, TypeInv, TypeOK, PluginTypeOK, OwnersKnown
  <2>2. ResultMoves
    BY <1>3, RazorpayAssumption DEF OpenCheckout, ResultMoves, Ask, Uncovered, TypeInv, TypeOK, PluginTypeOK
  <2>3. QED
    BY <2>1, <2>2
<1>4. ASSUME NEW p \in Payments, NEW t \in ReplyTypes, SendReply(p, t)
      PROVE  SheetMoves /\ ResultMoves
  <2>1. SheetMoves
    BY <1>4 DEF SendReply, SheetMoves, Uncovered, TypeInv, TypeOK, PluginTypeOK, OwnersKnown
  <2>2. ResultMoves
    BY <1>4 DEF SendReply, ResultMoves, Ask, Uncovered, TypeInv, TypeOK, PluginTypeOK, ReplyTypes
  <2>3. QED
    BY <2>1, <2>2
<1>5. ASSUME NEW s \in Sessions, Resync(s) PROVE SheetMoves /\ ResultMoves
  <2>1. SheetMoves
    BY <1>5 DEF Resync, SheetMoves, TypeInv, OwnersKnown
  <2>2. ResultMoves
    BY <1>5 DEF Resync, ResultMoves, Ask, Uncovered, TypeInv, TypeOK, PluginTypeOK
  <2>3. QED
    BY <2>1, <2>2
<1>6. ASSUME NEW b, NEW L, NEW q,
             \/ ProcessDeath(b, L, q)
             \/ \E p \in Payments : SecondResultCrash(p, b, L, q)
      PROVE  SheetMoves /\ ResultMoves
  <2>1. PICK closed : (\A p \in closed : sheet[p] = "open") /\ Restart(closed, b, L, q)
    BY <1>6 DEF ProcessDeath, SecondResultCrash, AnswersTwice
  <2>2. SheetMoves
    BY <2>1 DEF Restart, PluginRestart, SheetMoves, TypeInv, TypeOK, PluginTypeOK
  <2>3. ResultMoves
    BY <2>1 DEF Restart, PluginRestart, ResultMoves
  <2>4. QED
    BY <2>2, <2>3
<1>7. CASE ShopStep
  <2>1. CASE \/ Browse \/ CartRequest \/ CartReplyFails
             \/ \E A \in SUBSET Addresses : AddressReply(A)
             \/ \E l \in Lines, n \in Qty : CartCounter(l, n)
             \/ \E b, L, q : CartReply(b, L, q)
    BY <2>1, StillMoves DEF Browse, CartRequest, CartReplyFails, AddressReply, CartCounter,
       CartReply, pluginVars
  <2>2. QED
    BY <1>6, <1>7, <2>1 DEF ShopStep
<1>8. CASE UNCHANGED vars
  BY <1>8, StillMoves DEF vars, pluginVars
<1>9. QED
  BY <1>1, <1>2, <1>3, <1>4, <1>5, <1>7, <1>8 DEF Next, PlatformStep

\* The application never loses its last address.
LEMMA AddressesKept ==
    ASSUME TypeInv, [Next]_vars, addresses # {}
    PROVE  addresses' # {}
<1>1. CASE UNCHANGED addresses
  BY <1>1
<1>2. ASSUME NEW s \in Sessions, PageStep(s) PROVE UNCHANGED addresses
  BY <1>2 DEF PageStep, OpenFromCart, BuyNow, Back, IncrementConter, DecrementConter, SetCount,
     RemoveLine, TakeLine, RemoveLastLine, SelectPayment, SelectAddress, CallCODPayment,
     CallRazorPayPayment, appVars
<1>3. ASSUME OrderStep \/ PlatformStep PROVE UNCHANGED addresses
  BY <1>3 DEF OrderStep, HandlePaid, HandleNothing, PostOrder, OrderReply, OrderThrows,
     PlatformStep, appVars
<1>4. CASE ShopStep
  BY <1>4 DEF ShopStep, Browse, CartCounter, CartRequest, CartReplyFails, AddressReply, CartReply,
     ProcessDeath, SecondResultCrash, Restart
<1>5. QED
  BY <1>1, <1>2, <1>3, <1>4 DEF Next, vars, appVars

LEMMA AddressStep == TypeInv /\ TypeInv' /\ AddressInv /\ [Next]_vars => AddressInv'
<1> SUFFICES ASSUME TypeInv, TypeInv', AddressInv, [Next]_vars PROVE AddressInv'
  OBVIOUS
<1>1. addresses # {} => addresses' # {}
  BY AddressesKept
<1>2. ASSUME NEW s \in Sessions, page[s].valueselect # NoAddress
      PROVE  page'[s].valueselect # NoAddress
  <2>1. addresses # {}
    BY <1>2 DEF AddressInv
  <2>2. QED
    BY <1>2, <2>1, PageEdits DEF Same, Tapped, Started
<1>3. ASSUME NEW s \in Sessions, page'[s].valueselect # NoAddress PROVE addresses' # {}
  BY <1>1, <1>3, PageEdits DEF Same, Tapped, Started, AddressInv
<1>4. SheetMoves /\ ResultMoves
  BY PluginMoves
<1>5. \A p \in Payments : sheet'[p] # "unused" =>
        page'[owner'[p]].valueselect # NoAddress /\ owner'[p] \in Sessions
  BY <1>2, <1>4 DEF SheetMoves, AddressInv, TypeInv, OwnersKnown
<1>6. (\E p \in Payments : sheet'[p] # "unused") => addresses' # {}
  BY <1>3, <1>5
<1>7. pendingReply' # NoReply => addresses' # {}
  <2>1. ASSUME pendingResult = NoPayment, ~Uncovered PROVE addresses # {}
    BY <2>1 DEF Uncovered, AddressInv
  <2>2. QED
    BY <1>1, <1>4, <2>1 DEF SheetMoves, AddressInv
<1>8. \A r \in replies' : page'[r.session].valueselect # NoAddress
  <2> SUFFICES ASSUME NEW r \in replies' PROVE page[r.session].valueselect # NoAddress
    BY <1>2 DEF TypeInv, TypeOK, PluginTypeOK, Reply
  <2>1. r.session \in Sessions
    BY DEF TypeInv, TypeOK, PluginTypeOK, Reply
  <2>2. CASE r \in replies
    BY <2>2 DEF AddressInv
  <2>3. CASE pendingResult # NoPayment /\ r.session = owner[pendingResult]
    BY <2>3 DEF AddressInv, TypeInv, TypeOK, PluginTypeOK, OwnersKnown
  <2>4. CASE pendingReply # NoReply /\ resyncs[r.session] > 0
    BY <2>1, <2>4 DEF AddressInv
  <2>5. QED
    BY <1>4, <2>2, <2>3, <2>4 DEF SheetMoves
<1>9. \A t \in tasks' : page'[t.session].valueselect # NoAddress
  <2> SUFFICES ASSUME NEW t \in tasks' PROVE page[t.session].valueselect # NoAddress
    BY <1>2 DEF TypeInv, TypeOK, Task
  <2>1. QED
    BY TaskSources DEF AddressInv
<1>10. ASSUME NEW s \in Sessions, resyncs'[s] > 0, page'[s].valueselect = NoAddress
       PROVE  pendingReply' = NoReply /\ (pendingResult' = NoPayment => Uncovered')
  <2>1. page[s].valueselect = NoAddress
    BY <1>2, <1>10
  <2>2. Ask(s)
    BY <1>4, <1>10 DEF ResultMoves
  <2>3. pendingReply = NoReply /\ (pendingResult = NoPayment => Uncovered)
    <3>1. CASE resyncs[s] > 0
      BY <2>1, <3>1 DEF AddressInv
    <3>2. CASE Started(s)
      <4>1. addresses = {}
        BY <1>10, <3>2 DEF Started
      <4>2. QED
        BY <4>1 DEF AddressInv, Uncovered
    <3>3. QED
      BY <2>2, <3>1, <3>2 DEF Ask
  <2>4. pendingReply' = NoReply
    BY <1>4, <2>3 DEF SheetMoves
  <2>5. pendingResult' = NoPayment => Uncovered'
    BY <1>4, <1>10, <2>3 DEF ResultMoves
  <2>6. QED
    BY <2>4, <2>5
<1>11. QED
  BY <1>3, <1>5, <1>6, <1>7, <1>8, <1>9, <1>10 DEF AddressInv

\* No order goes out without an address, also when it is placed by a page that
\* never passed the guard of its "Continue": such a page is handed a result of
\* an earlier process, which had an address, and so was opened with one.
THEOREM AddressCorrect == Spec => []OrderHasAddress
<1>1. Init => TypeInv /\ AddressInv
  <2>1. Init => tasks = {} /\ PluginInit
    BY DEF Init
  <2>2. Init => AddressInv
    BY <2>1, InitPages DEF PluginInit, AddressInv, Uncovered
  <2>3. QED
    BY <2>2, InitTyped
<1>2. AddressInv => OrderHasAddress
  BY DEF AddressInv, OrderHasAddress, Building, Request
<1>3. QED
  BY <1>1, <1>2, TypeStep, AddressStep, PTL DEF Spec

-----------------------------------------------------------------------------
(* The page of a paid order. *)

Opener(s) == \E p \in Payments : sheet[p] # "unused" /\ owner[p] = s

PaidInv ==
    restarts = 0 =>
      /\ pendingReply = NoReply
      /\ pendingResult = NoPayment => Uncovered
      /\ \A r \in replies : Opener(r.session)
      /\ \A t \in tasks : t.handler # "cod" => Opener(t.session)
      /\ \A i \in DOMAIN orders : orders[i].handler # "cod" => Opener(orders[i].session)

\* As long as the process lives, no call is forgotten and no Result object
\* given up.
LEMMA RestartOrNot ==
    ASSUME TypeInv, [Next]_vars
    PROVE  \/ restarts' = restarts + 1
           \/ /\ restarts' = restarts
              /\ pendingResult' = NoPayment => pendingResult = NoPayment
              /\ ~Uncovered' => ~Uncovered \/ pendingResult' # NoPayment
              /\ \A p \in Payments : sheet[p] # "unused" =>
                    sheet'[p] # "unused" /\ owner'[p] = owner[p]
<1> DEFINE Goal ==
              /\ restarts' = restarts
              /\ pendingResult' = NoPayment => pendingResult = NoPayment
              /\ ~Uncovered' => ~Uncovered \/ pendingResult' # NoPayment
              /\ \A p \in Payments : sheet[p] # "unused" =>
                    sheet'[p] # "unused" /\ owner'[p] = owner[p]
<1>1. ASSUME UNCHANGED <<restarts, pendingResult, sheet, owner>> PROVE Goal
  BY <1>1 DEF Uncovered
<1>2. ASSUME NEW s \in Sessions, NEW p \in Payments, CallRazorPayPayment(s, p) PROVE Goal
  <2>1. Open(s, p) /\ restarts' = restarts
    BY <1>2 DEF CallRazorPayPayment
  <2>2. QED
    BY <2>1 DEF Open, Uncovered, TypeInv, TypeOK, PluginTypeOK
<1>3. ASSUME NEW s \in Sessions, PageStep(s) PROVE Goal
  <2>1. CASE \E p \in Payments : CallRazorPayPayment(s, p)
    BY <1>2, <2>1
  <2>2. CASE ~ \E p \in Payments : CallRazorPayPayment(s, p)
    <3>1. UNCHANGED <<restarts, pendingResult, sheet, owner>>
      BY <1>3, <2>2 DEF PageStep, OpenFromCart, BuyNow, InitState, On, Back, Leave, Clear,
         IncrementConter, DecrementConter, SetCount, RemoveLine, TakeLine, RemoveLastLine,
         SelectPayment, SelectAddress, CallCODPayment, histVars, pluginVars
    <3>2. QED
      BY <1>1, <3>1
  <2>3. QED
    BY <2>1, <2>2
<1>4. ASSUME NEW p \in Payments, OpenCheckout(p), UNCHANGED restarts PROVE Goal
  BY <1>4, RazorpayAssumption DEF OpenCheckout, Uncovered, TypeInv, TypeOK, PluginTypeOK
<1>5. ASSUME NEW p \in Payments, NEW t \in ReplyTypes, SendReply(p, t), UNCHANGED restarts
      PROVE  Goal
  BY <1>5 DEF SendReply, ReplyTypes, Uncovered, TypeInv, TypeOK, PluginTypeOK
<1>6. CASE PlatformStep
  BY <1>1, <1>4, <1>5, <1>6 DEF PlatformStep, Resync, histVars
<1>7. CASE OrderStep
  BY <1>1, <1>7 DEF OrderStep, HandlePaid, HandleNothing, HandleResult, PostOrder, OrderReply,
     OrderThrows, Leave, Clear, histVars, pluginVars
<1>8. CASE ShopStep
  BY <1>1, <1>8 DEF ShopStep, Browse, CartCounter, CartRequest, CartReplyFails, AddressReply,
     CartReply, ProcessDeath, SecondResultCrash, Restart, histVars, pluginVars
<1>9. CASE UNCHANGED vars
  BY <1>1, <1>9 DEF vars, histVars, pluginVars
<1>10. QED
  BY <1>3, <1>6, <1>7, <1>8, <1>9 DEF Next

LEMMA PaidStep == TypeInv /\ TypeInv' /\ PaidInv /\ [Next]_vars => PaidInv'
<1> SUFFICES ASSUME TypeInv, TypeInv', PaidInv, [Next]_vars, restarts' = 0 PROVE PaidInv'
  BY DEF PaidInv
<1>1. restarts = 0 /\ restarts' = restarts
  BY RestartOrNot DEF TypeInv, TypeOK
<1>2. /\ pendingResult' = NoPayment => pendingResult = NoPayment
      /\ ~Uncovered' => ~Uncovered \/ pendingResult' # NoPayment
      /\ \A p \in Payments : sheet[p] # "unused" =>
            sheet'[p] # "unused" /\ owner'[p] = owner[p]
  BY <1>1, RestartOrNot DEF TypeInv, TypeOK
<1>3. SheetMoves
  BY PluginMoves
<1>4. \A s : Opener(s) => Opener(s)'
  BY <1>2 DEF Opener
<1>5. pendingReply' = NoReply /\ (pendingResult' = NoPayment => Uncovered')
  BY <1>1, <1>2, <1>3 DEF PaidInv, SheetMoves
<1>6. \A r \in replies' : Opener(r.session)
  BY <1>1, <1>3 DEF PaidInv, SheetMoves, Opener, TypeInv, TypeOK, PluginTypeOK, OwnersKnown
<1>7. \A t \in tasks' : t.handler # "cod" => Opener(t.session)
  BY <1>1, TaskSources DEF PaidInv
<1>8. \A i \in DOMAIN orders' : orders'[i].handler # "cod" => Opener(orders'[i].session)
  BY <1>1, OrderSources DEF PaidInv
<1>9. QED
  BY <1>4, <1>5, <1>6, <1>7, <1>8 DEF PaidInv

\* Until the process ends, a page that opened no payment sheet places no paid
\* order, whatever other pages' sheets report and whenever.
THEOREM OpenerCorrect == Spec => []PaidOrderFromOpener
<1>1. Init => TypeInv /\ PaidInv
  <2>1. Init => tasks = {} /\ orders = <<>> /\ PluginInit
    BY DEF Init
  <2>2. Init => PaidInv
    BY <2>1 DEF PluginInit, PaidInv, Uncovered
  <2>3. QED
    BY <2>2, InitTyped
<1>2. TypeInv /\ PaidInv => PaidOrderFromOpener
  BY DEF PaidInv, PaidOrderFromOpener, Opener, PaymentType, TypeInv, TypeOK
<1>3. QED
  BY <1>1, <1>2, TypeStep, PaidStep, PTL DEF Spec

-----------------------------------------------------------------------------
(* Checkout implements PaymentLife.  PayInv says that a result is in one place *)
(* only, which is what makes each step a single move of one result.           *)

Lived == <<NotAsked, AskedFor, Waiting, Claimed, OrderedFor>>

\* Nothing PaymentLife sees.
LEMMA UnseenLife ==
    ASSUME UNCHANGED <<orders, replies, pendingReply, sheet>>, Building' = Building
    PROVE  UNCHANGED Lived
BY DEF Lived, NotAsked, AskedFor, Waiting, Stored, Claimed, OrderedFor

\* The result of r, on its way.
Tag(r) == [payment |-> r.payment, kind |-> r.type]

\* A result that is not an error waits; no other one of its payment does.
LEMMA WaitingTag ==
    ASSUME TypeInv, PayInv, NEW r \in replies \cup Stored
    PROVE  /\ r.type # "error" => Tag(r) \in Waiting /\ Tag(r) \in Payment!PaidResult
           /\ \A x \in replies \cup Stored : x # r => Tag(x) # Tag(r)
<1>1. r.payment \in Payments /\ r.type \in ReplyTypes
  BY ResultsTyped DEF Stored
<1>2. r.type # "error" => Tag(r) \in Waiting /\ Tag(r) \in Payment!PaidResult
  BY <1>1 DEF Waiting, Tag, Payment!PaidResult, ReplyTypes
<1>3. ASSUME NEW x \in replies \cup Stored, x # r
      PROVE  x.payment # r.payment
  BY <1>3 DEF PayInv, ResultsInv, Stored
<1>4. QED
  BY <1>2, <1>3 DEF Tag

\* A result leaves the channel.
LEMMA ResultLeaves ==
    ASSUME TypeInv, PayInv, NEW r \in replies, replies' = replies \ {r},
           pendingReply' = pendingReply
    PROVE  Waiting' = Waiting \ {Tag(r)}
<1> DEFINE X == {x \in replies \cup Stored : x.type # "error"}
           Y == {x \in replies' \cup Stored' : x.type # "error"}
<1>1. r \notin Stored /\ Stored' = Stored
  BY DEF PayInv, ResultsInv, Stored
<1>2. Y = X \ {r}
  BY <1>1
<1>3. \A x \in X : x # r => Tag(x) # Tag(r)
  BY WaitingTag
<1> HIDE DEF X, Y
<1>4. {Tag(x) : x \in Y} = {Tag(x) : x \in X} \ {Tag(r)}
  BY <1>2, <1>3
<1>5. QED
  BY <1>4 DEF X, Y, Tag, Waiting

\* Of the page's own taps only "Continue" with Prepaid moves a payment.
LEMMA PageLives ==
    ASSUME TypeInv, NEW s \in Sessions, PageStep(s)
    PROVE  Payment!Next \/ UNCHANGED Lived
<1>1. ASSUME NEW p \in Payments, CallRazorPayPayment(s, p)
      PROVE  Payment!Ask(p)
  <2>1. UNCHANGED <<tasks, orders, replies, pendingReply>>
    BY <1>1 DEF CallRazorPayPayment, Open, appVars
  <2>2. UNCHANGED <<Waiting, Claimed, OrderedFor>>
    BY <2>1 DEF Waiting, Stored, Claimed, OrderedFor, Building
  <2>3. sheet[p] = "unused" /\ sheet' = [sheet EXCEPT ![p] = "invoked"]
    BY <1>1 DEF CallRazorPayPayment, Open
  <2>4. p \in NotAsked /\ NotAsked' = NotAsked \ {p} /\ AskedFor' = AskedFor \cup {p}
    BY <2>3 DEF NotAsked, AskedFor, TypeInv, TypeOK, PluginTypeOK
  <2>5. QED
    BY <2>2, <2>4 DEF Payment!Ask
<1>2. ASSUME CallCODPayment(s)
      PROVE  UNCHANGED Lived
  <2> DEFINE new == [session |-> s, handler |-> "cod", payment |-> NoPayment, at |-> "storage"]
  <2>1. tasks' = tasks \cup {new} /\ UNCHANGED <<orders, replies, pendingReply, sheet>>
    BY <1>2 DEF CallCODPayment, histVars, pluginVars
  <2>2. new.handler = "cod"
    OBVIOUS
  <2> HIDE DEF new
  <2>3. {u \in Building' : u.handler # "cod"} = {u \in Building : u.handler # "cod"}
    BY <2>1, <2>2 DEF Building
  <2>4. QED
    BY <2>1, <2>3 DEF Lived, NotAsked, AskedFor, Waiting, Stored, Claimed, OrderedFor
<1>3. ASSUME ~CallCODPayment(s), ~ \E p \in Payments : CallRazorPayPayment(s, p)
      PROVE  UNCHANGED Lived
  <2>1. UNCHANGED <<tasks, orders, replies, pendingReply, sheet>>
    BY <1>3 DEF PageStep, OpenFromCart, BuyNow, InitState, On, Back, Leave, Clear,
                IncrementConter, DecrementConter, SetCount, RemoveLine, TakeLine,
                RemoveLastLine, SelectPayment, SelectAddress, histVars, pluginVars
  <2>2. QED
    BY <2>1, UnseenLife DEF Building
<1>4. QED
  BY <1>1, <1>2, <1>3 DEF Payment!Next

LEMMA HandlePaidLives ==
    ASSUME TypeInv, PayInv, NEW r \in replies, HandlePaid(r)
    PROVE  Payment!Take(Tag(r)) /\ Tag(r) \in Payment!PaidResult
<1> DEFINE new == [session |-> r.session, handler |-> HandlerOf(r.type),
                   payment |-> r.payment, at |-> "storage"]
<1>1. /\ tasks' = tasks \cup {new} /\ replies' = replies \ {r} /\ r.type # "error"
      /\ UNCHANGED <<orders, pendingReply, sheet>>
  BY DEF HandlePaid, HandleResult, histVars
<1>2. r.type \in ReplyTypes
  BY ResultsTyped
<1>3. Tag(r) \in Waiting /\ Tag(r) \in Payment!PaidResult
  BY <1>1, WaitingTag
<1>4. Waiting' = Waiting \ {Tag(r)}
  BY <1>1, ResultLeaves
<1>5. new.handler # "cod" /\ new.at = "storage" /\ Claim(new) = Tag(r)
  BY <1>1, <1>2 DEF HandlerOf, Claim, Tag, ReplyTypes
<1> HIDE DEF new
<1>6. {u \in Building' : u.handler # "cod"} = {u \in Building : u.handler # "cod"} \cup {new}
  BY <1>1, <1>5 DEF Building
<1>7. Claimed' = Claimed \cup {Tag(r)}
  BY <1>5, <1>6 DEF Claimed
<1>8. UNCHANGED <<NotAsked, AskedFor, OrderedFor>>
  BY <1>1 DEF NotAsked, AskedFor, OrderedFor
<1>9. QED
  BY <1>3, <1>4, <1>7, <1>8 DEF Payment!Take

LEMMA HandleNothingLives ==
    ASSUME TypeInv, PayInv, NEW r \in replies, HandleNothing(r)
    PROVE  Payment!Next \/ UNCHANGED Lived
<1>1. /\ replies' = replies \ {r}
      /\ UNCHANGED <<tasks, orders, pendingReply, sheet>>
  BY DEF HandleNothing, HandleResult, appVars, histVars
<1>2. UNCHANGED <<NotAsked, AskedFor, Claimed, OrderedFor>>
  BY <1>1 DEF NotAsked, AskedFor, Claimed, OrderedFor, Building
<1>3. Waiting' = Waiting \ {Tag(r)}
  BY <1>1, ResultLeaves
<1>4. CASE r.type = "error"
  <2>1. Tag(r) \notin Waiting
    BY <1>4 DEF Waiting, Tag
  <2>2. QED
    BY <1>2, <1>3, <2>1 DEF Lived
<1>5. CASE r.type # "error"
  <2>1. Tag(r) \in Waiting /\ Tag(r) \in Payment!PaidResult
    BY <1>5, WaitingTag
  <2>2. Payment!Drop(Tag(r))
    BY <1>2, <1>3, <2>1 DEF Payment!Drop
  <2>3. QED
    BY <2>1, <2>2 DEF Payment!Next
<1>6. QED
  BY <1>4, <1>5

\* The claim of a handler that is posted was held by that handler only.
LEMMA PostOrderLives ==
    ASSUME TypeInv, PayInv, NEW t \in tasks, PostOrder(t)
    PROVE  Payment!Next \/ UNCHANGED Lived
<1> DEFINE o == [session |-> t.session, handler |-> t.handler, payment |-> t.payment]
           posted == [t EXCEPT !.at = "posted"]
           n == Len(orders) + 1
           Paid(S) == {u \in S : u.handler # "cod"}
<1>1. /\ t \in Task /\ t \in Building
      /\ orders' = Append(orders, o)
      /\ tasks' = (tasks \ {t}) \cup {posted}
      /\ UNCHANGED <<replies, pendingReply, sheet>>
  BY DEF PostOrder, HasDeviceId, TypeInv, TypeOK, Building, pluginVars
<1>2. posted.at = "posted"
  BY <1>1 DEF Task
<1>3. o.handler = t.handler /\ Claim(o) = Claim(t)
  BY DEF Claim
<1> HIDE DEF o, posted
<1>4. /\ DOMAIN orders' = DOMAIN orders \cup {n} /\ n \notin DOMAIN orders
      /\ \A i \in DOMAIN orders : orders'[i] = orders[i]
      /\ orders'[n] = o
  BY <1>1 DEF TypeInv, TypeOK
<1> HIDE DEF n
<1>5. Building' = Building \ {t}
  BY <1>1, <1>2 DEF Building
<1>6. UNCHANGED <<NotAsked, AskedFor, Waiting>>
  BY <1>1 DEF NotAsked, AskedFor, Waiting, Stored
<1>7. CASE t.handler = "cod"
  <2>1. Paid(Building') = Paid(Building)
    BY <1>5, <1>7
  <2>2. Claimed' = Claimed /\ OrderedFor' = OrderedFor
    BY <1>3, <1>4, <1>7, <2>1 DEF Claimed, OrderedFor
  <2>3. QED
    BY <1>6, <2>2 DEF Lived
<1>8. CASE t.handler # "cod"
  <2>1. \A u \in Paid(Building) : u # t => Claim(u) # Claim(t)
    BY <1>1, <1>8 DEF PayInv, PaidOnce, Claim, Building
  <2>2. Paid(Building') = Paid(Building) \ {t} /\ t \in Paid(Building)
    BY <1>1, <1>5, <1>8
  <2>3. Claimed = {Claim(u) : u \in Paid(Building)}
        /\ Claimed' = {Claim(u) : u \in Paid(Building')}
    BY DEF Claimed
  <2>4. Claim(t) \in Claimed /\ Claimed' = Claimed \ {Claim(t)}
    BY <2>1, <2>2, <2>3
  <2>5. OrderedFor' = OrderedFor \cup {Claim(t)}
    BY <1>3, <1>4, <1>8 DEF OrderedFor
  <2>6. t.payment \in Payments /\ t.handler \in Handlers
    BY <1>1, <1>8 DEF PayInv, Backed, Task
  <2>7. Claim(t) \in Payment!PaidResult
    BY <1>8, <2>6 DEF Claim, Payment!PaidResult, Handlers
  <2>8. Payment!PostOrder(Claim(t))
    BY <1>6, <2>4, <2>5 DEF Payment!PostOrder
  <2>9. QED
    BY <2>7, <2>8 DEF Payment!Next
<1>9. QED
  BY <1>7, <1>8

LEMMA OrderLives ==
    ASSUME TypeInv, PayInv, OrderStep
    PROVE  Payment!Next \/ UNCHANGED Lived
<1>1. ASSUME NEW r \in replies, HandlePaid(r)
      PROVE  Payment!Next
  BY <1>1, HandlePaidLives DEF Payment!Next
<1>2. ASSUME NEW t \in tasks, OrderThrows(t) \/ \E ok \in BOOLEAN : OrderReply(t, ok)
      PROVE  UNCHANGED Lived
  <2>1. UNCHANGED <<orders, replies, pendingReply, sheet>>
    BY <1>2 DEF OrderThrows, OrderReply, Leave, Clear, histVars, pluginVars
  <2>2. tasks' = tasks \ {t} /\ t.at = "posted"
    BY <1>2 DEF OrderThrows, OrderReply
  <2>3. Building' = Building
    BY <2>2 DEF Building
  <2>4. QED
    BY <2>1, <2>3, UnseenLife
<1>3. QED
  BY <1>1, <1>2, HandleNothingLives, PostOrderLives DEF OrderStep

\* A closing sheet yields its result, and may push a stored one out.
LEMMA SendReplyLives ==
    ASSUME TypeInv, PayInv, UNCHANGED <<tasks, orders>>,
           NEW p \in Payments, NEW type \in ReplyTypes, SendReply(p, type)
    PROVE  Payment!Close(p)
<1> DEFINE r == [payment |-> p, type |-> type]
           Out == IF pendingReply # NoReply /\ pendingReply.type # "error"
                  THEN {Tag(pendingReply)} ELSE {}
           In == IF type = "error" THEN {} ELSE {Tag(r)}
           Paid(S) == {x \in S : x.type # "error"}
           All == replies \cup Stored
<1>1. /\ sheet[p] = "open" /\ sheet' = [sheet EXCEPT ![p] = type]
      /\ sheet \in [Payments -> SheetState]
  BY DEF SendReply, TypeInv, TypeOK, PluginTypeOK
<1>2. p \in AskedFor /\ AskedFor' = AskedFor \ {p} /\ NotAsked' = NotAsked
  BY <1>1 DEF AskedFor, NotAsked, ReplyTypes
<1>3. UNCHANGED <<Claimed, OrderedFor>>
  BY DEF Claimed, OrderedFor, Building
<1>4. PICK new : /\ new.payment = p /\ new.type = type
                 /\ replies' \cup Stored' = replies \cup {new}
  <2>1. CASE /\ pendingResult # NoPayment /\ pendingReply' = NoReply
             /\ replies' = replies \cup
                  {[session |-> owner[pendingResult], payment |-> p, type |-> type]}
    <3> DEFINE new == [session |-> owner[pendingResult], payment |-> p, type |-> type]
    <3>1. new.payment = p /\ new.type = type
      OBVIOUS
    <3>2. replies' \cup Stored' = replies \cup {new}
      BY <2>1 DEF Stored
    <3> HIDE DEF new
    <3>3. QED
      BY <3>1, <3>2
  <2>2. CASE replies' = replies /\ pendingReply' = r
    <3>1. r # NoReply
      BY RazorpayAssumption DEF Result
    <3>2. QED
      BY <2>2, <3>1 DEF Stored
  <2>3. QED
    BY <2>1, <2>2 DEF SendReply
<1>5. Waiting = {Tag(x) : x \in Paid(All)}
      /\ Waiting' = {Tag(x) : x \in Paid(replies \cup {new})}
  BY <1>4 DEF Waiting, Tag
<1>6. Tag(new) = Tag(r)
  BY <1>4 DEF Tag
<1>7. {Tag(x) : x \in Paid({new})} = In
  BY <1>4, <1>6
<1>8. {Tag(x) : x \in Paid(replies)} = Waiting \ Out
  <2>1. CASE pendingReply = NoReply
    BY <1>5, <2>1 DEF Stored
  <2>2. CASE pendingReply # NoReply
    <3>1. Stored = {pendingReply}
      BY <2>2 DEF Stored
    <3>2. \A x \in replies : Tag(x) # Tag(pendingReply)
      BY <2>2 DEF PayInv, ResultsInv, Tag
    <3> HIDE DEF Tag
    <3>3. QED
      BY <1>5, <2>2, <3>1, <3>2
  <2>3. QED
    BY <2>1, <2>2
<1>9. Waiting' = (Waiting \ Out) \cup In
  BY <1>5, <1>7, <1>8
<1>10. In \in {{}} \cup {{x} : x \in {y \in Payment!PaidResult : y.payment = p}}
  <2>1. CASE type = "error"
    BY <2>1
  <2>2. CASE type # "error"
    <3>1. Tag(r) \in Payment!PaidResult /\ Tag(r).payment = p
      BY <2>2 DEF Tag, Payment!PaidResult, ReplyTypes
    <3>2. In = {Tag(r)}
      BY <2>2
    <3> HIDE DEF In
    <3>3. QED
      BY <3>1, <3>2
  <2>3. QED
    BY <2>1, <2>2
<1>11. Out \in {{}} \cup {{x} : x \in Waiting}
  <2>1. CASE pendingReply = NoReply \/ pendingReply.type = "error"
    BY <2>1
  <2>2. CASE pendingReply # NoReply /\ pendingReply.type # "error"
    <3>1. pendingReply \in Stored
      BY <2>2 DEF Stored
    <3>2. Tag(pendingReply) \in Waiting
      BY <2>2, <3>1, WaitingTag
    <3>3. QED
      BY <2>2, <3>2
  <2>3. QED
    BY <2>1, <2>2
<1> HIDE DEF In, Out
<1>12. QED
  BY <1>2, <1>3, <1>9, <1>10, <1>11 DEF Payment!Close

\* resync moves a result from the delegate to the channel, where it waits too.
LEMMA ResyncLives ==
    ASSUME TypeInv, PayInv, UNCHANGED <<tasks, orders>>, NEW s \in Sessions, Resync(s)
    PROVE  UNCHANGED Lived
<1>1. UNCHANGED <<NotAsked, AskedFor, Claimed, OrderedFor>>
  BY DEF Resync, NotAsked, AskedFor, Claimed, OrderedFor, Building
<1>2. CASE pendingReply = NoReply
  BY <1>1, <1>2 DEF Resync, Lived, Waiting, Stored
<1>3. CASE pendingReply # NoReply
  <2> DEFINE new == [session |-> s, payment |-> pendingReply.payment,
                     type |-> pendingReply.type]
             Paid(S) == {x \in S : x.type # "error"}
  <2>1. replies \cup Stored = replies \cup {pendingReply}
        /\ replies' \cup Stored' = replies \cup {new}
    BY <1>3 DEF Resync, Stored
  <2>2. new.payment = pendingReply.payment /\ new.type = pendingReply.type
    OBVIOUS
  <2> HIDE DEF new
  <2>3. Waiting' = Waiting
    BY <2>1, <2>2 DEF Waiting
  <2>4. QED
    BY <1>1, <2>3 DEF Lived
<1>4. QED
  BY <1>2, <1>3

LEMMA PlatformLives ==
    ASSUME TypeInv, PayInv, PlatformStep
    PROVE  Payment!Next \/ UNCHANGED Lived
<1>1. UNCHANGED <<tasks, orders>>
  BY DEF PlatformStep, appVars, histVars
<1>2. ASSUME NEW p \in Payments, OpenCheckout(p)
      PROVE  UNCHANGED Lived
  <2>1. UNCHANGED <<Waiting, Claimed, OrderedFor>>
    BY <1>1, <1>2 DEF OpenCheckout, Waiting, Stored, Claimed, OrderedFor, Building
  <2>2. UNCHANGED <<NotAsked, AskedFor>>
    BY <1>2 DEF OpenCheckout, NotAsked, AskedFor, TypeInv, TypeOK, PluginTypeOK
  <2>3. QED
    BY <2>1, <2>2 DEF Lived
<1>3. ASSUME NEW p \in Payments, NEW type \in ReplyTypes, SendReply(p, type)
      PROVE  Payment!Next
  BY <1>1, <1>3, SendReplyLives DEF Payment!Next
<1>4. QED
  BY <1>1, <1>2, <1>3, ResyncLives DEF PlatformStep

LEMMA ShopLives ==
    ASSUME TypeInv, ShopStep
    PROVE  Payment!Next \/ UNCHANGED Lived
<1>1. ASSUME NEW b, NEW L, NEW q,
             \/ ProcessDeath(b, L, q)
             \/ \E p \in Payments : SecondResultCrash(p, b, L, q)
      PROVE  Payment!ProcessEnds
  <2>1. PICK closed : (\A p \in closed : sheet[p] = "open") /\ Restart(closed, b, L, q)
    BY <1>1 DEF ProcessDeath, SecondResultCrash, AnswersTwice
  <2>2. tasks' = {} /\ replies' = {} /\ pendingReply' = NoReply /\ orders' = orders
    BY <2>1 DEF Restart, PluginRestart
  <2>3. Waiting' = {} /\ Claimed' = {} /\ OrderedFor' = OrderedFor
    BY <2>2 DEF Waiting, Stored, Claimed, OrderedFor, Building
  <2>4. \A p \in Payments : sheet'[p] = IF p \in closed \/ sheet[p] = "invoked"
                                        THEN "lost" ELSE sheet[p]
    BY <2>1 DEF Restart, PluginRestart
  <2>5. NotAsked' = NotAsked /\ AskedFor' \subseteq AskedFor
    BY <2>1, <2>4 DEF NotAsked, AskedFor
  <2>6. QED
    BY <2>3, <2>5 DEF Payment!ProcessEnds
<1>2. ASSUME \/ Browse \/ CartRequest \/ CartReplyFails
             \/ \E A \in SUBSET Addresses : AddressReply(A)
             \/ \E l \in Lines, n \in Qty : CartCounter(l, n)
             \/ \E b, L, q : CartReply(b, L, q)
      PROVE  UNCHANGED Lived
  <2>1. UNCHANGED <<tasks, orders, replies, pendingReply, sheet>>
    BY <1>2 DEF Browse, CartRequest, CartReplyFails, AddressReply, CartCounter,
                CartReply, histVars, pluginVars
  <2>2. QED
    BY <2>1, UnseenLife DEF Building
<1>3. QED
  BY <1>1, <1>2 DEF ShopStep, Payment!Next

LEMMA LifeInit == Init => Payment!Init
<1>1. Init => tasks = {} /\ orders = <<>> /\ PluginInit
  BY DEF Init
<1>2. QED
  BY <1>1 DEF PluginInit, Payment!Init, NotAsked, AskedFor, Waiting, Stored, Claimed,
              OrderedFor, Building

LEMMA LifeStep == TypeInv /\ PayInv /\ [Next]_vars => [Payment!Next]_Lived
<1>1. ASSUME TypeInv, UNCHANGED vars
      PROVE  UNCHANGED Lived
  BY <1>1, UnseenLife DEF vars, appVars, histVars, pluginVars, Building
<1>2. QED
  BY <1>1, PageLives, OrderLives, PlatformLives, ShopLives DEF Next

\* What happens to payments and their results, in Placeorder's handlers, in the
\* plugin's delegate and channel and when the process ends, is what PaymentLife
\* allows: each result moves on once, unchanged, or is lost for good.
THEOREM LifeRefines == Spec => IsPaymentLife
<1>1. Spec => [](TypeInv /\ PayInv)
  BY InitTyped, TypeStep, PayInit, PayStep, PTL DEF Spec
<1>2. QED
  BY <1>1, LifeInit, LifeStep, PTL DEF Spec, IsPaymentLife, Payment!Spec, Payment!vars, Lived
=============================================================================
