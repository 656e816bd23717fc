--------------------------- MODULE CheckoutProofs ---------------------------
(* Theorems about Checkout for every value of its constants. *)
EXTENDS CheckoutProperties, TLAPS

\* A sheet that was asked for has a page; the delegate answers such a call.
OwnersKnown ==
    /\ \A p \in Payments : sheet[p] # "unused" => owner[p] \in Sessions
    /\ pendingResult # NoPayment => sheet[pendingResult] # "unused"

PluginInv == PluginTypeOK /\ OwnersKnown

-----------------------------------------------------------------------------
(* The plugin's actions preserve its invariant. *)

\* Creating and clearing the event emitter keeps the plugin's invariant.
LEMMA OnClearKeepPlugin ==
    ASSUME PluginInv, NEW s \in Sessions, On(s) \/ Clear(s)
    PROVE  PluginInv'
BY DEF PluginInv, PluginTypeOK, OwnersKnown, On, Clear

\* Calling open keeps the plugin's invariant.
LEMMA OpenKeepsPlugin ==
    ASSUME PluginInv, NEW s \in Sessions, NEW p \in Payments, Open(s, p)
    PROVE  PluginInv'
<1>1. PluginTypeOK'
  BY DEF PluginInv, PluginTypeOK, Open, SheetState
<1>2. OwnersKnown'
  BY DEF PluginInv, PluginTypeOK, OwnersKnown, Open
<1>3. QED
  BY <1>1, <1>2 DEF PluginInv

\* Taking a result off the channel keeps the plugin's invariant.
LEMMA HandleResultKeepsPlugin ==
    ASSUME PluginInv, NEW r, HandleResult(r), UNCHANGED listening
    PROVE  PluginInv'
BY DEF PluginInv, PluginTypeOK, OwnersKnown, HandleResult

\* The delegate's steps keep the plugin's invariant; in particular a result is
\* only ever addressed to a page.
LEMMA DelegateKeepsPlugin ==
    ASSUME PluginInv,
           \/ \E p \in Payments : OpenCheckout(p)
           \/ \E p \in Payments, t \in ReplyTypes : SendReply(p, t)
           \/ \E s \in Sessions : Resync(s)
    PROVE  PluginInv'
<1>1. ASSUME NEW p \in Payments, OpenCheckout(p)
      PROVE  PluginInv'
  <2>1. PluginTypeOK'
    BY <1>1 DEF PluginInv, PluginTypeOK, OpenCheckout, SheetState
  <2>2. OwnersKnown'
    BY <1>1 DEF PluginInv, PluginTypeOK, OwnersKnown, OpenCheckout
  <2>3. QED
    BY <2>1, <2>2 DEF PluginInv
<1>2. ASSUME NEW p \in Payments, NEW t \in ReplyTypes, SendReply(p, t)
      PROVE  PluginInv'
  <2>1. t # "unused" /\ t \in SheetState
    BY DEF ReplyTypes, SheetState
  <2>2. OwnersKnown'
    BY <1>2, <2>1 DEF PluginInv, PluginTypeOK, OwnersKnown, SendReply
  <2>3. sheet' \in [Payments -> SheetState]
    BY <1>2, <2>1 DEF PluginInv, PluginTypeOK, SendReply
  <2>4. [payment |-> p, type |-> t] \in Result
    BY DEF Result
  <2>5. pendingResult # NoPayment =>
          [session |-> owner[pendingResult], payment |-> p, type |-> t] \in Reply
    BY DEF PluginInv, PluginTypeOK, OwnersKnown, Reply
  <2>6. PluginTypeOK'
    BY <1>2, <2>3, <2>4, <2>5 DEF PluginInv, PluginTypeOK, SendReply
  <2>7. QED
    BY <2>2, <2>6 DEF PluginInv
<1>3. ASSUME NEW s \in Sessions, Resync(s)
      PROVE  PluginInv'
  <2>1. OwnersKnown'
    BY <1>3 DEF PluginInv, OwnersKnown, Resync
  <2>2. replies' \subseteq Reply
    BY <1>3 DEF PluginInv, PluginTypeOK, Resync, Reply, Result
  <2>3. resyncs' \in [Sessions -> 0..3]
    BY <1>3 DEF PluginInv, PluginTypeOK, Resync
  <2>4. PluginTypeOK'
    BY <1>3, <2>2, <2>3 DEF PluginInv, PluginTypeOK, Resync
  <2>5. QED
    BY <2>1, <2>4 DEF PluginInv
<1>4. QED
  BY <1>1, <1>2, <1>3

\* A process death keeps the plugin's invariant.
LEMMA RestartKeepsPlugin ==
    ASSUME PluginInv, NEW closed, \A p \in closed : sheet[p] = "open",
           PluginRestart(closed)
    PROVE  PluginInv'
<1>1. sheet' \in [Payments -> SheetState]
  BY DEF PluginInv, PluginTypeOK, PluginRestart, SheetState
<1>2. resyncs' \in [Sessions -> 0..3]
  <2>1. 0 \in 0..3
    OBVIOUS
  <2>2. QED
    BY <2>1 DEF PluginRestart
<1>3. PluginTypeOK'
  BY <1>1, <1>2 DEF PluginInv, PluginTypeOK, PluginRestart
<1>4. OwnersKnown'
  BY DEF PluginInv, PluginTypeOK, OwnersKnown, PluginRestart
<1>5. QED
  BY <1>3, <1>4 DEF PluginInv

-----------------------------------------------------------------------------
(* Type correctness. *)

\* The page that listens is the one on top of the navigator, and only one does.
OneOnTop ==
    /\ \A s \in listening : screen = "placeorder" /\ page[s].batch # NoBatch
    /\ \A s, t \in listening : s = t

TypeInv == TypeOK /\ OwnersKnown /\ OneOnTop

\* The totals of any products are a bill.
LEMMA BillIsTyped ==
    ASSUME NEW L \in SUBSET Lines, NEW q \in [Lines -> Qty], NEW cod \in BOOLEAN
    PROVE  Bill(L, q, cod) \in Bills
BY DEF Bills

\* The initial states are well typed.
LEMMA InitTyped == Init => TypeInv
<1> SUFFICES ASSUME Init PROVE TypeInv
  OBVIOUS
<1>1. PluginInv
  <2>1. 0 \in 0..3
    OBVIOUS
  <2>2. QED
    BY <2>1 DEF Init, PluginInit, PluginInv, PluginTypeOK, OwnersKnown, SheetState
<1>2. 1 \in Qty
  BY CheckoutAssumption DEF Qty
<1>3. NoPage \in Page
  <2>1. Bill({}, [l \in Lines |-> 1], FALSE) \in Bills
    BY <1>2, BillIsTyped
  <2>2. QED
    BY <2>1 DEF NoPage, Page
<1>4. /\ pcount \in [Batches -> [Lines -> Qty]]
      /\ cart \in [batch : Batches, lines : SUBSET Lines]
  BY <1>2 DEF Init
<1>5. orders \in Seq(Order) /\ tasks \subseteq Task /\ page \in [Sessions -> Page]
  BY <1>3 DEF Init
<1>6. QED
  BY <1>1, <1>4, <1>5 DEF Init, TypeInv, PluginInv, PluginInit, TypeOK, OneOnTop

\* An action that leaves the plugin alone and writes well-typed state of the
\* page's own keeps the invariant.
LEMMA BodyTyped ==
    ASSUME TypeInv, UNCHANGED <<pluginVars, screen>>,
           cart' \in [batch : Batches, lines : SUBSET Lines],
           pcount' \in [Batches -> [Lines -> Qty]],
           page' \in [Sessions -> Page],
           \A s \in Sessions : page'[s].batch = page[s].batch,
           addresses' \subseteq Addresses, calls' \in Nat, tasks' \subseteq Task,
           orders' \in Seq(Order), touched' \subseteq Payments, restarts' \in Nat,
           UNCHANGED charged
    PROVE  TypeInv'
<1>1. PluginTypeOK' /\ OwnersKnown'
  BY DEF TypeInv, TypeOK, PluginTypeOK, OwnersKnown, pluginVars
<1>2. OneOnTop'
  BY DEF TypeInv, TypeOK, PluginTypeOK, OneOnTop, pluginVars
<1>3. QED
  BY <1>1, <1>2 DEF TypeInv, TypeOK

\* A page that takes taps is open.
LEMMA TappableIsOpen ==
    ASSUME TypeInv, NEW s \in Sessions, Mounted(s)
    PROVE  page[s].batch \in Batches
BY DEF TypeInv, TypeOK, OneOnTop, Mounted, Page

\* The counters of the page.
LEMMA SetCountTyped ==
    ASSUME TypeInv, NEW s \in Sessions, NEW l \in Lines, NEW n \in Qty,
           Mounted(s), SetCount(s, l, n)
    PROVE  TypeInv'
<1> DEFINE b == page[s].batch
           q == [pcount[b] EXCEPT ![l] = n]
<1>1. q \in [Lines -> Qty]
  BY TappableIsOpen DEF TypeInv, TypeOK
<1>2. Bill(page[s].lines, q, page[s].cod) \in Bills
  BY <1>1, BillIsTyped DEF TypeInv, TypeOK, Page
<1>3. page' \in [Sessions -> Page] /\ \A r \in Sessions : page'[r].batch = page[r].batch
  BY <1>2 DEF SetCount, TypeInv, TypeOK, Page
<1>4. pcount' \in [Batches -> [Lines -> Qty]]
  BY <1>1 DEF SetCount, TypeInv, TypeOK
<1>5. calls' \in Nat /\ touched' \subseteq Payments
  BY DEF SetCount, CallCartlist, Touch, TypeInv, TypeOK
<1>6. QED
  BY <1>3, <1>4, <1>5, BodyTyped DEF SetCount, TypeInv, TypeOK

\* The garbage can on one of several lines.
LEMMA RemoveLineTyped ==
    ASSUME TypeInv, NEW s \in Sessions, NEW l \in Lines, RemoveLine(s, l)
    PROVE  TypeInv'
<1> DEFINE new  == page[s].lines \ {l}
           bill == Bill(new, pcount[page[s].batch], page[s].cod)
           mid  == [page EXCEPT ![s].lines = new]
<1>1. bill \in Bills
  <2>1. pcount[page[s].batch] \in [Lines -> Qty]
    BY TappableIsOpen DEF RemoveLine, TakeLine, CanTap, TypeInv, TypeOK
  <2>2. page[s].lines \in SUBSET Lines /\ page[s].cod \in BOOLEAN
    BY DEF TypeInv, TypeOK, Page
  <2>3. QED
    BY <2>1, <2>2, BillIsTyped
<1>2. new \in SUBSET Lines
  BY DEF TypeInv, TypeOK, Page
<1>3. page \in [Sessions -> Page]
  BY DEF TypeInv, TypeOK
<1>4. page' = [mid EXCEPT ![s].bill = bill]
  BY DEF RemoveLine, TakeLine
<1> HIDE DEF new, bill
<1>5. mid \in [Sessions -> Page]
  BY <1>2, <1>3 DEF Page
<1>6. \A r \in Sessions : mid[r].batch = page[r].batch
  BY <1>2, <1>3 DEF Page
<1> HIDE DEF mid
<1>7. page' \in [Sessions -> Page]
  BY <1>1, <1>4, <1>5 DEF Page
<1>8. \A r \in Sessions : page'[r].batch = mid[r].batch
  BY <1>1, <1>4, <1>5 DEF Page
<1>9. calls' \in Nat /\ touched' \subseteq Payments
  BY DEF RemoveLine, TakeLine, CallCartlist, Touch, TypeInv, TypeOK
<1>10. QED
  BY <1>6, <1>7, <1>8, <1>9, BodyTyped DEF RemoveLine, TakeLine, TypeInv, TypeOK

\* The radio buttons.
LEMMA SelectPaymentTyped ==
    ASSUME TypeInv, NEW s \in Sessions, NEW kind \in PayTypes, SelectPayment(s, kind)
    PROVE  TypeInv'
<1> DEFINE new  == kind = "cod"
           bill == Bill(page[s].lines, pcount[page[s].batch], new)
           mid  == [page EXCEPT ![s].cod = new]
<1>1. bill \in Bills
  <2>1. pcount[page[s].batch] \in [Lines -> Qty]
    BY TappableIsOpen DEF SelectPayment, CanTap, TypeInv, TypeOK
  <2>2. page[s].lines \in SUBSET Lines /\ page[s].cod \in BOOLEAN
    BY DEF TypeInv, TypeOK, Page
  <2>3. QED
    BY <2>1, <2>2, BillIsTyped
<1>2. new \in BOOLEAN
  BY DEF TypeInv, TypeOK, Page
<1>3. page \in [Sessions -> Page]
  BY DEF TypeInv, TypeOK
<1>4. page' = [mid EXCEPT ![s].bill = bill]
  BY DEF SelectPayment
<1> HIDE DEF new, bill
<1>5. mid \in [Sessions -> Page]
  BY <1>2, <1>3 DEF Page
<1>6. \A r \in Sessions : mid[r].batch = page[r].batch
  BY <1>2, <1>3 DEF Page
<1> HIDE DEF mid
<1>7. page' \in [Sessions -> Page]
  BY <1>1, <1>4, <1>5 DEF Page
<1>8. \A r \in Sessions : page'[r].batch = mid[r].batch
  BY <1>1, <1>4, <1>5 DEF Page
<1>9. touched' \subseteq Payments
  BY DEF SelectPayment, Touch, TypeInv, TypeOK
<1>10. QED
  BY <1>6, <1>7, <1>8, <1>9, BodyTyped DEF SelectPayment, TypeInv, TypeOK

\* Showing or hiding the animation.
LEMMA AnimationTyped ==
    ASSUME NEW pages \in [Sessions -> Page], NEW s \in Sessions, NEW v \in BOOLEAN
    PROVE  [pages EXCEPT ![s].isAnimation = v] \in [Sessions -> Page]
BY DEF Page

\* The address drop-down and "Continue" with cash on delivery.
LEMMA ChoiceTyped ==
    ASSUME TypeInv, NEW s \in Sessions,
           (\E a \in Addresses : SelectAddress(s, a)) \/ CallCODPayment(s)
    PROVE  TypeInv'
<1>1. ASSUME NEW a \in Addresses, SelectAddress(s, a)
      PROVE  TypeInv'
  <2>1. page' \in [Sessions -> Page] /\ \A r \in Sessions : page'[r].batch = page[r].batch
    BY <1>1 DEF SelectAddress, TypeInv, TypeOK, Page
  <2>2. QED
    BY <1>1, <2>1, BodyTyped DEF SelectAddress, TypeInv, TypeOK, histVars
<1>2. ASSUME CallCODPayment(s)
      PROVE  TypeInv'
  <2>1. page' = [page EXCEPT ![s].isAnimation = TRUE] /\ page \in [Sessions -> Page]
    BY <1>2 DEF CallCODPayment, TypeInv, TypeOK
  <2>2. page' \in [Sessions -> Page]
    BY <2>1, AnimationTyped
  <2>3. \A r \in Sessions : page'[r].batch = page[r].batch
    BY <2>1 DEF Page
  <2>4. tasks' \subseteq Task
    BY <1>2 DEF CallCODPayment, TypeInv, TypeOK, Task, Handlers
  <2>5. QED
    BY <1>2, <2>2, <2>3, <2>4, BodyTyped
       DEF CallCODPayment, CanOrder, TypeInv, TypeOK, histVars
<1>3. QED
  BY <1>1, <1>2

\* Opening the page over a list of Cart objects, and leaving it.
LEMMA OpenPageTyped ==
    ASSUME TypeInv, NEW s \in Sessions,
           OpenFromCart(s) \/ \E l \in Lines, b \in Batches : BuyNow(s, l, b)
    PROVE  TypeInv'
<1>1. ASSUME NEW b \in Batches, NEW L \in SUBSET Lines, NEW q \in [Lines -> Qty],
             NEW buynow \in BOOLEAN, InitState(s, b, L, q, buynow),
             screen # "placeorder", UNCHANGED <<cart, addresses, calls, tasks, histVars>>,
             pcount' \in [Batches -> [Lines -> Qty]]
      PROVE  TypeInv'
  <2>1. PluginInv'
    BY <1>1, OnClearKeepPlugin DEF TypeInv, TypeOK, PluginInv, InitState
  <2>2. Bill(L, q, "cod" \in PayTypes) \in Bills
    <3>1. ("cod" \in PayTypes) \in BOOLEAN
      OBVIOUS
    <3>2. QED
      BY <3>1, BillIsTyped
  <2>3. PICK a \in IF addresses = {} THEN {NoAddress} ELSE addresses :
          page' = [page EXCEPT ![s] =
                     [batch |-> b, lines |-> L, buynow |-> buynow,
                      cod |-> "cod" \in PayTypes,
                      bill |-> Bill(L, q, "cod" \in PayTypes),
                      isAnimation |-> FALSE, valueselect |-> a]]
    BY <1>1 DEF InitState
  <2>4. a \in Addresses \cup {NoAddress}
    BY <2>3 DEF TypeInv, TypeOK
  <2>5. [batch |-> b, lines |-> L, buynow |-> buynow, cod |-> "cod" \in PayTypes,
         bill |-> Bill(L, q, "cod" \in PayTypes),
         isAnimation |-> FALSE, valueselect |-> a] \in Page
    BY <2>2, <2>4 DEF Page
  <2>6. page' \in [Sessions -> Page]
    BY <2>3, <2>5 DEF TypeInv, TypeOK
  <2>7. listening = {}
    BY <1>1 DEF TypeInv, TypeOK, PluginTypeOK, OneOnTop
  <2>8. listening' = {s} /\ screen' = "placeorder"
    BY <1>1, <2>7 DEF InitState, On
  <2>9. page'[s].batch # NoBatch
    BY <2>3, CheckoutAssumption DEF TypeInv, TypeOK
  <2>10. OneOnTop'
    BY <2>8, <2>9 DEF OneOnTop
  <2>11. QED
    BY <1>1, <2>1, <2>6, <2>8, <2>10 DEF TypeInv, TypeOK, PluginInv, histVars
<1>2. ASSUME OpenFromCart(s)
      PROVE  TypeInv'
  <2>1. /\ cart.batch \in Batches /\ cart.lines \in SUBSET Lines
        /\ pcount[cart.batch] \in [Lines -> Qty]
        /\ pcount' \in [Batches -> [Lines -> Qty]]
        /\ screen # "placeorder"
    BY <1>2 DEF OpenFromCart, TypeInv, TypeOK
  <2>2. QED
    BY <1>1, <1>2, <2>1 DEF OpenFromCart
<1>3. ASSUME NEW l \in Lines, NEW b \in Batches, BuyNow(s, l, b)
      PROVE  TypeInv'
  <2>1. [m \in Lines |-> 1] \in [Lines -> Qty]
    BY CheckoutAssumption DEF Qty
  <2>2. pcount' \in [Batches -> [Lines -> Qty]] /\ pcount'[b] \in [Lines -> Qty]
    BY <1>3, <2>1 DEF BuyNow, TypeInv, TypeOK
  <2>3. {l} \in SUBSET Lines /\ screen # "placeorder"
    BY <1>3 DEF BuyNow
  <2>4. QED
    BY <1>1, <1>3, <2>2, <2>3 DEF BuyNow
<1>4. QED
  BY <1>2, <1>3

\* A page that leaves the navigator.
LEMMA LeaveTyped ==
    ASSUME TypeInv, NEW s \in Sessions, Mounted(s), Leave(s)
    PROVE  PluginInv' /\ OneOnTop' /\ screen' = "shop"
<1>1. PluginInv'
  BY OnClearKeepPlugin DEF TypeInv, TypeOK, PluginInv, Leave
<1>2. listening' = {}
  BY DEF Leave, Clear, Mounted, TypeInv, OneOnTop
<1>3. QED
  BY <1>1, <1>2 DEF Leave, OneOnTop

\* The steps that only take the page away.
LEMMA GoTyped ==
    ASSUME TypeInv, NEW s \in Sessions,
           Back(s) \/ \E l \in Lines : RemoveLastLine(s, l)
    PROVE  TypeInv'
<1>1. Mounted(s) /\ Leave(s)
  BY DEF Back, RemoveLastLine, CanTap
<1>2. UNCHANGED <<cart, pcount, page, addresses, tasks, histVars>>
  BY DEF Back, RemoveLastLine
<1>3. calls' \in Nat
  BY DEF Back, RemoveLastLine, CallCartlist, TypeInv, TypeOK
<1>4. QED
  BY <1>1, <1>2, <1>3, LeaveTyped DEF TypeInv, TypeOK, PluginInv, histVars

\* "Continue" with a payment sheet.
LEMMA CallRazorPayTyped ==
    ASSUME TypeInv, NEW s \in Sessions, NEW p \in Payments, CallRazorPayPayment(s, p)
    PROVE  TypeInv'
<1>1. PluginInv'
  BY OpenKeepsPlugin DEF TypeInv, TypeOK, PluginInv, CallRazorPayPayment, CanOrder
<1>2. page[s].bill \in Bills
  BY DEF TypeInv, TypeOK, Page
<1>3. charged' \in [Payments -> {0} \cup {WholeRupees(bill.finaltotal) : bill \in Bills}]
  BY <1>2 DEF CallRazorPayPayment, CanOrder, Amount, TypeInv, TypeOK
<1>4. OneOnTop'
  BY DEF CallRazorPayPayment, CanOrder, Open, TypeInv, OneOnTop, appVars
<1>5. QED
  BY <1>1, <1>3, <1>4 DEF CallRazorPayPayment, CanOrder, TypeInv, TypeOK, PluginInv, appVars

\* A result of the payment sheet reaches a page, or nobody.
LEMMA HandleTyped ==
    ASSUME TypeInv, NEW r \in replies, HandlePaid(r) \/ HandleNothing(r)
    PROVE  TypeInv'
<1>1. PluginInv' /\ UNCHANGED <<listening, screen>>
  BY HandleResultKeepsPlugin
  DEF TypeInv, TypeOK, PluginInv, HandlePaid, HandlerOf, HandleNothing, appVars
<1>2. r.session \in Sessions /\ r.payment \in Payments /\ r.type \in ReplyTypes
  BY DEF TypeInv, TypeOK, PluginTypeOK, Reply
<1>3. ASSUME HandlePaid(r)
      PROVE  TypeInv'
  <2>1. page' \in [Sessions -> Page]
    BY <1>2, <1>3, AnimationTyped DEF HandlePaid, HandlerOf, TypeInv, TypeOK
  <2>2. \A s \in Sessions : page'[s].batch = page[s].batch
    BY <1>2, <1>3 DEF HandlePaid, HandlerOf, TypeInv, TypeOK, Page
  <2>3. tasks' \subseteq Task
    BY <1>2, <1>3 DEF HandlePaid, HandlerOf, TypeInv, TypeOK, Task, Handlers, ReplyTypes
  <2>4. OneOnTop'
    BY <1>1, <2>2 DEF TypeInv, TypeOK, PluginTypeOK, OneOnTop
  <2>5. QED
    BY <1>1, <1>3, <2>1, <2>3, <2>4
    DEF HandlePaid, HandlerOf, TypeInv, TypeOK, PluginInv, histVars
<1>4. ASSUME HandleNothing(r)
      PROVE  TypeInv'
  BY <1>1, <1>4 DEF HandleNothing, TypeInv, TypeOK, PluginInv, OneOnTop, appVars, histVars
<1>5. QED
  BY <1>3, <1>4

\* The order handlers after their awaits.
LEMMA OrderTyped ==
    ASSUME TypeInv, NEW t \in tasks,
           \/ PostOrder(t)
           \/ \E ok \in BOOLEAN : OrderReply(t, ok)
           \/ OrderThrows(t)
    PROVE  TypeInv'
<1>1. t \in Task /\ t.session \in Sessions
  BY DEF TypeInv, TypeOK, Task
<1>2. ASSUME PostOrder(t)
      PROVE  TypeInv'
  <2>1. [session |-> t.session, handler |-> t.handler, payment |-> t.payment] \in Order
    BY <1>1 DEF Task, Order
  <2>2. orders' \in Seq(Order)
    BY <1>2, <2>1 DEF PostOrder, HasDeviceId, TypeInv, TypeOK
  <2>3. [t EXCEPT !.at = "posted"] \in Task
    BY <1>1 DEF Task
  <2>4. tasks' \subseteq Task
    BY <1>2, <2>3 DEF PostOrder, HasDeviceId, TypeInv, TypeOK
  <2>5. QED
    BY <1>2, <2>2, <2>4, BodyTyped DEF PostOrder, HasDeviceId, TypeInv, TypeOK
<1>3. ASSUME NEW ok \in BOOLEAN, OrderReply(t, ok)
      PROVE  TypeInv'
  <2>1. page' \in [Sessions -> Page]
    BY <1>1, <1>3, AnimationTyped DEF OrderReply, TypeInv, TypeOK
  <2>2. \A s \in Sessions : page'[s].batch = page[s].batch
    BY <1>1, <1>3 DEF OrderReply, TypeInv, TypeOK, Page
  <2>3. cart' \in [batch : Batches, lines : SUBSET Lines]
    BY <1>3 DEF OrderReply, TypeInv, TypeOK
  <2>4. CASE Mounted(t.session)
    <3>1. Leave(t.session)
      BY <1>3, <2>4 DEF OrderReply
    <3>2. PluginInv' /\ OneOnTop' /\ screen' = "shop"
      BY <1>1, <2>4, <3>1, LeaveTyped
    <3>3. QED
      BY <1>3, <2>1, <2>3, <3>2 DEF OrderReply, TypeInv, TypeOK, PluginInv, histVars
  <2>5. CASE ~Mounted(t.session)
    BY <1>3, <2>1, <2>2, <2>3, <2>5, BodyTyped DEF OrderReply, TypeInv, TypeOK, histVars
  <2>6. QED
    BY <2>4, <2>5
<1>4. ASSUME OrderThrows(t)
      PROVE  TypeInv'
  BY <1>4, BodyTyped DEF OrderThrows, TypeInv, TypeOK, histVars
<1>5. QED
  BY <1>2, <1>3, <1>4

\* The plugin's own steps.
LEMMA PlatformTyped == ASSUME TypeInv, PlatformStep PROVE TypeInv'
<1>1. PluginInv'
  BY DelegateKeepsPlugin DEF TypeInv, TypeOK, PluginInv, PlatformStep
<1>2. UNCHANGED <<listening, appVars, histVars>>
  BY DEF PlatformStep, OpenCheckout, SendReply, Resync
<1>3. QED
  BY <1>1, <1>2 DEF TypeInv, TypeOK, PluginInv, OneOnTop, appVars, histVars

\* The rest of the application and the server.
LEMMA ShopTyped == ASSUME TypeInv, ShopStep PROVE TypeInv'
<1>1. ASSUME Browse
      PROVE  TypeInv'
  BY <1>1 DEF Browse, TypeInv, TypeOK, OwnersKnown, OneOnTop, PluginTypeOK,
              pluginVars, histVars
<1>2. ASSUME NEW l \in Lines, NEW n \in Qty, CartCounter(l, n)
      PROVE  TypeInv'
  <2>1. pcount' \in [Batches -> [Lines -> Qty]] /\ calls' \in Nat
    BY <1>2 DEF CartCounter, CallCartlist, TypeInv, TypeOK
  <2>2. QED
    BY <1>2, <2>1, BodyTyped DEF CartCounter, TypeInv, TypeOK, histVars
<1>3. ASSUME CartRequest \/ CartReplyFails
      PROVE  TypeInv'
  <2>1. calls' \in Nat
    BY <1>3 DEF CartRequest, CartReplyFails, CallCartlist, TypeInv, TypeOK
  <2>2. QED
    BY <1>3, <2>1, BodyTyped DEF CartRequest, CartReplyFails, TypeInv, TypeOK, histVars
<1>4. ASSUME NEW A \in SUBSET Addresses, AddressReply(A)
      PROVE  TypeInv'
  BY <1>4, BodyTyped DEF AddressReply, TypeInv, TypeOK, histVars
<1>5. ASSUME NEW b \in Batches, NEW L \in SUBSET Lines, NEW q \in Answers(L),
             CartReply(b, L, q)
      PROVE  TypeInv'
  <2>1. pcount' \in [Batches -> [Lines -> Qty]]
    BY <1>5 DEF CartReply, Answers, TypeInv, TypeOK
  <2>2. calls' \in Nat /\ cart' \in [batch : Batches, lines : SUBSET Lines]
    BY <1>5 DEF CartReply, TypeInv, TypeOK
  <2>3. QED
    BY <1>5, <2>1, <2>2, BodyTyped DEF CartReply, TypeInv, TypeOK, histVars
<1>6. ASSUME NEW b \in Batches, NEW L \in SUBSET Lines, NEW q \in Answers(L),
             \/ ProcessDeath(b, L, q)
             \/ \E p \in Payments : SecondResultCrash(p, b, L, q)
      PROVE  TypeInv'
  <2>1. PICK closed : (\A p \in closed : sheet[p] = "open") /\ Restart(closed, b, L, q)
    BY <1>6 DEF ProcessDeath, SecondResultCrash, AnswersTwice
  <2>2. PluginInv'
    BY <2>1, RestartKeepsPlugin DEF Restart, TypeInv, TypeOK, PluginInv
  <2>3. pcount' \in [Batches -> [Lines -> Qty]]
    BY <2>1 DEF Restart, Answers, TypeInv, TypeOK
  <2>4. OneOnTop'
    BY <2>1 DEF Restart, PluginRestart, OneOnTop
  <2>5. QED
    BY <2>1, <2>2, <2>3, <2>4 DEF Restart, TypeInv, TypeOK, PluginInv
<1>7. QED
  BY <1>1, <1>2, <1>3, <1>4, <1>5, <1>6 DEF ShopStep

\* One step of the page keeps the type invariant.
LEMMA PageTyped == ASSUME TypeInv, NEW s \in Sessions, PageStep(s) PROVE TypeInv'
<1>1. ASSUME NEW l \in Lines, IncrementConter(s, l) \/ DecrementConter(s, l)
      PROVE  TypeInv'
  <2>1. pcount[page[s].batch][l] \in Qty /\ Mounted(s)
    BY <1>1, TappableIsOpen DEF IncrementConter, DecrementConter, CanTap, TypeInv, TypeOK
  <2>2. PICK n \in Qty : SetCount(s, l, n)
    BY <1>1, <2>1, CheckoutAssumption DEF IncrementConter, DecrementConter, Qty
  <2>3. QED
    BY <2>1, <2>2, SetCountTyped
<1>2. QED
  BY <1>1, OpenPageTyped, GoTyped, RemoveLineTyped, SelectPaymentTyped, ChoiceTyped,
     CallRazorPayTyped DEF PageStep

\* The type invariant is inductive.
LEMMA TypeStep == TypeInv /\ [Next]_vars => TypeInv'
<1> SUFFICES ASSUME TypeInv, [Next]_vars PROVE TypeInv'
  OBVIOUS
<1>1. CASE UNCHANGED vars
  BY <1>1 DEF TypeInv, TypeOK, PluginTypeOK, OwnersKnown, OneOnTop, vars, appVars,
              histVars, pluginVars
<1>2. CASE OrderStep
  BY <1>2, HandleTyped, OrderTyped DEF OrderStep
<1>3. QED
  BY <1>1, <1>2, PageTyped, PlatformTyped, ShopTyped DEF Next

\* Every variable keeps its type, whatever the lines, pages, payments and bounds.
THEOREM TypeCorrect == Spec => []TypeOK
<1>1. TypeInv => TypeOK
  BY DEF TypeInv
<1>2. QED
  BY <1>1, InitTyped, TypeStep, PTL DEF Spec

\* At most one Placeorder page is mounted, the one on top of the navigator: what
\* keeps the taps of two pages apart.
THEOREM OnePage == Spec => []OneOnTop
<1>1. TypeInv => OneOnTop
  BY DEF TypeInv
<1>2. QED
  BY <1>1, InitTyped, TypeStep, PTL DEF Spec

-----------------------------------------------------------------------------
(* The totals on the page. *)

\* A step that leaves the listening pages, their products and the quantities
\* of their Cart objects alone keeps their totals right.
LEMMA SameTotals ==
    ASSUME TotalsMatchProducts, listening' \subseteq listening,
           \A s \in listening' \cap Sessions :
              /\ page'[s].bill = page[s].bill
              /\ page'[s].lines = page[s].lines
              /\ page'[s].cod = page[s].cod
              /\ pcount'[page'[s].batch] = pcount[page[s].batch]
    PROVE  TotalsMatchProducts'
BY DEF TotalsMatchProducts, Mounted

\* A handler that ends in the recomputation keeps the totals right: no other
\* page listens.
LEMMA RecomputedTotals ==
    ASSUME TypeInv', NEW s \in Sessions, s \in listening',
           page'[s].bill = Bill(page'[s].lines, pcount'[page'[s].batch], page'[s].cod)
    PROVE  TotalsMatchProducts'
BY DEF TypeInv, OneOnTop, TotalsMatchProducts, Mounted

\* No step leaves a wrong total on a page.
LEMMA TotalsStep ==
    TypeInv /\ TypeInv' /\ TotalsMatchProducts /\ [Next]_vars => TotalsMatchProducts'
<1> SUFFICES ASSUME TypeInv, TypeInv', TotalsMatchProducts, [Next]_vars
             PROVE  TotalsMatchProducts'
  OBVIOUS
<1>1. ASSUME NEW s \in Sessions, NEW b \in Batches, NEW L, NEW q, NEW buynow,
             InitState(s, b, L, q, buynow), pcount'[b] = q
      PROVE  TotalsMatchProducts'
  <2>1. s \in listening'
    BY <1>1 DEF InitState, On
  <2>2. PICK a : page' = [page EXCEPT ![s] =
                     [batch |-> b, lines |-> L, buynow |-> buynow,
                      cod |-> "cod" \in PayTypes,
                      bill |-> Bill(L, q, "cod" \in PayTypes),
                      isAnimation |-> FALSE, valueselect |-> a]]
    BY <1>1 DEF InitState
  <2>3. /\ page'[s].batch = b /\ page'[s].lines = L
        /\ page'[s].cod = ("cod" \in PayTypes)
        /\ page'[s].bill = Bill(L, q, "cod" \in PayTypes)
    BY <2>2 DEF TypeInv, TypeOK
  <2>4. QED
    BY <1>1, <2>1, <2>3, RecomputedTotals
<1>2. ASSUME NEW s \in Sessions, NEW l \in Lines, NEW n, Mounted(s), SetCount(s, l, n)
      PROVE  TotalsMatchProducts'
  <2> DEFINE q == [pcount[page[s].batch] EXCEPT ![l] = n]
  <2>1. s \in listening' /\ page[s].batch \in Batches
    BY <1>2, TappableIsOpen DEF SetCount, Mounted, pluginVars
  <2>2. pcount'[page[s].batch] = q
    BY <1>2, <2>1 DEF SetCount, TypeInv, TypeOK
  <2>3. /\ page'[s].bill = Bill(page[s].lines, q, page[s].cod)
        /\ page'[s].lines = page[s].lines /\ page'[s].cod = page[s].cod
        /\ page'[s].batch = page[s].batch
    BY <1>2 DEF SetCount, TypeInv, TypeOK, Page
  <2>4. QED
    BY <2>1, <2>2, <2>3, RecomputedTotals
<1>3. ASSUME NEW s \in Sessions, NEW l \in Lines, RemoveLine(s, l)
      PROVE  TotalsMatchProducts'
  <2>1. s \in listening' /\ pcount' = pcount
    BY <1>3 DEF RemoveLine, TakeLine, CanTap, Mounted, pluginVars
  <2>2. /\ page'[s].lines = page[s].lines \ {l} /\ page'[s].cod = page[s].cod
        /\ page'[s].batch = page[s].batch
        /\ page'[s].bill = Bill(page[s].lines \ {l}, pcount[page[s].batch], page[s].cod)
    BY <1>3 DEF RemoveLine, TakeLine, TypeInv, TypeOK, Page
  <2>3. QED
    BY <2>1, <2>2, RecomputedTotals
<1>4. ASSUME NEW s \in Sessions, NEW kind \in PayTypes, SelectPayment(s, kind)
      PROVE  TotalsMatchProducts'
  <2>1. s \in listening' /\ pcount' = pcount
    BY <1>4 DEF SelectPayment, CanTap, Mounted, pluginVars
  <2>2. /\ page'[s].lines = page[s].lines /\ page'[s].cod = (kind = "cod")
        /\ page'[s].batch = page[s].batch
        /\ page'[s].bill = Bill(page[s].lines, pcount[page[s].batch], kind = "cod")
    BY <1>4 DEF SelectPayment, TypeInv, TypeOK, Page
  <2>3. QED
    BY <2>1, <2>2, RecomputedTotals
<1>5. ASSUME NEW s \in Sessions, PageStep(s)
      PROVE  TotalsMatchProducts'
  <2>1. ASSUME OpenFromCart(s)
        PROVE  TotalsMatchProducts'
    <3>1. cart.batch \in Batches /\ pcount' = pcount
      BY <2>1 DEF OpenFromCart, TypeInv, TypeOK
    <3>2. QED
      BY <1>1, <2>1, <3>1 DEF OpenFromCart
  <2>2. ASSUME NEW l \in Lines, NEW b \in Batches, BuyNow(s, l, b)
        PROVE  TotalsMatchProducts'
    BY <1>1, <2>2 DEF BuyNow
  <2>3. ASSUME Back(s) \/ \E l \in Lines : RemoveLastLine(s, l)
        PROVE  TotalsMatchProducts'
    <3>1. listening' \subseteq listening /\ UNCHANGED <<page, pcount>>
      BY <2>3 DEF Back, RemoveLastLine, Leave, Clear
    <3>2. QED
      BY <3>1, SameTotals
  <2>4. ASSUME NEW l \in Lines, IncrementConter(s, l) \/ DecrementConter(s, l)
        PROVE  TotalsMatchProducts'
    BY <1>2, <2>4 DEF IncrementConter, DecrementConter, CanTap
  <2>5. ASSUME NEW a \in Addresses, SelectAddress(s, a)
        PROVE  TotalsMatchProducts'
    <3>1. /\ listening' = listening /\ pcount' = pcount
          /\ \A r \in Sessions : /\ page'[r].bill = page[r].bill
                                 /\ page'[r].lines = page[r].lines
                                 /\ page'[r].cod = page[r].cod
                                 /\ page'[r].batch = page[r].batch
      BY <2>5 DEF SelectAddress, TypeInv, TypeOK, Page, pluginVars
    <3>2. QED
      BY <3>1, SameTotals
  <2>6. ASSUME CallCODPayment(s)
        PROVE  TotalsMatchProducts'
    <3>1. /\ listening' = listening /\ pcount' = pcount
          /\ \A r \in Sessions : /\ page'[r].bill = page[r].bill
                                 /\ page'[r].lines = page[r].lines
                                 /\ page'[r].cod = page[r].cod
                                 /\ page'[r].batch = page[r].batch
      BY <2>6 DEF CallCODPayment, CanOrder, TypeInv, TypeOK, Page, pluginVars
    <3>2. QED
      BY <3>1, SameTotals
  <2>7. ASSUME NEW p \in Payments, CallRazorPayPayment(s, p)
        PROVE  TotalsMatchProducts'
    BY <2>7, SameTotals DEF CallRazorPayPayment, CanOrder, Open, appVars
  <2>8. QED
    BY <1>3, <1>4, <1>5, <2>1, <2>2, <2>3, <2>4, <2>5, <2>6, <2>7 DEF PageStep
<1>6. ASSUME OrderStep
      PROVE  TotalsMatchProducts'
  <2>1. ASSUME NEW r \in replies, HandlePaid(r)
        PROVE  TotalsMatchProducts'
    <3>1. r.session \in Sessions
      BY DEF TypeInv, TypeOK, PluginTypeOK, Reply
    <3>2. /\ listening' = listening /\ pcount' = pcount
          /\ page' = [page EXCEPT ![r.session].isAnimation = TRUE]
      BY <2>1 DEF HandlePaid, HandlerOf
    <3>3. \A s \in Sessions : /\ page'[s].bill = page[s].bill
                              /\ page'[s].lines = page[s].lines
                              /\ page'[s].cod = page[s].cod
                              /\ page'[s].batch = page[s].batch
      BY <3>1, <3>2 DEF TypeInv, TypeOK, Page
    <3>4. QED
      BY <3>2, <3>3, SameTotals
  <2>2. ASSUME NEW t \in tasks, NEW ok \in BOOLEAN, OrderReply(t, ok)
        PROVE  TotalsMatchProducts'
    <3>1. t.session \in Sessions
      BY DEF TypeInv, TypeOK, Task
    <3>2. /\ listening' \subseteq listening /\ pcount' = pcount
          /\ page' = [page EXCEPT ![t.session].isAnimation = FALSE]
      BY <2>2 DEF OrderReply, Leave, Clear, pluginVars
    <3>3. \A s \in Sessions : /\ page'[s].bill = page[s].bill
                              /\ page'[s].lines = page[s].lines
                              /\ page'[s].cod = page[s].cod
                              /\ page'[s].batch = page[s].batch
      BY <3>1, <3>2 DEF TypeInv, TypeOK, Page
    <3>4. QED
      BY <3>2, <3>3, SameTotals
  <2>3. ASSUME \/ \E r \in replies : HandleNothing(r)
               \/ \E t \in tasks : PostOrder(t) \/ OrderThrows(t)
        PROVE  TotalsMatchProducts'
    <3>1. UNCHANGED <<page, pcount, listening>>
      BY <2>3 DEF HandleNothing, PostOrder, HasDeviceId, OrderThrows, appVars, pluginVars
    <3>2. QED
      BY <3>1, SameTotals
  <2>4. QED
    BY <1>6, <2>1, <2>2, <2>3 DEF OrderStep
<1>7. ASSUME PlatformStep
      PROVE  TotalsMatchProducts'
  <2>1. UNCHANGED <<page, pcount, listening>>
    BY <1>7 DEF PlatformStep, OpenCheckout, SendReply, Resync, appVars
  <2>2. QED
    BY <2>1, SameTotals
<1>8. ASSUME ShopStep
      PROVE  TotalsMatchProducts'
  <2>1. ASSUME NEW l \in Lines, NEW n \in Qty, CartCounter(l, n)
        PROVE  TotalsMatchProducts'
    <3>1. listening' = {}
      BY <2>1 DEF CartCounter, TypeInv, TypeOK, PluginTypeOK, OneOnTop, pluginVars
    <3>2. QED
      BY <3>1, SameTotals
  <2>2. ASSUME NEW b \in Batches, NEW L, NEW q, CartReply(b, L, q)
        PROVE  TotalsMatchProducts'
    <3>1. page' = page /\ listening' = listening
      BY <2>2 DEF CartReply, pluginVars
    <3>2. \A s \in listening : /\ page[s].batch # b
                               /\ pcount'[page[s].batch] = pcount[page[s].batch]
      BY <2>2, TappableIsOpen
      DEF CartReply, Fresh, Mounted, TypeInv, TypeOK, PluginTypeOK
    <3>3. QED
      BY <3>1, <3>2, SameTotals
  <2>3. ASSUME NEW b, NEW L, NEW q,
               \/ ProcessDeath(b, L, q)
               \/ \E p \in Payments : SecondResultCrash(p, b, L, q)
        PROVE  TotalsMatchProducts'
    <3>1. listening' = {}
      BY <2>3 DEF ProcessDeath, SecondResultCrash, Restart, PluginRestart
    <3>2. QED
      BY <3>1, SameTotals
  <2>4. ASSUME \/ Browse \/ CartRequest \/ CartReplyFails
               \/ \E A \in SUBSET Addresses : AddressReply(A)
        PROVE  TotalsMatchProducts'
    <3>1. UNCHANGED <<page, pcount, listening>>
      BY <2>4 DEF Browse, CartRequest, CartReplyFails, AddressReply, pluginVars
    <3>2. QED
      BY <3>1, SameTotals
  <2>5. QED
    BY <1>8, <2>1, <2>2, <2>3, <2>4 DEF ShopStep
<1>9. CASE UNCHANGED vars
  BY <1>9, SameTotals DEF vars, appVars, pluginVars
<1>10. QED
  BY <1>5, <1>6, <1>7, <1>8, <1>9 DEF Next

\* The figures on the page are always those of its products and payment kind.
THEOREM TotalsCorrect == Spec => []TotalsMatchProducts
<1>1. Init => TotalsMatchProducts
  BY DEF Init, PluginInit, TotalsMatchProducts, Mounted
<1>2. QED
  BY <1>1, InitTyped, TypeStep, TotalsStep, PTL DEF Spec

-----------------------------------------------------------------------------
(* Cash on delivery: once a page, within the limit. *)

\* The page of a cash-on-delivery order, from the tap on, is open and shows the
\* animation for as long as it is in the navigator.
Shut(s) == page[s].batch # NoBatch /\ (Mounted(s) => page[s].isAnimation)

CodInv ==
    /\ \A t \in tasks : t.handler = "cod" => Shut(t.session)
    /\ \A i \in DOMAIN orders : orders[i].handler = "cod" => Shut(orders[i].session)
    /\ \A t, u \in tasks :
         t.handler = "cod" /\ u.handler = "cod" /\ t.session = u.session => t = u
    /\ \A t \in Building, i \in DOMAIN orders :
         t.handler = "cod" /\ orders[i].handler = "cod" => t.session # orders[i].session
    /\ CODOrderedOnce
    /\ CODWithinLimit

\* The orders posted are orders, and of pages.
LEMMA OrdersTyped ==
    ASSUME TypeInv
    PROVE  \A i \in DOMAIN orders : orders[i] \in Order /\ orders[i].session \in Sessions
<1>1. orders \in Seq(Order)
  BY DEF TypeInv, TypeOK
<1>2. \A i \in DOMAIN orders : orders[i] \in Order
  BY <1>1
<1>3. QED
  BY <1>2 DEF Order

\* A step that starts no handler and writes no page keeps the invariant.
LEMMA QuietCod ==
    ASSUME TypeInv, CodInv, tasks' \subseteq tasks, UNCHANGED <<page, orders>>,
           listening' \subseteq listening
    PROVE  CodInv'
BY DEF CodInv, Shut, Building, Mounted, CODOrderedOnce, CODWithinLimit, Request

\* A step of page s that needs its body on screen, or opens it, writes the
\* record of a page without cash-on-delivery orders.
LEMMA OtherPageCod ==
    ASSUME TypeInv, CodInv, NEW s \in Sessions, ~Shut(s),
           UNCHANGED <<tasks, orders>>,
           \A r \in Sessions : r # s => page'[r] = page[r],
           \A r \in Sessions : r # s => (r \in listening' <=> r \in listening)
    PROVE  CodInv'
<1>1. \A t \in tasks : t.session \in Sessions
  BY DEF TypeInv, TypeOK, Task
<1>2. \A i \in DOMAIN orders : orders[i].session \in Sessions
  BY OrdersTyped
<1>3. \A t \in tasks : t.handler = "cod" => t.session # s
  BY DEF CodInv
<1>4. \A i \in DOMAIN orders : orders[i].handler = "cod" => orders[i].session # s
  BY DEF CodInv
<1>5. \A t \in tasks : t.handler = "cod" => Shut(t.session)'
  BY <1>1, <1>3 DEF CodInv, Shut, Mounted
<1>6. \A i \in DOMAIN orders : orders[i].handler = "cod" => Shut(orders[i].session)'
  BY <1>2, <1>4 DEF CodInv, Shut, Mounted
<1>7. CODWithinLimit'
  BY <1>1, <1>3 DEF CodInv, CODWithinLimit, Building, Request
<1>8. QED
  BY <1>5, <1>6, <1>7 DEF CodInv, CODOrderedOnce, Building

\* The steps of a page keep the invariant.
LEMMA PageCod ==
    ASSUME TypeInv, CodInv, NEW s \in Sessions, PageStep(s)
    PROVE  CodInv'
<1>1. ASSUME OpenFromCart(s) \/ \E l \in Lines, b \in Batches : BuyNow(s, l, b)
      PROVE  CodInv'
  <2>1. ~Shut(s)
    BY <1>1 DEF OpenFromCart, BuyNow, InitState, Opened, Shut
  <2>2. UNCHANGED <<tasks, orders>>
    BY <1>1 DEF OpenFromCart, BuyNow, histVars
  <2>3. \A r \in Sessions : r # s => page'[r] = page[r] /\ (r \in listening' <=> r \in listening)
    BY <1>1 DEF OpenFromCart, BuyNow, InitState, On, TypeInv, TypeOK
  <2>4. QED
    BY <2>1, <2>2, <2>3, OtherPageCod
<1>2. ASSUME Back(s) \/ \E l \in Lines : RemoveLastLine(s, l)
      PROVE  CodInv'
  <2>1. listening' \subseteq listening /\ UNCHANGED <<page, tasks, orders>>
    BY <1>2 DEF Back, RemoveLastLine, Leave, Clear, histVars
  <2>2. QED
    BY <2>1, QuietCod
<1>3. ASSUME \/ \E l \in Lines : \/ IncrementConter(s, l)
                                 \/ DecrementConter(s, l)
                                 \/ RemoveLine(s, l)
             \/ \E kind \in PayTypes : SelectPayment(s, kind)
             \/ \E a \in Addresses : SelectAddress(s, a)
      PROVE  CodInv'
  <2>1. ~Shut(s)
    BY <1>3 DEF IncrementConter, DecrementConter, RemoveLine, TakeLine, SelectPayment,
                SelectAddress, CanTap, Shut
  <2>2. UNCHANGED <<tasks, orders, listening>>
    BY <1>3 DEF IncrementConter, DecrementConter, SetCount, RemoveLine, TakeLine,
                SelectPayment, SelectAddress, histVars, pluginVars
  <2>3. \A r \in Sessions : r # s => page'[r] = page[r]
    BY <1>3 DEF IncrementConter, DecrementConter, SetCount, RemoveLine, TakeLine,
                SelectPayment, SelectAddress, TypeInv, TypeOK
  <2>4. QED
    BY <2>1, <2>2, <2>3, OtherPageCod
<1>4. ASSUME CallCODPayment(s)
      PROVE  CodInv'
  <2> DEFINE new == [session |-> s, handler |-> "cod", payment |-> NoPayment, at |-> "storage"]
  <2>1. ~Shut(s) /\ page[s].batch # NoBatch /\ page[s].bill.finaltotal <= MaxAmountCod
    BY <1>4 DEF CallCODPayment, CanOrder, CanTap, Shut, Mounted, TypeInv, OneOnTop
  <2>2. /\ tasks' = tasks \cup {new} /\ orders' = orders /\ listening' = listening
        /\ page' = [page EXCEPT ![s].isAnimation = TRUE]
    BY <1>4 DEF CallCODPayment, CanOrder, histVars, pluginVars
  <2>3. \A t \in tasks : t.session \in Sessions /\ (t.handler = "cod" => t.session # s)
    BY <2>1 DEF TypeInv, TypeOK, Task, CodInv
  <2>4. \A i \in DOMAIN orders : /\ orders[i].session \in Sessions
                                 /\ orders[i].handler = "cod" => orders[i].session # s
    BY <2>1, OrdersTyped DEF CodInv
  <2>5. /\ \A r \in Sessions : r # s => page'[r] = page[r]
        /\ page'[s].isAnimation = TRUE /\ page'[s].batch = page[s].batch
        /\ page'[s].bill = page[s].bill
    BY <2>2 DEF TypeInv, TypeOK, Page
  <2>6. \A t \in tasks' : t.handler = "cod" => Shut(t.session)'
    BY <2>1, <2>2, <2>3, <2>5 DEF CodInv, Shut, Mounted
  <2>7. \A i \in DOMAIN orders' : orders'[i].handler = "cod" => Shut(orders[i].session)'
    BY <2>2, <2>4, <2>5 DEF CodInv, Shut, Mounted
  <2>8. \A t, u \in tasks' :
          t.handler = "cod" /\ u.handler = "cod" /\ t.session = u.session => t = u
    BY <2>2, <2>3 DEF CodInv
  <2>9. \A t \in Building', i \in DOMAIN orders' :
          t.handler = "cod" /\ orders'[i].handler = "cod" => t.session # orders'[i].session
    BY <2>2, <2>4 DEF CodInv, Building
  <2>10. CODWithinLimit'
    BY <2>1, <2>2, <2>3, <2>5 DEF CodInv, CODWithinLimit, Building, Request
  <2>11. CODOrderedOnce'
    BY <2>2 DEF CodInv, CODOrderedOnce
  <2>12. QED
    BY <2>2, <2>6, <2>7, <2>8, <2>9, <2>10, <2>11 DEF CodInv
<1>5. ASSUME NEW p \in Payments, CallRazorPayPayment(s, p)
      PROVE  CodInv'
  BY <1>5, QuietCod DEF CallRazorPayPayment, CanOrder, Open, appVars
<1>6. QED
  BY <1>1, <1>2, <1>3, <1>4, <1>5 DEF PageStep

\* Handlers of payment results, and what becomes of the handlers, keep the
\* invariant: a page only ever hides its body here, unless it leaves with it.
LEMMA OrderCod ==
    ASSUME TypeInv, CodInv, OrderStep
    PROVE  CodInv'
<1>1. ASSUME NEW r \in replies, HandlePaid(r)
      PROVE  CodInv'
  <2> DEFINE new == [session |-> r.session,
                     handler     |-> HandlerOf(r.type),
                     payment |-> r.payment, at |-> "storage"]
  <2>1. r.session \in Sessions /\ r.type # "error" /\ r.type \in ReplyTypes
    BY <1>1 DEF HandlePaid, HandlerOf, TypeInv, TypeOK, PluginTypeOK, Reply
  <2>2. new.handler # "cod"
    BY <2>1 DEF HandlerOf
  <2>3. /\ tasks' = tasks \cup {new} /\ orders' = orders /\ listening' = listening
        /\ pcount' = pcount
        /\ page' = [page EXCEPT ![r.session].isAnimation = TRUE]
    BY <1>1 DEF HandlePaid, HandlerOf, histVars
  <2>4. \A s \in Sessions : /\ page'[s].batch = page[s].batch
                            /\ page'[s].bill = page[s].bill
                            /\ page[s].isAnimation => page'[s].isAnimation
    BY <2>1, <2>3 DEF TypeInv, TypeOK, Page
  <2>5. \A s \in Sessions : Shut(s) => Shut(s)'
    BY <2>3, <2>4 DEF Shut, Mounted
  <2> HIDE DEF new
  <2>6. \A t \in tasks' : t.handler = "cod" => t \in tasks /\ t.session \in Sessions
    BY <2>2, <2>3 DEF TypeInv, TypeOK, Task
  <2>7. \A t \in tasks' : t.handler = "cod" => Shut(t.session)'
    BY <2>5, <2>6 DEF CodInv
  <2>8. \A i \in DOMAIN orders' : orders'[i].handler = "cod" => Shut(orders[i].session)'
    BY <2>3, <2>5, OrdersTyped DEF CodInv
  <2>9. CODWithinLimit'
    BY <2>4, <2>6 DEF CodInv, CODWithinLimit, Building, Request
  <2>10. QED
    BY <2>3, <2>6, <2>7, <2>8, <2>9 DEF CodInv, CODOrderedOnce, Building
<1>2. ASSUME NEW t \in tasks, PostOrder(t)
      PROVE  CodInv'
  <2> DEFINE o == [session |-> t.session, handler |-> t.handler, payment |-> t.payment]
             posted == [t EXCEPT !.at = "posted"]
             n == Len(orders) + 1
  <2>1. /\ t \in Task /\ t.at = "storage"
        /\ orders' = Append(orders, o)
        /\ tasks' = (tasks \ {t}) \cup {posted}
        /\ page' = page /\ listening' = listening
    BY <1>2 DEF PostOrder, HasDeviceId, TypeInv, TypeOK, pluginVars
  <2>2. /\ posted.session = t.session /\ posted.handler = t.handler /\ posted.at = "posted"
    BY <2>1 DEF Task
  <2>3. /\ o.session = t.session /\ o.handler = t.handler
    OBVIOUS
  <2> HIDE DEF o, posted
  <2>4. /\ \A i \in DOMAIN orders' : i \in DOMAIN orders \/ i = n
        /\ \A i \in DOMAIN orders : orders'[i] = orders[i]
        /\ orders'[n] = o
    BY <2>1 DEF TypeInv, TypeOK
  <2> HIDE DEF n
  <2>5. \A s : Shut(s)' <=> Shut(s)
    BY <2>1 DEF Shut, Mounted
  <2>6. \A i \in DOMAIN orders : o.handler = "cod" /\ orders[i].handler = "cod"
                                  => orders[i].session # o.session
    BY <2>1, <2>3 DEF CodInv, Building
  <2>7. \A u \in tasks' : u.handler = "cod" => Shut(u.session)'
    BY <2>1, <2>2, <2>5 DEF CodInv
  <2>8. \A i \in DOMAIN orders' : orders'[i].handler = "cod" => Shut(orders[i].session)'
    BY <2>3, <2>4, <2>5 DEF CodInv
  <2>9. \A u, v \in tasks' :
          u.handler = "cod" /\ v.handler = "cod" /\ u.session = v.session => u = v
    BY <2>1, <2>2 DEF CodInv
  <2>10. \A u \in Building' : u \in Building /\ u # t
    BY <2>1, <2>2 DEF Building
  <2>11. \A u \in Building', i \in DOMAIN orders' :
           u.handler = "cod" /\ orders'[i].handler = "cod" => u.session # orders'[i].session
    BY <2>3, <2>4, <2>10 DEF CodInv, Building
  <2>12. CODWithinLimit'
    BY <2>1, <2>10 DEF CodInv, CODWithinLimit, Request
  <2>13. CODOrderedOnce'
    BY <2>4, <2>6 DEF CodInv, CODOrderedOnce, PaymentType
  <2>14. QED
    BY <2>7, <2>8, <2>9, <2>11, <2>12, <2>13 DEF CodInv
<1>3. ASSUME NEW t \in tasks, NEW ok \in BOOLEAN, OrderReply(t, ok)
      PROVE  CodInv'
  <2>1. t.session \in Sessions
    BY DEF TypeInv, TypeOK, Task
  <2>2. /\ tasks' = tasks \ {t} /\ orders' = orders /\ pcount' = pcount
        /\ listening' \subseteq listening /\ t.session \notin listening'
        /\ page' = [page EXCEPT ![t.session].isAnimation = FALSE]
    BY <1>3 DEF OrderReply, Leave, Clear, Mounted, histVars, pluginVars
  <2>3. \A s \in Sessions : /\ page'[s].batch = page[s].batch
                            /\ page'[s].bill = page[s].bill
                            /\ s # t.session => page'[s] = page[s]
    BY <2>1, <2>2 DEF TypeInv, TypeOK, Page
  <2>4. \A s \in Sessions : Shut(s) => Shut(s)'
    BY <2>2, <2>3 DEF Shut, Mounted
  <2>5. \A u \in tasks' : u \in tasks /\ u.session \in Sessions
    BY <2>2 DEF TypeInv, TypeOK, Task
  <2>6. \A u \in tasks' : u.handler = "cod" => Shut(u.session)'
    BY <2>4, <2>5 DEF CodInv
  <2>7. \A i \in DOMAIN orders' : orders'[i].handler = "cod" => Shut(orders[i].session)'
    BY <2>2, <2>4, OrdersTyped DEF CodInv
  <2>8. CODWithinLimit'
    BY <2>3, <2>5 DEF CodInv, CODWithinLimit, Building, Request
  <2>9. QED
    BY <2>2, <2>5, <2>6, <2>7, <2>8 DEF CodInv, CODOrderedOnce, Building
<1>4. ASSUME (\E r \in replies : HandleNothing(r)) \/ (\E t \in tasks : OrderThrows(t))
      PROVE  CodInv'
  <2>1. /\ tasks' \subseteq tasks /\ UNCHANGED <<page, orders>>
        /\ listening' \subseteq listening
    BY <1>4 DEF HandleNothing, OrderThrows, appVars, histVars, pluginVars
  <2>2. QED
    BY <2>1, QuietCod
<1>5. QED
  BY <1>1, <1>2, <1>3, <1>4 DEF OrderStep

\* Nothing outside the page starts a handler or touches its record.
LEMMA CodStep ==
    ASSUME TypeInv, CodInv, [Next]_vars
    PROVE  CodInv'
<1>1. ASSUME PlatformStep \/ UNCHANGED vars
      PROVE  CodInv'
  <2>1. UNCHANGED <<tasks, page, orders, listening>>
    BY <1>1 DEF PlatformStep, OpenCheckout, SendReply, Resync, appVars, histVars, vars,
                pluginVars
  <2>2. QED
    BY <2>1, QuietCod
<1>2. ASSUME ShopStep
      PROVE  CodInv'
  <2>1. /\ tasks' \subseteq tasks /\ UNCHANGED <<page, orders>>
        /\ listening' \subseteq listening
    BY <1>2 DEF ShopStep, Browse, CartCounter, CartRequest, CartReply, CartReplyFails,
                AddressReply, ProcessDeath, SecondResultCrash, Restart, PluginRestart,
                histVars, pluginVars
  <2>2. QED
    BY <2>1, QuietCod
<1>3. QED
  BY <1>1, <1>2, PageCod, OrderCod DEF Next

\* The invariant holds before the first step.
LEMMA CodInit == Init => CodInv
BY DEF Init, CodInv, Building, CODOrderedOnce, CODWithinLimit

\* One page posts at most one cash-on-delivery order.
THEOREM CodOnce == Spec => []CODOrderedOnce
<1>1. CodInv => CODOrderedOnce
  BY DEF CodInv
<1>2. QED
  BY <1>1, InitTyped, TypeStep, CodInit, CodStep, PTL DEF Spec

\* The amount of a cash-on-delivery order is within the limit when posted.
THEOREM CodLimit == Spec => []CODWithinLimit
<1>1. CodInv => CODWithinLimit
  BY DEF CodInv
<1>2. QED
  BY <1>1, InitTyped, TypeStep, CodInit, CodStep, PTL DEF Spec
-----------------------------------------------------------------------------
(* Results of payment sheets: each is used once, and as what it is. *)

\* A handler or an order x names a payment unless it is cash on delivery; what it
\* says of it is what the sheet said, and that result is not on its way any more.
Backed(x) ==
    IF x.handler = "cod" THEN x.payment = NoPayment
    ELSE /\ x.payment \in Payments
         /\ sheet[x.payment] = IF x.handler = "payment" THEN "success" ELSE "external_wallet"

Taken(x) ==
    x.handler # "cod" =>
      /\ \A r \in replies : r.payment # x.payment
      /\ pendingReply # NoReply => pendingReply.payment # x.payment

\* A result in the channel or in the delegate is the sheet's, and the only one.
ResultsInv ==
    /\ \A r \in replies : sheet[r.payment] = r.type
    /\ pendingReply # NoReply => /\ sheet[pendingReply.payment] = pendingReply.type
                                 /\ \A r \in replies : r.payment # pendingReply.payment
    /\ \A r, u \in replies : r.payment = u.payment => r = u

PaidOnce ==
    /\ \A t, u \in tasks : t.handler # "cod" /\ u.handler # "cod" /\ t.payment = u.payment => t = u
    /\ \A t \in Building, i \in DOMAIN orders :
         t.handler # "cod" /\ orders[i].handler # "cod" => t.payment # orders[i].payment
    /\ \A i, j \in DOMAIN orders :
         orders[i].handler # "cod" /\ orders[j].handler # "cod"
           /\ orders[i].payment = orders[j].payment => i = j

PayInv ==
    /\ ResultsInv
    /\ \A t \in tasks : Backed(t) /\ Taken(t)
    /\ \A i \in DOMAIN orders : Backed(orders[i]) /\ Taken(orders[i])
    /\ PaidOnce

\* Results and pending results name payments.
LEMMA ResultsTyped ==
    ASSUME TypeInv
    PROVE  /\ \A r \in replies : /\ r.payment \in Payments /\ r.session \in Sessions
                                  /\ r.type \in ReplyTypes
           /\ pendingReply # NoReply => /\ pendingReply.payment \in Payments
                                        /\ pendingReply.type \in ReplyTypes
BY DEF TypeInv, TypeOK, PluginTypeOK, Reply, Result

\* A step that adds no result, handler or order and changes no closed sheet.
LEMMA QuietPay ==
    ASSUME TypeInv, PayInv, tasks' \subseteq tasks, orders' = orders,
           replies' \subseteq replies, pendingReply' \in {pendingReply, NoReply},
           \A p \in Payments : sheet[p] \in ReplyTypes => sheet'[p] = sheet[p]
    PROVE  PayInv'
<1>1. ResultsInv'
  BY ResultsTyped DEF PayInv, ResultsInv
<1>2. \A x : Backed(x) /\ Taken(x) /\ x.handler # "cod" =>
        /\ x.payment \in Payments
        /\ sheet'[x.payment] = IF x.handler = "payment" THEN "success" ELSE "external_wallet"
        /\ \A r \in replies' : r.payment # x.payment
        /\ pendingReply' # NoReply => pendingReply'.payment # x.payment
  BY DEF Backed, Taken, ReplyTypes
<1>3. \A t \in tasks' : (Backed(t) /\ Taken(t))'
  BY <1>2 DEF PayInv, Backed, Taken
<1>4. \A i \in DOMAIN orders' : (Backed(orders[i]) /\ Taken(orders[i]))'
  BY <1>2 DEF PayInv, Backed, Taken
<1>5. PaidOnce'
  BY DEF PayInv, PaidOnce, Building
<1>6. QED
  BY <1>1, <1>3, <1>4, <1>5 DEF PayInv

\* The steps of a page: only "Continue" with cash on delivery starts a handler.
LEMMA PagePay ==
    ASSUME TypeInv, PayInv, NEW s \in Sessions, PageStep(s)
    PROVE  PayInv'
<1>1. ASSUME CallCODPayment(s)
      PROVE  PayInv'
  <2> DEFINE new == [session |-> s, handler |-> "cod", payment |-> NoPayment, at |-> "storage"]
  <2>1. /\ tasks' = tasks \cup {new}
        /\ UNCHANGED <<orders, replies, pendingReply, sheet>>
    BY <1>1 DEF CallCODPayment, histVars, pluginVars
  <2>2. new.handler = "cod" /\ new.payment = NoPayment
    OBVIOUS
  <2> HIDE DEF new
  <2>3. ResultsInv' /\ \A i \in DOMAIN orders' : (Backed(orders[i]) /\ Taken(orders[i]))'
    BY <2>1 DEF PayInv, ResultsInv, Backed, Taken
  <2>4. \A t \in tasks' : (Backed(t) /\ Taken(t))'
    BY <2>1, <2>2 DEF PayInv, Backed, Taken
  <2>5. PaidOnce'
    BY <2>1, <2>2 DEF PayInv, PaidOnce, Building
  <2>6. QED
    BY <2>3, <2>4, <2>5 DEF PayInv
<1>2. ASSUME ~CallCODPayment(s)
      PROVE  PayInv'
  <2>1. UNCHANGED <<tasks, orders, replies, pendingReply>>
    BY <1>2 DEF PageStep, OpenFromCart, BuyNow, InitState, On, Back, Leave, Clear,
                IncrementConter, DecrementConter, SetCount, RemoveLine, TakeLine,
                RemoveLastLine, SelectPayment, SelectAddress, CallRazorPayPayment,
                Open, appVars, histVars, pluginVars
  <2>2. \A p \in Payments : sheet[p] \in ReplyTypes => sheet'[p] = sheet[p]
    <3>1. CASE \E p \in Payments : CallRazorPayPayment(s, p)
      BY <3>1 DEF CallRazorPayPayment, Open, ReplyTypes, TypeInv, TypeOK, PluginTypeOK
    <3>2. CASE ~ \E p \in Payments : CallRazorPayPayment(s, p)
      <4>1. sheet' = sheet
        BY <1>2, <3>2 DEF PageStep, OpenFromCart, BuyNow, InitState, On, Back, Leave,
             Clear, IncrementConter, DecrementConter, SetCount, RemoveLine, TakeLine,
             RemoveLastLine, SelectPayment, SelectAddress, histVars, pluginVars
      <4>2. QED
        BY <4>1
    <3>3. QED
      BY <3>1, <3>2
  <2>3. QED
    BY <2>1, <2>2, QuietPay
<1>3. QED
  BY <1>1, <1>2

\* A result becomes a handler, a handler an order.
LEMMA OrderPay ==
    ASSUME TypeInv, PayInv, OrderStep
    PROVE  PayInv'
<1>1. ASSUME NEW r \in replies, HandlePaid(r)
      PROVE  PayInv'
  <2> DEFINE new == [session |-> r.session, handler |-> HandlerOf(r.type),
                     payment |-> r.payment, at |-> "storage"]
  <2>1. /\ tasks' = tasks \cup {new} /\ replies' = replies \ {r}
        /\ UNCHANGED <<orders, pendingReply, sheet>> /\ r.type # "error"
    BY <1>1 DEF HandlePaid, HandleResult, histVars
  <2>2. /\ new.handler # "cod" /\ new.payment = r.payment
        /\ sheet[r.payment] = IF new.handler = "payment" THEN "success"
                               ELSE "external_wallet"
        /\ r.payment \in Payments
    BY <2>1, ResultsTyped DEF HandlerOf, PayInv, ResultsInv, ReplyTypes
  <2> HIDE DEF new
  <2>3. \A u \in replies' : u \in replies /\ u.payment # r.payment
    BY <2>1 DEF PayInv, ResultsInv
  <2>4. pendingReply # NoReply => pendingReply.payment # r.payment
    BY DEF PayInv, ResultsInv
  <2>5. ResultsInv'
    BY <2>1 DEF PayInv, ResultsInv
  <2>6. \A i \in DOMAIN orders' : (Backed(orders[i]) /\ Taken(orders[i]))'
    BY <2>1 DEF PayInv, Backed, Taken
  <2>7. Backed(new)' /\ Taken(new)'
    BY <2>1, <2>2, <2>3, <2>4 DEF Backed, Taken
  <2>8. \A t \in tasks : (Backed(t) /\ Taken(t))'
    BY <2>1 DEF PayInv, Backed, Taken
  <2>9. \A t \in tasks' : (Backed(t) /\ Taken(t))'
    BY <2>1, <2>7, <2>8 DEF Backed, Taken
  <2>10. \A t \in tasks : t.handler # "cod" => t.payment # new.payment
    BY <2>2 DEF PayInv, Taken
  <2>11. \A i \in DOMAIN orders : orders[i].handler # "cod" => orders[i].payment # new.payment
    BY <2>2 DEF PayInv, Taken
  <2>12. PaidOnce'
    BY <2>1, <2>10, <2>11 DEF PayInv, PaidOnce, Building
  <2>13. QED
    BY <2>5, <2>6, <2>9, <2>12 DEF PayInv
<1>2. ASSUME NEW t \in tasks, PostOrder(t)
      PROVE  PayInv'
  <2> DEFINE o == [session |-> t.session, handler |-> t.handler, payment |-> t.payment]
             posted == [t EXCEPT !.at = "posted"]
             n == Len(orders) + 1
  <2>1. /\ t \in Task /\ t.at = "storage"
        /\ orders' = Append(orders, o)
        /\ tasks' = (tasks \ {t}) \cup {posted}
        /\ UNCHANGED <<replies, pendingReply, sheet>>
    BY <1>2 DEF PostOrder, HasDeviceId, TypeInv, TypeOK, pluginVars
  <2>2. posted.payment = t.payment /\ posted.handler = t.handler /\ posted.at = "posted"
    BY <2>1 DEF Task
  <2>3. o.payment = t.payment /\ o.handler = t.handler
    OBVIOUS
  <2> HIDE DEF o, posted
  <2>4. /\ \A i \in DOMAIN orders' : i \in DOMAIN orders \/ i = n
        /\ \A i \in DOMAIN orders : orders'[i] = orders[i]
        /\ orders'[n] = o
    BY <2>1 DEF TypeInv, TypeOK
  <2> HIDE DEF n
  <2>5. ResultsInv'
    BY <2>1 DEF PayInv, ResultsInv
  <2>6. \A x : (Backed(x) <=> Backed(x)') /\ (Taken(x) <=> Taken(x)')
    BY <2>1 DEF Backed, Taken
  <2>7. Backed(t) /\ Taken(t)
    BY DEF PayInv
  <2>8. (Backed(posted) /\ Taken(posted))'
    BY <2>1, <2>2, <2>7 DEF Backed, Taken
  <2>9. \A u \in tasks' : (Backed(u) /\ Taken(u))'
    BY <2>1, <2>6, <2>8 DEF PayInv
  <2>10. (Backed(o) /\ Taken(o))'
    BY <2>1, <2>3, <2>7 DEF Backed, Taken
  <2>11. \A i \in DOMAIN orders' : (Backed(orders[i]) /\ Taken(orders[i]))'
    BY <2>1, <2>4, <2>6, <2>10 DEF PayInv, Backed, Taken
  <2>12. \A u \in Building' : u \in Building /\ u # t
    BY <2>1, <2>2 DEF Building
  <2>13. \A i \in DOMAIN orders : t.handler # "cod" /\ orders[i].handler # "cod"
                                   => t.payment # orders[i].payment
    BY <2>1 DEF PayInv, PaidOnce, Building
  <2>14. \A u, v \in tasks' :
           u.handler # "cod" /\ v.handler # "cod" /\ u.payment = v.payment => u = v
    BY <2>1, <2>2 DEF PayInv, PaidOnce
  <2>15. \A u \in Building', i \in DOMAIN orders' :
           u.handler # "cod" /\ orders'[i].handler # "cod" => u.payment # orders'[i].payment
    BY <2>3, <2>4, <2>12 DEF PayInv, PaidOnce, Building
  <2>16. \A i, j \in DOMAIN orders' :
           orders'[i].handler # "cod" /\ orders'[j].handler # "cod"
             /\ orders'[i].payment = orders'[j].payment => i = j
    BY <2>3, <2>4, <2>13 DEF PayInv, PaidOnce
  <2>17. PaidOnce'
    BY <2>14, <2>15, <2>16 DEF PaidOnce
  <2>18. QED
    BY <2>5, <2>9, <2>11, <2>17 DEF PayInv
<1>3. ASSUME \/ \E r \in replies : HandleNothing(r)
             \/ \E t \in tasks : OrderThrows(t) \/ \E ok \in BOOLEAN : OrderReply(t, ok)
      PROVE  PayInv'
  <2> DEFINE Quiet == /\ tasks' \subseteq tasks /\ replies' \subseteq replies
                      /\ UNCHANGED <<orders, pendingReply, sheet>>
  <2>1. ASSUME NEW r \in replies, HandleNothing(r)
        PROVE  Quiet
    BY <2>1 DEF HandleNothing, HandleResult, appVars, histVars
  <2>2. ASSUME NEW t \in tasks, OrderThrows(t)
        PROVE  Quiet
    BY <2>2 DEF OrderThrows, histVars, pluginVars
  <2>3. ASSUME NEW t \in tasks, NEW ok \in BOOLEAN, OrderReply(t, ok)
        PROVE  Quiet
    BY <2>3 DEF OrderReply, Leave, Clear, histVars, pluginVars
  <2>4. Quiet
    BY <1>3, <2>1, <2>2, <2>3
  <2>5. QED
    BY <2>4, QuietPay
<1>4. QED
  BY <1>1, <1>2, <1>3 DEF OrderStep

\* The delegate: a closing sheet yields the one result of its payment, and
\* resync moves it.
LEMMA PlatformPay ==
    ASSUME TypeInv, PayInv, PlatformStep
    PROVE  PayInv'
<1>1. UNCHANGED <<tasks, orders>>
  BY DEF PlatformStep, appVars, histVars
<1>2. ASSUME NEW p \in Payments, OpenCheckout(p)
      PROVE  PayInv'
  <2>1. \A q \in Payments : sheet[q] \in ReplyTypes => sheet'[q] = sheet[q]
    BY <1>2 DEF OpenCheckout, ReplyTypes, TypeInv, TypeOK, PluginTypeOK
  <2>2. QED
    BY <1>1, <1>2, <2>1, QuietPay DEF OpenCheckout
<1>3. ASSUME NEW p \in Payments, NEW type \in ReplyTypes, SendReply(p, type)
      PROVE  PayInv'
  <2>1. /\ sheet[p] \notin ReplyTypes /\ sheet'[p] = type
        /\ \A q \in Payments : q # p => sheet'[q] = sheet[q]
    BY <1>3 DEF SendReply, ReplyTypes, TypeInv, TypeOK, PluginTypeOK
  <2>2. \A r \in replies : r.payment # p
    BY <2>1, ResultsTyped DEF PayInv, ResultsInv
  <2>3. pendingReply # NoReply => pendingReply.payment # p
    BY <2>1, ResultsTyped DEF PayInv, ResultsInv
  <2>4. \A x : Backed(x) /\ x.handler # "cod" => x.payment # p
    BY <2>1 DEF Backed, ReplyTypes
  <2>5. /\ \A r \in replies' : r \in replies \/ (r.payment = p /\ r.type = type)
        /\ \A r, u \in replies' : r.payment = p /\ u.payment = p => r = u
    BY <1>3, <2>2 DEF SendReply
  <2>6. pendingReply' # NoReply => /\ pendingReply'.payment = p /\ pendingReply'.type = type
                                   /\ replies' = replies
    BY <1>3 DEF SendReply
  <2>7. ResultsInv'
    BY <2>1, <2>2, <2>5, <2>6, ResultsTyped DEF PayInv, ResultsInv
  <2>8. \A x : Backed(x) /\ Taken(x) => (Backed(x) /\ Taken(x))'
    BY <2>1, <2>4, <2>5, <2>6 DEF Backed, Taken
  <2>9. QED
    BY <1>1, <2>7, <2>8 DEF PayInv, PaidOnce, Building
<1>4. ASSUME NEW s \in Sessions, Resync(s)
      PROVE  PayInv'
  <2>1. pendingReply' = NoReply /\ sheet' = sheet
    BY <1>4 DEF Resync
  <2>2. CASE pendingReply = NoReply
    BY <1>1, <1>4, <2>1, <2>2, QuietPay DEF Resync
  <2>3. CASE pendingReply # NoReply
    <3> DEFINE new == [session |-> s, payment |-> pendingReply.payment,
                       type |-> pendingReply.type]
    <3>1. replies' = replies \cup {new}
      BY <1>4, <2>3 DEF Resync
    <3>2. new.payment = pendingReply.payment /\ new.type = pendingReply.type
      OBVIOUS
    <3> HIDE DEF new
    <3>3. ResultsInv'
      BY <2>1, <2>3, <3>1, <3>2 DEF PayInv, ResultsInv
    <3>4. \A x : Backed(x) /\ Taken(x) => (Backed(x) /\ Taken(x))'
      BY <2>1, <2>3, <3>1, <3>2 DEF Backed, Taken
    <3>5. QED
      BY <1>1, <3>3, <3>4 DEF PayInv, PaidOnce, Building
  <2>4. QED
    BY <2>2, <2>3
<1>5. QED
  BY <1>2, <1>3, <1>4 DEF PlatformStep

\* Every step, the restarts included, keeps the invariant.
LEMMA PayStep ==
    ASSUME TypeInv, PayInv, [Next]_vars
    PROVE  PayInv'
<1>1. ASSUME ShopStep
      PROVE  PayInv'
  <2>1. ASSUME NEW b, NEW L, NEW q,
               \/ ProcessDeath(b, L, q)
               \/ \E p \in Payments : SecondResultCrash(p, b, L, q)
        PROVE  PayInv'
    <3>1. PICK closed : (\A p \in closed : sheet[p] = "open") /\ Restart(closed, b, L, q)
      BY <2>1 DEF ProcessDeath, SecondResultCrash, AnswersTwice
    <3>2. \A p \in Payments : sheet[p] \in ReplyTypes => sheet'[p] = sheet[p]
      BY <3>1 DEF Restart, PluginRestart, ReplyTypes
    <3>3. tasks' = {} /\ replies' = {} /\ pendingReply' = NoReply /\ orders' = orders
      BY <3>1 DEF Restart, PluginRestart
    <3>4. QED
      BY <3>2, <3>3, QuietPay
  <2>2. ASSUME \/ Browse \/ CartRequest \/ CartReplyFails
               \/ \E A \in SUBSET Addresses : AddressReply(A)
               \/ \E l \in Lines, n \in Qty : CartCounter(l, n)
               \/ \E b, L, q : CartReply(b, L, q)
        PROVE  PayInv'
    <3>1. UNCHANGED <<tasks, orders, replies, pendingReply, sheet>>
      BY <2>2 DEF Browse, CartRequest, CartReplyFails, AddressReply, CartCounter,
                  CartReply, histVars, pluginVars
    <3>2. QED
      BY <3>1, QuietPay
  <2>3. QED
    BY <1>1, <2>1, <2>2 DEF ShopStep
<1>2. CASE UNCHANGED vars
  BY <1>2, QuietPay DEF vars, appVars, histVars, pluginVars
<1>3. QED
  BY <1>1, <1>2, PagePay, OrderPay, PlatformPay DEF Next

\* Nothing is paid before the first step.
LEMMA PayInit == Init => PayInv
BY DEF Init, PluginInit, PayInv, ResultsInv, PaidOnce, Building

\* A result of a payment sheet places at most one order.
THEOREM ResultOnce == Spec => []ResultOrderedOnce
<1>1. PayInv => ResultOrderedOnce
  BY RazorpayAssumption DEF PayInv, Backed, PaidOnce, ResultOrderedOnce, PaymentType
<1>2. QED
  BY <1>1, InitTyped, TypeStep, PayInit, PayStep, PTL DEF Spec

\* What an order of payment_type 1 names as its transaction tells how the sheet
\* of its payment closed, whichever page was handed the result.
THEOREM TransactionPaid == Spec => []TransactionIsPaid
<1>1. PayInv => TransactionIsPaid
  BY RazorpayAssumption DEF PayInv, Backed, TransactionIsPaid, PaymentType, Transaction
<1>2. QED
  BY <1>1, InitTyped, TypeStep, PayInit, PayStep, PTL DEF Spec
=============================================================================
