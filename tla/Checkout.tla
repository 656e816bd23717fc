------------------------------ MODULE Checkout ------------------------------
(***************************************************************************)
(* The Placeorder page (fragments/Placeorder.dart) with what it shares     *)
(* with the rest of the application: the global cart list, the Cart        *)
(* objects in it, the address list, the payment plugin and the server's    *)
(* late answers.                                                           *)
(*                                                                         *)
(* One account is logged in throughout, and no address is ever removed from *)
(* it; a late answer may still shorten the list.                           *)
(*                                                                         *)
(* One Dart isolate runs all of it, so an action is the code between two   *)
(* awaits.  Taps, answers and payment results interleave freely.           *)
(***************************************************************************)
EXTENDS Razorpay, Sequences, FiniteSets, FiniteSetsExt

CONSTANTS
    Lines,          \* cart lines, one per product and colour
    MaxQty,         \* the counter's upper limit, 10 in the code
    Price,          \* productPrice of a line, in paise
    Rate,           \* productDiscountRate of a line, in paise
    CourierCharge,  \* codCouriercharge, in paise
    MaxAmountCod,   \* maxAmountCod, in paise
    PayTypes,       \* what paymenttype offers
    Addresses, NoAddress,
    Batches,        \* identities of lists of Cart objects
    NoBatch,
    MaxCalls,       \* bound: cart requests without an answer
    MaxRestarts     \* bound: process deaths

ASSUME CheckoutAssumption ==
    /\ IsFiniteSet(Lines)
    /\ MaxQty \in Nat \ {0}
    /\ Price \in [Lines -> Nat] /\ Rate \in [Lines -> Nat]
    /\ CourierCharge \in Nat /\ MaxAmountCod \in Nat
    /\ PayTypes \subseteq {"cod", "prepaid"} /\ PayTypes # {}
    /\ NoAddress \notin Addresses
    /\ NoBatch \notin Batches
    /\ MaxCalls \in Nat /\ MaxRestarts \in Nat

VARIABLES
    screen,     \* the page on top of the navigator
    cart,       \* constantcartDataResponse: a batch of Cart objects and its lines
    pcount,     \* pcount[b][l]: the quantity held by the Cart object of line l
    page,       \* page[s]: the state of Placeorder page s
    addresses,  \* address ids in constantAddressDataResponse
    calls,      \* getCartlist requests without an answer
    tasks,      \* order handlers that have not finished
    orders,     \* history: the order requests posted
    charged,    \* history: charged[p], the amount given to the payment sheet
    touched,    \* history: payments whose page was edited after open
    restarts    \* history: process deaths

appVars == <<screen, cart, pcount, page, addresses, calls, tasks>>
histVars == <<orders, charged, touched, restarts>>
vars == <<appVars, histVars, pluginVars>>

Qty == 1..MaxQty

\* Who posts an order: callCODPAyment, _handlePaymentSuccess, _handleExternalWallet.
Handlers == {"cod", "payment", "wallet"}

-----------------------------------------------------------------------------
(* The totals a page shows. *)

Sum(L, q, rate) == SumFunction([l \in L |-> rate[l] * q[l]])

\* producttotal, discount and finaltotal as every handler recomputes them.
Bill(L, q, cod) ==
    LET total == Sum(L, q, Price)
        off   == Sum(L, q, Price) - Sum(L, q, Rate)
    IN  [producttotal |-> total,
         discount     |-> off,
         finaltotal   |-> IF cod THEN total - off + CourierCharge
                          ELSE total - off]

\* 'amount': finaltotal.toInt() * 100, which drops the paise.
WholeRupees(x) == (x \div 100) * 100

\* Every bill a page can show: the bill of some products.
Bills == {Bill(L, q, cod) : L \in SUBSET Lines, q \in [Lines -> Qty], cod \in BOOLEAN}

Page == [batch : Batches \cup {NoBatch}, lines : SUBSET Lines, buynow : BOOLEAN,
         cod : BOOLEAN, bill : Bills, isAnimation : BOOLEAN,
         valueselect : Addresses \cup {NoAddress}]

NoPage == [batch |-> NoBatch, lines |-> {}, buynow |-> FALSE, cod |-> FALSE,
           bill |-> Bill({}, [l \in Lines |-> 1], FALSE), isAnimation |-> FALSE,
           valueselect |-> NoAddress]

Order == [session : Sessions, handler : Handlers, payment : Payments \cup {NoPayment}]

Task == [session : Sessions, handler : Handlers, payment : Payments \cup {NoPayment},
         at : {"storage", "posted"}]

Opened == {s \in Sessions : page[s].batch # NoBatch}

\* Mutant: an answer writes into Cart objects that a page still shows.
FreshForCart(b) == b # cart.batch

\* A batch no list refers to: the objects a new list is made of.
Fresh(b) == b # cart.batch /\ \A s \in Sessions : page[s].batch # b

TypeOK ==
    /\ PluginTypeOK
    /\ screen \in {"shop", "cart", "placeorder"}
    /\ cart \in [batch : Batches, lines : SUBSET Lines]
    /\ pcount \in [Batches -> [Lines -> Qty]]
    /\ page \in [Sessions -> Page]
    /\ addresses \subseteq Addresses
    /\ calls \in Nat
    /\ tasks \subseteq Task
    /\ orders \in Seq(Order)
    /\ charged \in [Payments -> {0} \cup {WholeRupees(bill.finaltotal) : bill \in Bills}]
    /\ touched \subseteq Payments
    /\ restarts \in Nat

Init ==
    /\ PluginInit
    /\ screen = "shop"
    /\ \E b \in Batches, L \in SUBSET Lines :
         /\ cart = [batch |-> b, lines |-> L]
         /\ pcount = [c \in Batches |-> [l \in Lines |-> 1]]
    /\ page = [s \in Sessions |-> NoPage]
    /\ addresses \in SUBSET Addresses
    /\ calls = 0
    /\ tasks = {}
    /\ orders = <<>>
    /\ charged = [p \in Payments |-> 0]
    /\ touched = {}
    /\ restarts = 0

-----------------------------------------------------------------------------
(* Opening and leaving the page. *)

Mounted(s) == s \in listening

\* initState over a list of Cart objects: the page keeps the objects, not copies.
InitState(s, b, L, q, buynow) ==
    LET cod == "cod" \in PayTypes
    IN  /\ s \notin Opened
        /\ \E a \in IF addresses = {} THEN {NoAddress} ELSE addresses :
             page' = [page EXCEPT ![s] =
                        [batch |-> b, lines |-> L, buynow |-> buynow,
                         cod |-> cod, bill |-> Bill(L, q, cod),
                         isAnimation |-> FALSE, valueselect |-> a]]
        /\ On(s)
        /\ screen' = "placeorder"

\* "Place Order" in the cart page, or the cart icon of the app bar.
OpenFromCart(s) ==
    /\ screen \in {"shop", "cart"} /\ Uncovered
    /\ cart.lines # {}
    /\ InitState(s, cart.batch, cart.lines, pcount[cart.batch], FALSE)
    /\ UNCHANGED <<cart, pcount, addresses, calls, tasks, histVars>>

\* "Buy now" in the product page, logged in: one new Cart object, quantity "1".
BuyNow(s, l, b) ==
    /\ screen = "shop" /\ Uncovered
    /\ Fresh(b)
    /\ pcount' = [pcount EXCEPT ![b] = [m \in Lines |-> 1]]
    /\ InitState(s, b, {l}, pcount'[b], TRUE)
    /\ UNCHANGED <<cart, addresses, calls, tasks, histVars>>

\* The page leaves the navigator: dispose.  The page below is not told apart
\* from where the buyer goes next.
Leave(s) ==
    /\ Clear(s)
    /\ screen' = "shop"

\* The back arrow, or "Add" address, which goes to the account tab.  The app
\* bar stays while isAnimation hides the body.
Back(s) ==
    /\ Mounted(s) /\ Uncovered
    /\ Leave(s)
    /\ UNCHANGED <<cart, pcount, page, addresses, calls, tasks, histVars>>

-----------------------------------------------------------------------------
(* Widgets of the page's body. *)

\* Mutant: the body stays live under the animation.
CanTapAnimated(s) == Mounted(s) /\ Uncovered

\* The body is on screen: isAnimation does not hide it, no sheet covers it.
CanTap(s) == Mounted(s) /\ Uncovered /\ ~page[s].isAnimation

\* A getCartlist request starts: Counter and removecartlistitem are not awaited.
CallCartlist == calls < MaxCalls /\ calls' = calls + 1

Touch(s) == touched' = touched \cup {p \in Payments : owner[p] = s}

\* The quantity of line l changes to n in the Cart object page and cart share.
SetCount(s, l, n) ==
    LET b == page[s].batch
        q == [pcount[b] EXCEPT ![l] = n]
    IN  /\ pcount' = [pcount EXCEPT ![b] = q]
        /\ page' = [page EXCEPT ![s].bill = Bill(page[s].lines, q, page[s].cod)]
        /\ CallCartlist
        /\ Touch(s)
        /\ UNCHANGED <<screen, cart, addresses, tasks, orders, charged, restarts,
                       pluginVars>>

IncrementConter(s, l) ==
    /\ CanTap(s) /\ l \in page[s].lines
    /\ pcount[page[s].batch][l] < MaxQty
    /\ SetCount(s, l, pcount[page[s].batch][l] + 1)

\* Mutant: the lower limit of the counter is one too low.
DecrementToZero(s, l) ==
    /\ CanTap(s) /\ l \in page[s].lines
    /\ SetCount(s, l, pcount[page[s].batch][l] - 1)

DecrementConter(s, l) ==
    /\ CanTap(s) /\ l \in page[s].lines
    /\ pcount[page[s].batch][l] > 1
    /\ SetCount(s, l, pcount[page[s].batch][l] - 1)

\* Mutant: the totals are left as they were.
TakeLineOnly(s, l) ==
    /\ CanTap(s)
    /\ l \in page[s].lines
    /\ page' = [page EXCEPT ![s].lines = @ \ {l}]
    /\ CallCartlist
    /\ Touch(s)
    /\ UNCHANGED <<screen, cart, pcount, addresses, tasks, orders, charged,
                   restarts, pluginVars>>

\* The product of line l is taken off the page.
TakeLine(s, l) ==
    LET L == page[s].lines \ {l}
    IN  /\ CanTap(s)
        /\ l \in page[s].lines
        /\ page' = [page EXCEPT ![s].lines = L,
                      ![s].bill = Bill(L, pcount[page[s].batch], page[s].cod)]
        /\ CallCartlist
        /\ Touch(s)
        /\ UNCHANGED <<screen, cart, pcount, addresses, tasks, orders, charged,
                       restarts, pluginVars>>

\* The garbage can on one of several lines.
RemoveLine(s, l) ==
    /\ page[s].lines # {l}
    /\ TakeLine(s, l)

\* The garbage can on the only line: the product stays and the page goes.
RemoveLastLine(s, l) ==
    /\ CanTap(s)
    /\ page[s].lines = {l}
    /\ CallCartlist
    /\ Leave(s)
    /\ UNCHANGED <<cart, pcount, page, addresses, tasks, histVars>>

\* The COD and Prepaid radio buttons that paymenttype shows.
SelectPayment(s, kind) ==
    /\ CanTap(s)
    /\ kind \in PayTypes
    /\ page[s].cod # (kind = "cod")
    /\ page' = [page EXCEPT ![s].cod = (kind = "cod"),
                  ![s].bill = Bill(page[s].lines, pcount[page[s].batch], kind = "cod")]
    /\ Touch(s)
    /\ UNCHANGED <<screen, cart, pcount, addresses, calls, tasks, orders,
                   charged, restarts, pluginVars>>

\* The address drop-down.
SelectAddress(s, a) ==
    /\ CanTap(s)
    /\ a \in addresses /\ a # page[s].valueselect
    /\ page' = [page EXCEPT ![s].valueselect = a]
    /\ UNCHANGED <<screen, cart, pcount, addresses, calls, tasks, histVars,
                   pluginVars>>

\* "Continue" goes on: an address is chosen.
CanOrder(s) == CanTap(s) /\ page[s].valueselect # NoAddress

\* "Continue" with COD, up to the await of the device id.
CallCODPayment(s) ==
    /\ CanOrder(s)
    /\ page[s].cod
    /\ page[s].bill.finaltotal <= MaxAmountCod
    /\ page' = [page EXCEPT ![s].isAnimation = TRUE]
    /\ tasks' = tasks \cup {[session |-> s, handler |-> "cod", payment |-> NoPayment,
                             at |-> "storage"]}
    /\ UNCHANGED <<screen, cart, pcount, addresses, calls, histVars, pluginVars>>

\* Mutant: the sheet is given the total before the discount.
AmountBeforeDiscount(s) == WholeRupees(page[s].bill.producttotal)

\* What the sheet is told to charge.
Amount(s) == WholeRupees(page[s].bill.finaltotal)

\* "Continue" with Prepaid: the body stays live until the sheet covers it.
CallRazorPayPayment(s, p) ==
    /\ CanOrder(s)
    /\ ~page[s].cod
    /\ Open(s, p)
    /\ charged' = [charged EXCEPT ![p] = Amount(s)]
    /\ UNCHANGED <<appVars, orders, touched, restarts>>

-----------------------------------------------------------------------------
(* Results of the payment sheet, and the order they place. *)

\* Mutant: the success handler is registered for wallets too.
HandlerOfAll(type) == "payment"

\* Which of the handlers that order initState registers for a result.
HandlerOf(type) == IF type = "success" THEN "payment" ELSE "wallet"

\* _handlePaymentSuccess and _handleExternalWallet up to their first await.
HandlePaid(r) ==
    /\ HandleResult(r)
    /\ Mounted(r.session) /\ r.type # "error"
    /\ page' = [page EXCEPT ![r.session].isAnimation = TRUE]
    /\ tasks' = tasks \cup
         {[session |-> r.session, handler |-> HandlerOf(r.type),
           payment |-> r.payment, at |-> "storage"]}
    /\ UNCHANGED <<screen, cart, pcount, addresses, calls, histVars, listening>>

\* _handlePaymentError only shows a toast; after clear nobody is told.
HandleNothing(r) ==
    /\ HandleResult(r)
    /\ r.type = "error" \/ ~Mounted(r.session)
    /\ UNCHANGED <<appVars, histVars, listening>>

\* payment_type in the request of x, a handler or an order: 1 for a wallet, too.
PaymentType(x) == IF x.handler = "cod" THEN 0 ELSE 1

\* The payment its payment_transaction_id names: a wallet's is the wallet's name,
\* cash on delivery has none.
Transaction(x) == IF x.handler = "payment" THEN x.payment ELSE NoPayment

\* What handler t would post if its await ended now.
Request(t) ==
    LET pg == page[t.session]
    IN  [product      |-> [l \in pg.lines |-> pcount[pg.batch][l]],
         address_id   |-> pg.valueselect,
         payment_type |-> PaymentType(t),
         payment_transaction_id |-> Transaction(t),
         total_amount |-> pg.bill.finaltotal]

\* Mutant: a handler gives up when its page is gone.
HasDeviceIdMounted(t) == t \in tasks /\ t.at = "storage" /\ Mounted(t.session)

\* The await of the device id may end; the handler does not ask for its page.
HasDeviceId(t) == t \in tasks /\ t.at = "storage"

\* Mutant: the handler may post the request again.
PostOrderAgain(t) ==
    /\ HasDeviceId(t)
    /\ orders' = Append(orders, [session |-> t.session, handler |-> t.handler,
                                 payment |-> t.payment])
    /\ UNCHANGED <<screen, cart, pcount, page, addresses, calls, tasks, charged,
                   touched, restarts, pluginVars>>

\* The device id arrived: the request is built and posted in one step.
PostOrder(t) ==
    /\ HasDeviceId(t)
    /\ orders' = Append(orders, [session |-> t.session, handler |-> t.handler,
                                 payment |-> t.payment])
    /\ tasks' = (tasks \ {t}) \cup {[t EXCEPT !.at = "posted"]}
    /\ UNCHANGED <<screen, cart, pcount, page, addresses, calls, charged,
                   touched, restarts, pluginVars>>

\* The server answered, with an order list (ok) or with another status (null).
\* Either way a mounted page goes home; a disposed one stops at its setState.
OrderReply(t, ok) ==
    /\ t \in tasks /\ t.at = "posted"
    /\ tasks' = tasks \ {t}
    /\ cart' = IF ok /\ ~page[t.session].buynow
               THEN [cart EXCEPT !.lines = {}] ELSE cart
    /\ page' = [page EXCEPT ![t.session].isAnimation = FALSE]
    /\ IF Mounted(t.session) THEN Leave(t.session)
       ELSE UNCHANGED <<screen, pluginVars>>
    /\ UNCHANGED <<pcount, addresses, calls, histVars>>

\* The request failed: the handler ends in an exception, the animation stays.
OrderThrows(t) ==
    /\ t \in tasks /\ t.at = "posted"
    /\ tasks' = tasks \ {t}
    /\ UNCHANGED <<screen, cart, pcount, page, addresses, calls, histVars,
                   pluginVars>>

-----------------------------------------------------------------------------
(* The rest of the application and the server. *)

\* Moving between the cart page and the other pages.
Browse ==
    /\ screen # "placeorder" /\ Uncovered
    /\ screen' = IF screen = "cart" THEN "shop" ELSE "cart"
    /\ UNCHANGED <<cart, pcount, page, addresses, calls, tasks, histVars, pluginVars>>

\* The counters of the cart page act on the same Cart objects.
CartCounter(l, n) ==
    /\ screen = "cart" /\ Uncovered
    /\ l \in cart.lines
    /\ n \in {pcount[cart.batch][l] - 1, pcount[cart.batch][l] + 1} \cap Qty
    /\ pcount' = [pcount EXCEPT ![cart.batch][l] = n]
    /\ CallCartlist
    /\ UNCHANGED <<screen, cart, page, addresses, tasks, histVars, pluginVars>>

\* Add to cart, or the cart page's garbage can: only the answer changes the list.
CartRequest ==
    /\ screen # "placeorder" /\ Uncovered
    /\ CallCartlist
    /\ UNCHANGED <<screen, cart, pcount, page, addresses, tasks, histVars, pluginVars>>

\* The answer to some getCartlist replaces the list by new Cart objects.
CartReply(b, L, q) ==
    /\ calls > 0 /\ calls' = calls - 1
    /\ Fresh(b)
    /\ cart' = [batch |-> b, lines |-> L]
    /\ pcount' = [pcount EXCEPT ![b] = q]
    /\ UNCHANGED <<screen, page, addresses, tasks, histVars, pluginVars>>

\* No answer, or one without a list: the handler ends in an exception.
CartReplyFails ==
    /\ calls > 0 /\ calls' = calls - 1
    /\ UNCHANGED <<screen, cart, pcount, page, addresses, tasks, histVars, pluginVars>>

\* An answer to some account page's address request, possibly an old one that
\* comes late; an empty list changes nothing.
AddressReply(A) ==
    /\ A # {} /\ A # addresses
    /\ addresses' = A
    /\ UNCHANGED <<screen, cart, pcount, page, calls, tasks, histVars, pluginVars>>

\* The process ends and the application boots again with the server's cart and
\* addresses, those it knew among them.
\* The records of the old pages stay only as names already used.
Restart(closed, b, L, q) ==
    /\ restarts' = restarts + 1
    /\ PluginRestart(closed)
    /\ screen' = "shop"
    /\ Fresh(b)
    /\ cart' = [batch |-> b, lines |-> L]
    /\ pcount' = [pcount EXCEPT ![b] = q]
    /\ calls' = 0
    /\ tasks' = {}
    /\ addresses' \in {A \in SUBSET Addresses : addresses \subseteq A}
    /\ UNCHANGED <<page, orders, charged, touched>>

\* The system takes the process while it is in the background or covered.
ProcessDeath(b, L, q) == restarts < MaxRestarts /\ Restart({}, b, L, q)

\* A second result for one Result object: the engine's exception ends it.
SecondResultCrash(p, b, L, q) == AnswersTwice(p) /\ Restart({p}, b, L, q)

\* What the server may answer for the cart: any lines, quantities in range.
\* Quantities of absent lines carry nothing and are written 1.
Answers(L) == {q \in [Lines -> Qty] : \A l \in Lines \ L : q[l] = 1}

-----------------------------------------------------------------------------
PageStep(s) ==
    \/ OpenFromCart(s)
    \/ \E l \in Lines, b \in Batches : BuyNow(s, l, b)
    \/ Back(s)
    \/ \E l \in Lines : IncrementConter(s, l)
    \/ \E l \in Lines : DecrementConter(s, l)
    \/ \E l \in Lines : RemoveLine(s, l)
    \/ \E l \in Lines : RemoveLastLine(s, l)
    \/ \E kind \in PayTypes : SelectPayment(s, kind)
    \/ \E a \in Addresses : SelectAddress(s, a)
    \/ CallCODPayment(s)
    \/ \E p \in Payments : CallRazorPayPayment(s, p)

OrderStep ==
    \/ \E r \in replies : HandlePaid(r)
    \/ \E r \in replies : HandleNothing(r)
    \/ \E t \in tasks : PostOrder(t)
    \/ \E t \in tasks, ok \in BOOLEAN : OrderReply(t, ok)
    \/ \E t \in tasks : OrderThrows(t)

PlatformStep ==
    /\ \/ \E p \in Payments : OpenCheckout(p)
       \/ \E p \in Payments, t \in ReplyTypes : SendReply(p, t)
       \/ \E s \in Sessions : Resync(s)
    /\ UNCHANGED <<appVars, histVars>>

ShopStep ==
    \/ Browse
    \/ \E l \in Lines, n \in Qty : CartCounter(l, n)
    \/ CartRequest
    \/ CartReplyFails
    \/ \E A \in SUBSET Addresses : AddressReply(A)
    \/ \E b \in Batches, L \in SUBSET Lines : \E q \in Answers(L) :
         \/ CartReply(b, L, q)
         \/ ProcessDeath(b, L, q)
         \/ \E p \in Payments : SecondResultCrash(p, b, L, q)

Next == (\E s \in Sessions : PageStep(s)) \/ OrderStep \/ PlatformStep \/ ShopStep

Spec == Init /\ [][Next]_vars

\* The storage plugin answers every read, unless the process ends first.
Fairness == WF_vars(\E t \in tasks : PostOrder(t))

FairSpec == Spec /\ Fairness
=============================================================================
