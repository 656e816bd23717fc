------------------------- MODULE CheckoutProperties -------------------------
(***************************************************************************)
(* What the Placeorder page promises, stated over Checkout.                *)
(*                                                                         *)
(* The await in front of a request may end in any state, so what holds of  *)
(* Request(t) in every state with t in Building holds of every request     *)
(* posted.                                                                 *)
(***************************************************************************)
EXTENDS Checkout

Building == {t \in tasks : t.at = "storage"}

\* The three figures on a page in the navigator are those of the products and
\* payment kind it shows, whichever handler ran last and although the Cart
\* objects are shared with the global list, which late answers replace.
TotalsMatchProducts ==
    \A s \in Sessions : Mounted(s) =>
        page[s].bill = Bill(page[s].lines, pcount[page[s].batch], page[s].cod)

\* The limit tested when "Continue" is tapped still holds of the total that is
\* read and posted after the await.
CODWithinLimit ==
    \A t \in Building : t.handler = "cod" => Request(t).total_amount <= MaxAmountCod

\* An order is posted with some products, and with the total of the lines and
\* quantities it lists, with or without the courier charge (the buyer may switch
\* the kind before a sheet covers the page), as long as the buyer has not left its
\* page: from then on the cart page can change the shared Cart objects under the
\* request.
OrderBilledAsListed ==
    \A t \in Building :
        LET r == Request(t)
        IN  /\ DOMAIN r.product # {}
            /\ Mounted(t.session) => r.total_amount \in
                 {Bill(DOMAIN r.product, r.product, cod).finaltotal : cod \in BOOLEAN}

\* One page posts at most one cash-on-delivery order, whatever the order of
\* taps, payment results, answers and failures.
CODOrderedOnce ==
    \A i, j \in DOMAIN orders :
        /\ PaymentType(orders[i]) = 0 /\ PaymentType(orders[j]) = 0
        /\ orders[i].session = orders[j].session
        => i = j

\* A result of a payment sheet places at most one order, resync or not.
ResultOrderedOnce ==
    \A i, j \in DOMAIN orders :
        /\ PaymentType(orders[i]) = 1 /\ orders[i].payment = orders[j].payment
        => i = j

\* An order of payment_type 1 is backed by a closed sheet, and what it names as
\* its transaction tells how that closed: a payment if it reported success, none
\* if a wallet was picked.  So no order names a payment that failed, or whose sheet
\* is still up, or a wallet (_handlePaymentSuccess, _handleExternalWallet).  The
\* payment_type alone says no such thing: it is 1 for a wallet, too.
TransactionIsPaid ==
    \A i \in DOMAIN orders :
        LET o == orders[i]
        IN  PaymentType(o) = 1 =>
              /\ o.payment \in Payments
              /\ sheet[o.payment] = IF Transaction(o) = NoPayment THEN "external_wallet"
                                    ELSE "success"

\* A page that opened no payment sheet places no paid order: results of other
\* pages' sheets do not reach it, unless resync hands it the result of an
\* earlier process.  (A page that did open one can be given the result of a
\* sheet another page started moments before.)
PaidOrderFromOpener ==
    \A i \in DOMAIN orders : PaymentType(orders[i]) = 1 =>
        (\E p \in Payments : owner[p] = orders[i].session) \/ restarts > 0

\* The sheet was given the total of the order it pays, in whole rupees, unless
\* the page was edited after "Continue".
ChargedAsBilled ==
    \A t \in Building :
        /\ t.handler # "cod" /\ owner[t.payment] = t.session
        /\ t.payment \notin touched
        => charged[t.payment] = WholeRupees(Request(t).total_amount)

\* "Enter Address to further proceed": no order is built without an address,
\* including the order a page places for a result of an earlier process, which
\* never passed the guard of its own "Continue" button.
OrderHasAddress == \A t \in Building : Request(t).address_id # NoAddress

\* Once the buyer has paid or picked a wallet and the page took the result, the
\* order reaches the server's door even if the buyer leaves the page meanwhile;
\* only the end of the process loses it.
AcceptedIsOrdered ==
    \A p \in Payments :
        (\E t \in tasks : t.payment = p)
          ~> (\E i \in DOMAIN orders : orders[i].payment = p) \/ restarts > 0

-----------------------------------------------------------------------------
(* The refinement mapping: where the result of a payment is now. *)

NotAsked == {p \in Payments : sheet[p] = "unused"}

AskedFor == {p \in Payments : sheet[p] \in {"invoked", "open"}}

Stored == IF pendingReply = NoReply THEN {} ELSE {pendingReply}

\* Results but for errors, in the channel or stored in the delegate.
Waiting == {[payment |-> r.payment, kind |-> r.type] :
               r \in {x \in replies \cup Stored : x.type # "error"}}

\* The result that handler or order x is for.
Claim(x) == [payment |-> x.payment,
             kind |-> IF x.handler = "payment" THEN "success" ELSE "external_wallet"]

Claimed == {Claim(t) : t \in {u \in Building : u.handler # "cod"}}

OrderedFor == {Claim(orders[i]) : i \in {j \in DOMAIN orders : orders[j].handler # "cod"}}

Payment == INSTANCE PaymentLife WITH
    unused <- NotAsked, asked <- AskedFor, waiting <- Waiting, taken <- Claimed,
    ordered <- OrderedFor

\* Whatever pages come and go, whichever of them is handed a result, and
\* wherever the process ends, results pass from one place to the next as
\* PaymentLife allows: none is in two places, skips its handler, becomes
\* another kind or comes back after it was lost.
IsPaymentLife == Payment!Spec
=============================================================================
