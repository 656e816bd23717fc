----------------------------- MODULE MCCheckout -----------------------------
(* Instances of Checkout for TLC. *)
EXTENDS CheckoutProperties, TLC

CONSTANT l1  \* one of Lines

\* In paise.  One of each line stays under the limit of 500 rupees with the
\* courier charge, two of one and one of the other do not; the odd paise make
\* the sheet's amount differ from the total.
MCPrice == [l \in Lines |-> IF l = l1 THEN 25050 ELSE 20000]
MCRate  == [l \in Lines |-> IF l = l1 THEN 20025 ELSE 15000]

Symmetry == Permutations(Sessions) \cup Permutations(Payments)
              \cup Permutations(Batches)

\* A page that is neither mounted nor named by a handler is never read again,
\* nor are Cart objects no list refers to.
Alive(s) == Mounted(s) \/ \E t \in tasks : t.session = s
AlivePage == [s \in Sessions |->
    IF Alive(s) THEN page[s] ELSE <<s \in Opened>>]
AliveCount == [b \in Batches |->
    IF b = cart.batch THEN [l \in cart.lines |-> pcount[b][l]]
    ELSE IF \E s \in Sessions : Alive(s) /\ page[s].batch = b THEN pcount[b]
    ELSE <<>>]

\* Without payments there is nothing for resync to find.
AlivePlugin == IF Payments = {} THEN listening ELSE pluginVars

\* No property tells apart the order in which requests were posted.
OrderBag == {<<orders[i], Cardinality({j \in DOMAIN orders : orders[j] = orders[i]})>> :
                i \in DOMAIN orders}

View == <<screen, cart, AliveCount, AlivePage, addresses, calls, tasks,
          OrderBag, charged, touched, restarts, AlivePlugin>>
=============================================================================
