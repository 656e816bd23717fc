----------------------------- MODULE PaymentLife -----------------------------
(***************************************************************************)
(* What becomes of the buyer's payments, whatever happens to pages, the    *)
(* plugin and the process.  A payment is asked for once and yields at most *)
(* one result, which is held in one place at a time: it waits, is taken,   *)
(* is ordered, and stays of the kind it was when the sheet closed.         *)
(*                                                                         *)
(* A result may be lost: one that waits because nobody takes it or another *)
(* one replaces it, all that wait or are taken when the process ends.      *)
(***************************************************************************)
CONSTANT Payments  \* calls of Razorpay.open

VARIABLES
    unused,   \* payments nobody was asked for yet
    asked,    \* payments whose sheet has not closed
    waiting,  \* results on their way to a page
    taken,    \* results a page is making an order for
    ordered   \* results an order was posted for

vars == <<unused, asked, waiting, taken, ordered>>

PaidResult == [payment : Payments, kind : {"success", "external_wallet"}]

Init ==
    /\ unused = Payments
    /\ asked = {} /\ waiting = {} /\ taken = {} /\ ordered = {}

Ask(p) ==
    /\ p \in unused
    /\ unused' = unused \ {p}
    /\ asked' = asked \cup {p}
    /\ UNCHANGED <<waiting, taken, ordered>>

\* The sheet closes, with a result or with an error.
Close(p) ==
    /\ p \in asked
    /\ asked' = asked \ {p}
    /\ \E new \in {{}} \cup {{r} : r \in {x \in PaidResult : x.payment = p}},
          old \in {{}} \cup {{r} : r \in waiting} :
         waiting' = (waiting \ old) \cup new
    /\ UNCHANGED <<unused, taken, ordered>>

Take(r) ==
    /\ r \in waiting
    /\ waiting' = waiting \ {r}
    /\ taken' = taken \cup {r}
    /\ UNCHANGED <<unused, asked, ordered>>

PostOrder(r) ==
    /\ r \in taken
    /\ taken' = taken \ {r}
    /\ ordered' = ordered \cup {r}
    /\ UNCHANGED <<unused, asked, waiting>>

Drop(r) ==
    /\ r \in waiting
    /\ waiting' = waiting \ {r}
    /\ UNCHANGED <<unused, asked, taken, ordered>>

\* Sheets that were up may go on in the next process.
ProcessEnds ==
    /\ waiting' = {} /\ taken' = {}
    /\ asked' \subseteq asked
    /\ UNCHANGED <<unused, ordered>>

Next ==
    \/ \E p \in Payments : Ask(p) \/ Close(p)
    \/ \E r \in PaidResult : Take(r) \/ PostOrder(r) \/ Drop(r)
    \/ ProcessEnds

Spec == Init /\ [][Next]_vars
=============================================================================
