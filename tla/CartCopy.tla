------------------------------- MODULE CartCopy -------------------------------
(***************************************************************************)
(* What the application's copy of the cart promises.  The server handles   *)
(* requests one at a time and answers each with the cart it then keeps.    *)
(* The copy is only ever replaced by one whole answer, each answer is used *)
(* at most once, and a tap changes the quantity of one line already there, *)
(* by one, within the limits.                                              *)
(***************************************************************************)
EXTENDS Integers

CONSTANTS
    Lines,      \* cart lines, one per product and colour
    MaxQty,     \* the largest quantity
    Requests    \* identities of requests

VARIABLES
    server,     \* the server's cart
    copy,       \* the application's
    answers     \* answers[r]: the answer to r on its way, as a set of at most one cart

\* Quantity 0: the line is not in the cart.
Carts == [Lines -> 0..MaxQty]

Init ==
    /\ server \in Carts
    /\ copy = server
    /\ answers = [r \in Requests |-> {}]

\* The server changes its cart, or not, and answers.
Handle(r) ==
    /\ answers[r] = {}
    /\ server' \in Carts
    /\ answers' = [answers EXCEPT ![r] = {server'}]
    /\ UNCHANGED copy

Take(r) ==
    /\ answers[r] = {copy'}
    /\ answers' = [answers EXCEPT ![r] = {}]
    /\ UNCHANGED server

Lose(r) ==
    /\ answers' = [answers EXCEPT ![r] = {}]
    /\ UNCHANGED <<server, copy>>

Tap(l) ==
    /\ copy[l] # 0
    /\ \E n \in 1..MaxQty :
         /\ n - copy[l] \in {-1, 1}
         /\ copy' = [copy EXCEPT ![l] = n]
    /\ UNCHANGED <<server, answers>>

Next ==
    \/ \E r \in Requests : Handle(r) \/ Take(r) \/ Lose(r)
    \/ \E l \in Lines : Tap(l)

Spec == Init /\ [][Next]_<<server, copy, answers>>
===============================================================================
