------------------------------ MODULE MCCartSync ------------------------------
(* Instances of CartSync for TLC. *)
EXTENDS CartSync, TLC

CONSTANT l1  \* one of Lines

\* The total tells the lines apart.
MCRate == [l \in Lines |-> IF l = l1 THEN 1 ELSE 10]

Symmetry == Permutations(Views) \cup Permutations(Batches) \cup Permutations(Requests)

\* What no step and no invariant reads again is left out of the view: Cart
\* objects nothing refers to, cart pages left, the total of a page whose list
\* changed behind its back, the badge's number once it may be wrong, and the
\* fields of a request that its stage has used.
Objects == [b \in Batches |->
    [l \in Lines |->
       IF \/ b = list.batch /\ l \in list.lines
          \/ b = checkout.batch /\ l \in checkout.lines
          \/ \E r \in Requests : requests[r].at = "storage"
                                 /\ requests[r].batch = b /\ requests[r].line = l
       THEN pcount[b][l] ELSE 0]]

Badge == IF straight THEN count ELSE IF count >= 1 THEN 1 ELSE 0

Page == IF cartPage = NoView THEN <<>>
        ELSE <<cartPage, view[cartPage].isanimation,
               IF astray THEN 0 ELSE view[cartPage].total>>

LiveRequest(q) ==
    IF q.at = "storage" /\ q.kind = "count" THEN q
    ELSE IF q.at = "answered"
         THEN [q EXCEPT !.batch = NoBatch, !.line = NoLine, !.n = 1]
         ELSE [q EXCEPT !.batch = NoBatch]

StateView == <<server, list, Objects, Badge, Page, checkout,
               [r \in Requests |-> LiveRequest(requests[r])], histVars>>
===============================================================================
