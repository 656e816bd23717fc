------------------------------ MODULE Catalogue ------------------------------
(***************************************************************************)
(* The shop tab (fragments/CreateyourStyle.dart): the products it shows    *)
(* after any sequence of category taps, searches, filters, sorts and       *)
(* refreshes.                                                              *)
(*                                                                         *)
(* Every handler works on the list the last one left, filtredproducts, and *)
(* Submit drops some of the buyer's choices when a stage finds that list   *)
(* empty.  The highlighted tiles belong to the application's data and stay *)
(* when the buyer leaves the tab; everything else belongs to the page.     *)
(*                                                                         *)
(* Left out: the trending row, which never changes, and the colour of the  *)
(* tool bar (bottombtncolor).                                              *)
(***************************************************************************)
EXTENDS Integers, Sequences, Functions

CONSTANTS
    Products,
    Productlist,          \* Productlist.data.products, in the server's order
    Rate, Rating,         \* productDiscountRate and productRating of a product
    Fabric, Category,     \* productFabric and productCategory of a product
    Colors,               \* names in colorslist
    ColorsOf,             \* productColor of a product
    Fabrics, NoFabric,    \* names in fabriclist, and ""
    NoColor,              \* color = ""
    Categories, Home,     \* chips of the top row
    Texts, Match,         \* Match[t]: the products whose name contains text t
    MinPrice, MaxPrice,   \* minprice and maxprice
    Margin,               \* the 1500 by which the slider starts inside them
    MaxRefreshes          \* bound: refreshes under way

ASSUME CatalogueAssumption ==
    /\ Productlist \in Seq(Products) /\ IsInjective(Productlist)
    /\ Rate \in [Products -> Nat] /\ Rating \in [Products -> Nat]
    /\ Fabric \in [Products -> Fabrics]
    /\ DOMAIN Category = Products  \* a product's category need not have a chip
    /\ ColorsOf \in [Products -> SUBSET Colors]
    /\ NoFabric \notin Fabrics /\ NoColor \notin Colors /\ Home \in Categories
    /\ Match \in [Texts -> SUBSET Products]
    /\ MinPrice \in Nat /\ MaxPrice \in Nat /\ Margin \in Nat
    /\ MinPrice + 2 * Margin <= MaxPrice
    /\ MaxRefreshes \in Nat

VARIABLES
    filter,    \* the products shown and the choices made so far
    selected,  \* the highlighted category
    panel,     \* the open panel: issortby, isFliter or issearchbar
    refreshes  \* pulls to refresh whose half second has not passed

vars == <<filter, selected, panel, refreshes>>

Low == MinPrice + Margin

\* Mutant: the margin is added at the upper end too.
HighOutside == MaxPrice + Margin

High == MaxPrice - Margin

Price == MinPrice..MaxPrice
Panels == {"sort", "filter", "search"}

\* isRel, isHighprise, isLowprice and isavg: ticking one clears the others.
Sorts == {"relevance", "high", "low", "rating"}

\* colorslist and fabriclist are the highlighted tiles.
Filter == [shown : Seq(Products), sort : Sorts \cup {"none"},
           color : Colors \cup {NoColor}, fabric : Fabrics \cup {NoFabric},
           start : Price, end : Price,
           colorslist : SUBSET Colors, fabriclist : SUBSET Fabrics]

TypeOK ==
    /\ filter \in Filter
    /\ selected \in Categories
    /\ panel \in Panels \cup {"none"}
    /\ refreshes \in 0..MaxRefreshes

NewPage(colorslist, fabriclist) ==
    [shown |-> Productlist, sort |-> "none", color |-> NoColor, fabric |-> NoFabric,
     start |-> Low, end |-> High, colorslist |-> colorslist, fabriclist |-> fabriclist]

Init ==
    /\ filter = NewPage({}, {})
    /\ selected = Home
    /\ panel = "none"
    /\ refreshes = 0

-----------------------------------------------------------------------------
(* What handlers reset. *)

NoSort(f) == [f EXCEPT !.sort = "none"]
NoPrices(f) == [f EXCEPT !.start = Low, !.end = High]

\* Mutant: the tiles are cleared, the choice is not.
NoColorTiles(f) == [f EXCEPT !.colorslist = {}]

NoColors(f) == [f EXCEPT !.color = NoColor, !.colorslist = {}]
NoFabrics(f) == [f EXCEPT !.fabric = NoFabric, !.fabriclist = {}]
NoFilters(f) == NoPrices(NoColors(NoFabrics(f)))

-----------------------------------------------------------------------------
(* Submit: the list passes five stages.  A stage whose choice is made filters *)
(* the list, or, if the list is empty, starts again from all products and     *)
(* drops choices of other stages.                                             *)

\* forEach over list, adding what is in S: Added[i] is the result after i products.
Filtered(list, S) ==
    LET Added[i \in 0..Len(list)] ==
          IF i = 0 THEN <<>>
          ELSE IF list[i] \in S THEN Append(Added[i - 1], list[i]) ELSE Added[i - 1]
    IN  Added[Len(list)]

Keep(f, list, S) == [f EXCEPT !.shown = Filtered(list, S)]

Arrangements(list) ==
    {[i \in DOMAIN list |-> list[b[i]]] : b \in Bijection(DOMAIN list, DOMAIN list)}

InOrder(sort, list) ==
    \A i, j \in DOMAIN list : i < j =>
        CASE sort = "low"    -> Rate[list[i]] <= Rate[list[j]]
          [] sort = "high"   -> Rate[list[i]] >= Rate[list[j]]
          [] sort = "rating" -> Rating[list[i]] <= Rating[list[j]]
          [] OTHER           -> TRUE

\* List.sort promises nothing of the order of equal products.
Sorted(f, list) ==
    {[f EXCEPT !.shown = l] : l \in {a \in Arrangements(list) : InOrder(f.sort, a)}}

SortStage(f) ==
    CASE f.sort = "none"      -> {f}
      [] f.sort = "relevance" -> {[NoFilters(f) EXCEPT !.shown = Productlist]}
      [] OTHER                -> IF f.shown # <<>> THEN Sorted(f, f.shown)
                                 ELSE Sorted(NoFilters(f), Productlist)

\* productColor is a list of objects and color a name: == never holds.
HasColor(p, color) == FALSE

ColorStage(f) ==
    IF f.color = NoColor THEN f
    ELSE LET g == IF f.shown # <<>> THEN f
                  ELSE [NoSort(NoPrices(NoFabrics(f))) EXCEPT !.shown = Productlist]
         IN  Keep(g, g.shown, {p \in Products : HasColor(p, g.color)})

\* Mutant: a product at the lower price is filtered out.
StartStageStrict(f) ==
    IF f.start = Low THEN f
    ELSE LET g == IF f.shown # <<>> THEN f
                  ELSE [NoSort(NoColors(f)) EXCEPT !.end = High, !.fabric = NoFabric,
                                                   !.shown = Productlist]
         IN  Keep(g, g.shown, {p \in Products : Rate[p] > g.start})

\* Mutant: starting again from all products leaves the sort box ticked.
StartStageSorted(f) ==
    IF f.start = Low THEN f
    ELSE LET g == IF f.shown # <<>> THEN f
                  ELSE [NoColors(f) EXCEPT !.end = High, !.fabric = NoFabric,
                                           !.shown = Productlist]
         IN  Keep(g, g.shown, {p \in Products : Rate[p] >= g.start})

\* The fabric is dropped, its tile stays highlighted.
StartStage(f) ==
    IF f.start = Low THEN f
    ELSE LET g == IF f.shown # <<>> THEN f
                  ELSE [NoSort(NoColors(f)) EXCEPT !.end = High, !.fabric = NoFabric,
                                                   !.shown = Productlist]
         IN  Keep(g, g.shown, {p \in Products : Rate[p] >= g.start})

\* Starting again, the products are compared with the lower price.
EndStage(f) ==
    IF f.end = High THEN f
    ELSE IF f.shown # <<>> THEN Keep(f, f.shown, {p \in Products : Rate[p] <= f.end})
    ELSE LET g == [NoSort(NoColors(NoFabrics(f))) EXCEPT !.start = Low]
         IN  Keep(g, Productlist, {p \in Products : Rate[p] <= g.start})

\* Mutant: starting again from all products keeps the prices on the slider.
FabricStagePriced(f) ==
    IF f.fabric = NoFabric THEN f
    ELSE LET g == IF f.shown # <<>> THEN f
                  ELSE [NoSort(NoColors(f)) EXCEPT !.fabriclist = {},
                                                   !.shown = Productlist]
         IN  Keep(g, g.shown, {p \in Products : Fabric[p] = g.fabric})

\* Starting again, the chosen fabric keeps but its tile does not.
FabricStage(f) ==
    IF f.fabric = NoFabric THEN f
    ELSE LET g == IF f.shown # <<>> THEN f
                  ELSE [NoSort(NoPrices(NoColors(f))) EXCEPT !.fabriclist = {},
                                                             !.shown = Productlist]
         IN  Keep(g, g.shown, {p \in Products : Fabric[p] = g.fabric})

Submit ==
    /\ panel \in {"sort", "filter"}
    /\ \E f \in SortStage(filter) :
         filter' = FabricStage(EndStage(StartStage(ColorStage(f))))
    /\ selected' = IF filter.sort = "relevance" THEN Home ELSE selected
    /\ panel' = "none"
    /\ UNCHANGED refreshes

Cancel ==
    /\ panel \in {"sort", "filter"}
    /\ filter' = NewPage({}, {})
    /\ selected' = Home
    /\ panel' = "none"
    /\ UNCHANGED refreshes

-----------------------------------------------------------------------------
(* The panels and the rest of the page. *)

\* The three buttons of the tool bar: each closes the other two panels.
Toggle(k) ==
    /\ panel' = IF panel = k THEN "none" ELSE k
    /\ UNCHANGED <<filter, selected, refreshes>>

\* A sort box is ticked, or the ticked one is cleared.
TickSort(k) ==
    /\ panel = "sort"
    /\ filter' = [filter EXCEPT !.sort = IF filter.sort = k THEN "none" ELSE k]
    /\ UNCHANGED <<selected, panel, refreshes>>

Slide(start, end) ==
    /\ panel = "filter" /\ start <= end
    /\ filter' = [filter EXCEPT !.start = start, !.end = end]
    /\ UNCHANGED <<selected, panel, refreshes>>

PickColor(c) ==
    /\ panel = "filter"
    /\ filter' = [filter EXCEPT !.color = c, !.colorslist = {c}]
    /\ UNCHANGED <<selected, panel, refreshes>>

TickFabric(b) ==
    /\ panel = "filter" /\ b \notin filter.fabriclist
    /\ filter' = [filter EXCEPT !.fabric = b, !.fabriclist = {b}]
    /\ UNCHANGED <<selected, panel, refreshes>>

\* Clearing a box only clears the box: the fabric stays chosen.
UntickFabric(b) ==
    /\ panel = "filter" /\ b \in filter.fabriclist
    /\ filter' = [filter EXCEPT !.fabriclist = @ \ {b}]
    /\ UNCHANGED <<selected, panel, refreshes>>

\* A search narrows what is shown; a shorter text brings nothing back.
Search(t) ==
    /\ panel = "search"
    /\ filter' = Keep(filter, filter.shown, Match[t])
    /\ UNCHANGED <<selected, panel, refreshes>>

\* The search text is empty again: tiles stay highlighted.
ClearSearch ==
    /\ panel = "search"
    /\ filter' = NewPage(filter.colorslist, filter.fabriclist)
    /\ selected' = Home
    /\ panel' = "none"
    /\ UNCHANGED refreshes

InCategory(c) == {p \in Products : c = Home \/ Category[p] = c}

\* Mutant: the list is not cleared first.
AddCategory(c) ==
    /\ c # selected
    /\ filter' = [filter EXCEPT !.shown = @ \o Filtered(Productlist, InCategory(c))]
    /\ selected' = c
    /\ UNCHANGED <<panel, refreshes>>

PickCategory(c) ==
    /\ c # selected
    /\ filter' = Keep(filter, Productlist, InCategory(c))
    /\ selected' = c
    /\ UNCHANGED <<panel, refreshes>>

\* A pull to refresh ends at once and acts half a second later.
Pull ==
    /\ refreshes < MaxRefreshes
    /\ refreshes' = refreshes + 1
    /\ UNCHANGED <<filter, selected, panel>>

\* getProductlist, late: all products and both prices, no other choice.
Refresh ==
    /\ refreshes > 0
    /\ refreshes' = refreshes - 1
    /\ filter' = [NoPrices(filter) EXCEPT !.shown = Productlist]
    /\ UNCHANGED <<selected, panel>>

\* Another tab and back: a new page under the same tiles.  A refresh of the
\* old page changes only the old page.
Reopen ==
    /\ filter' = NewPage(filter.colorslist, filter.fabriclist)
    /\ selected' = Home
    /\ panel' = "none"
    /\ refreshes' = 0

Next ==
    \/ Submit
    \/ Cancel
    \/ \E k \in Panels : Toggle(k)
    \/ \E k \in Sorts : TickSort(k)
    \/ \E start, end \in Price : Slide(start, end)
    \/ \E c \in Colors : PickColor(c)
    \/ \E b \in Fabrics : TickFabric(b)
    \/ \E b \in Fabrics : UntickFabric(b)
    \/ \E t \in Texts : Search(t)
    \/ ClearSearch
    \/ \E c \in Categories : PickCategory(c)
    \/ Pull
    \/ Refresh
    \/ Reopen

Spec == Init /\ [][Next]_vars

-----------------------------------------------------------------------------
(* What the page promises. *)

\* Product p is one of those the choices in f ask for.  A slider end that was
\* not moved asks for nothing.
Meets(p, f) ==
    /\ f.color = NoColor \/ f.color \in ColorsOf[p]
    /\ f.fabric = NoFabric \/ f.fabric = Fabric[p]
    /\ f.start = Low \/ f.start <= Rate[p]
    /\ f.end = High \/ Rate[p] <= f.end

\* No product is ever listed twice, though a stage appends all products to a
\* list it has found empty.
ShownOnce == IsInjective(filter.shown)

\* A colour the page filters by is the one highlighted, across resets of
\* either, refreshes and new pages.
ColorHighlighted == filter.color # NoColor => filter.colorslist = {filter.color}

\* After Submit every product shown meets every choice that is left, whichever
\* stages started again.  A slider whose ends passed each other is excepted.
SubmitSound ==
    [][Submit /\ filter'.start <= filter'.end =>
         \A p \in Range(filter'.shown) : Meets(p, filter')]_vars

\* After Submit the list is in the order of the box that is still ticked.
SubmitSorted == [][Submit => InOrder(filter'.sort, filter'.shown)]_vars

\* Some choice is made.
Chosen(f) == \/ f.sort # "none" \/ f.color # NoColor \/ f.fabric # NoFabric
             \/ f.start # Low \/ f.end # High

\* Submit hides no product that meets the choices that are left; if nothing was
\* shown it looks through all products again.  Excepted are a chosen colour and
\* a moved upper price.
SubmitComplete ==
    [][Submit /\ Chosen(filter) /\ filter'.color = NoColor /\ filter'.end = High =>
         \A p \in Range(IF filter.shown = <<>> THEN Productlist ELSE filter.shown) :
            Meets(p, filter') => p \in Range(filter'.shown)]_vars

\* When Submit for a colour ends in "We didn't find product in this category..",
\* no product that was shown has that colour.
ColorFound ==
    [][Submit /\ filter'.color # NoColor /\ filter'.shown = <<>> =>
         \A p \in Range(filter.shown) : ~Meets(p, filter')]_vars
=============================================================================
