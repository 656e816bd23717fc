------------------------------- MODULE Wishlist -------------------------------
(***************************************************************************)
(* The wishlist: the heart and the colours of the product page             *)
(* (fragments/Product_detail.dart), the wishlist page (fragments/          *)
(* Wishlistdata.dart) and the global list both replace by whole answers,   *)
(* which come in any order, also to pages that are gone.                   *)
(***************************************************************************)
EXTENDS Integers, Sequences, FiniteSets, SequencesExt

CONSTANTS
    Products,
    Colors,
    Tabs, NoTab,        \* wishlist pages, one State object each
    Pages, NoPage,      \* product pages, one State object each
    Requests,           \* identities of requests; bounds those under way
    MaxWished           \* bound: entries an addition leaves on the server

ASSUME WishlistAssumption ==
    /\ IsFiniteSet(Products) /\ IsFiniteSet(Colors)
    /\ NoTab \notin Tabs /\ NoPage \notin Pages
    /\ Tabs \cap Pages = {}
    /\ MaxWished \in Nat

Items == Products \X Colors

VARIABLES
    login,      \* whether a device id is stored
    server,     \* the account's wishlist on the server
    list,       \* constantWishlistDataResponse
    selected,   \* the colour tile of a product that isSelected
    page,       \* the product page on top
    tab,        \* the wishlist page in the navigator
    shown,      \* the list the wishlist page has built its rows from
    requests,   \* requests[r]
    order,      \* history: requests under way in the order of their taps
    orderly,    \* history: none failed, all served and answered in that order
    astray      \* history: the list changed without the wishlist page

histVars == <<order, orderly, astray>>
vars == <<login, server, list, selected, page, tab, shown, requests, histVars>>

\* All the ways the server may list a set.
Lists(S) == SetToSeqs(S)
AllLists == UNION {Lists(S) : S \in SUBSET Items}

\* uuid: "" until storage answers, then an id or null.  related: history, the
\* product came from the row of related ones and no colour was tapped since.
\* tapped: history, the item of the last tap on the heart.
Page == [id : Pages, product : Products, colorid : Colors, isheart : BOOLEAN,
         uuid : {"", "id", "null"}, related : BOOLEAN, tapped : Items \cup {<<>>}]
Closed == [id |-> NoPage]

Request == [kind : {"add", "remove"}, by : Pages \cup Tabs, item : Items,
            at : {"storage", "sent", "answered"}, own : BOOLEAN, answer : AllLists]
Idle == [at |-> "none"]

UnderWay(r) == requests[r].at # "none"

TypeOK ==
    /\ login \in BOOLEAN
    /\ server \in SUBSET Items
    /\ list \in AllLists
    /\ selected \in [Products -> Colors]
    /\ page \in Page \cup {Closed}
    /\ tab \in Tabs \cup {NoTab}
    /\ shown \in AllLists
    /\ requests \in [Requests -> Request \cup {Idle}]
    /\ order \in Seq(Requests) /\ IsInjective(order)
    /\ ToSet(order) = {r \in Requests : UnderWay(r)}
    /\ orderly \in BOOLEAN /\ astray \in BOOLEAN

\* Boot: the account's list, the first colour of every product.
Init ==
    /\ login \in BOOLEAN
    /\ server \in IF login THEN {S \in SUBSET Items : Cardinality(S) <= MaxWished} ELSE {{}}
    /\ list \in Lists(server)
    /\ \E c \in Colors : selected = [p \in Products |-> c]
    /\ page = Closed /\ tab = NoTab /\ shown = <<>>
    /\ requests = [r \in Requests |-> Idle]
    /\ order = <<>> /\ orderly = TRUE /\ astray = FALSE

Quiet == order = <<>>
OnTop == page.id # NoPage

-----------------------------------------------------------------------------
(* Pages. *)

\* The wishlist tab; shown only to a buyer who logged in.
OpenTab(w) ==
    /\ login /\ tab = NoTab /\ ~OnTop
    /\ \A r \in Requests : UnderWay(r) => requests[r].by # w
    /\ tab' = w
    /\ shown' = list
    /\ astray' = FALSE
    /\ UNCHANGED <<login, server, list, selected, page, requests, order, orderly>>

LeaveTab ==
    /\ tab # NoTab /\ ~OnTop
    /\ tab' = NoTab /\ shown' = <<>>
    /\ UNCHANGED <<login, server, list, selected, page, requests, histVars>>

\* What getDate's loop leaves: the "return" in it leaves only the closure, so
\* the flag tells whether the last entry is the product's.
LastIs(p) == list # <<>> /\ Last(list)[1] = p

\* initState and getDate up to the await of the device id.
NewPage(s, p) ==
    /\ ~OnTop
    /\ \A r \in Requests : UnderWay(r) => requests[r].by # s
    /\ page' = [id |-> s, product |-> p, colorid |-> selected[p], isheart |-> LastIs(p),
                uuid |-> "", related |-> FALSE, tapped |-> <<>>]
    /\ orderly' = (orderly \/ Quiet)
    /\ UNCHANGED <<login, server, list, selected, tab, shown, requests, order, astray>>

\* A product of the shop.
OpenProduct(s, p) == tab = NoTab /\ NewPage(s, p)

\* Row i of the wishlist page: entry i of the list as it is now, if it has one.
OpenRow(s, i) ==
    /\ tab # NoTab
    /\ i \in 1..Len(shown) /\ i <= Len(list)
    /\ NewPage(s, list[i][1])

\* getDate goes on.
ReadId ==
    /\ OnTop /\ page.uuid = ""
    /\ page' = [page EXCEPT !.uuid = IF login THEN "id" ELSE "null"]
    /\ UNCHANGED <<login, server, list, selected, tab, shown, requests, histVars>>

\* A product of the row of related ones: nothing but the product changes.
TapRelated(p) ==
    /\ OnTop /\ p # page.product
    /\ page' = [page EXCEPT !.product = p, !.related = TRUE, !.tapped = <<>>]
    /\ UNCHANGED <<login, server, list, selected, tab, shown, requests, histVars>>

TapColor(c) ==
    /\ OnTop
    /\ selected' = [selected EXCEPT ![page.product] = c]
    /\ page' = [page EXCEPT !.colorid = c, !.related = FALSE]
    /\ UNCHANGED <<login, server, list, tab, shown, requests, histVars>>

ClosePage ==
    /\ OnTop
    /\ page' = Closed
    /\ UNCHANGED <<login, server, list, selected, tab, shown, requests, histVars>>

-----------------------------------------------------------------------------
(* Requests. *)

Begin(r, kind, by, item, at, own) ==
    /\ ~UnderWay(r)
    /\ requests' = [requests EXCEPT ![r] =
         [kind |-> kind, by |-> by, item |-> item, at |-> at, own |-> own, answer |-> <<>>]]
    /\ order' = Append(order, r)

\* Mutant: the request is chosen before the heart is turned over.
TapHeartLate(r) ==
    /\ OnTop /\ page.uuid # "null"
    /\ page.isheart \/ Cardinality(server) < MaxWished
    /\ LET item == <<page.product, page.colorid>>
       IN  /\ page' = [page EXCEPT !.isheart = ~@, !.tapped = item]
           /\ Begin(r, IF page.isheart THEN "add" ELSE "remove", page.id, item, "sent",
                    page.uuid = "id")
    /\ orderly' = (orderly /\ page.uuid = "id")
    /\ UNCHANGED <<login, server, list, selected, tab, shown, astray>>

\* The heart turns over at once; the request names no account while the device
\* id is not read.
TapHeart(r) ==
    /\ OnTop /\ page.uuid # "null"
    /\ page.isheart \/ Cardinality(server) < MaxWished
    /\ LET item == <<page.product, page.colorid>>
       IN  /\ page' = [page EXCEPT !.isheart = ~@, !.tapped = item]
           /\ Begin(r, IF page'.isheart THEN "add" ELSE "remove", page.id, item, "sent",
                    page.uuid = "id")
    /\ orderly' = (orderly /\ page.uuid = "id")
    /\ UNCHANGED <<login, server, list, selected, tab, shown, astray>>

\* Without a device id the login page replaces all.
TapHeartLoggedOut ==
    /\ OnTop /\ page.uuid = "null"
    /\ page' = Closed /\ tab' = NoTab /\ shown' = <<>>
    /\ UNCHANGED <<login, server, list, selected, requests, histVars>>

\* The bin of row i: entry i of the list as it is now, then an await.
RemoveWishList(r, i) ==
    /\ tab # NoTab /\ ~OnTop
    /\ i \in 1..Len(shown) /\ i <= Len(list)
    /\ Begin(r, "remove", tab, list[i], "storage", TRUE)
    /\ UNCHANGED <<login, server, list, selected, page, tab, shown, orderly, astray>>

Send(r) ==
    /\ UnderWay(r) /\ requests[r].at = "storage"
    /\ requests' = [requests EXCEPT ![r].at = "sent"]
    /\ UNCHANGED <<login, server, list, selected, page, tab, shown, histVars>>

\* The requests tapped before r.
Before(r) == {order[i] : i \in {i \in 1..Len(order) :
                                  \E j \in (i + 1)..Len(order) : order[j] = r}}

\* The server changes the account's list and answers with it, in any order; it
\* has nothing for an empty id.
Serve(r) ==
    LET q == requests[r]
    IN  /\ UnderWay(r) /\ q.at = "sent"
        /\ server' = IF ~q.own THEN server
                     ELSE IF q.kind = "add" THEN server \cup {q.item} ELSE server \ {q.item}
        /\ \E a \in Lists(IF q.own THEN server' ELSE {}) :
              requests' = [requests EXCEPT ![r].at = "answered", ![r].answer = a]
        /\ orderly' = (orderly /\ \A b \in Before(r) : requests[b].at = "answered")
        /\ UNCHANGED <<login, list, selected, page, tab, shown, order, astray>>

End(r) ==
    /\ requests' = [requests EXCEPT ![r] = Idle]
    /\ \E i \in 1..Len(order) : order[i] = r /\ order' = RemoveAt(order, i)

\* Mutant: addAll without clear.
ReplyAppends(r) ==
    /\ UnderWay(r) /\ requests[r].at = "answered"
    /\ list' = list \o requests[r].answer
    /\ shown' = IF requests[r].by = tab THEN list' ELSE shown
    /\ astray' = (requests[r].by # tab)
    /\ End(r)
    /\ orderly' = (orderly /\ r = Head(order))
    /\ UNCHANGED <<login, server, selected, page, tab>>

\* Mutant: without setState.
ReplyUnseen(r) ==
    /\ UnderWay(r) /\ requests[r].at = "answered"
    /\ list' = requests[r].answer
    /\ astray' = (requests[r].by # tab)
    /\ End(r)
    /\ orderly' = (orderly /\ r = Head(order))
    /\ UNCHANGED <<login, server, selected, page, tab, shown>>

\* clear and addAll; only the page that asked is built again, if it is there.
Reply(r) ==
    /\ UnderWay(r) /\ requests[r].at = "answered"
    /\ list' = requests[r].answer
    /\ shown' = IF requests[r].by = tab THEN list' ELSE shown
    /\ astray' = (requests[r].by # tab)
    /\ End(r)
    /\ orderly' = (orderly /\ r = Head(order))
    /\ UNCHANGED <<login, server, selected, page, tab>>

\* A null answer or an exception: the heart stays turned over.
Fail(r) ==
    /\ UnderWay(r)
    /\ End(r)
    /\ orderly' = FALSE
    /\ UNCHANGED <<login, server, list, selected, page, tab, shown, astray>>

-----------------------------------------------------------------------------
Rows == 1..Cardinality(Items)

Next ==
    \/ \E w \in Tabs : OpenTab(w)
    \/ LeaveTab \/ ReadId \/ ClosePage \/ TapHeartLoggedOut
    \/ \E s \in Pages :
         \/ \E p \in Products : OpenProduct(s, p)
         \/ \E i \in Rows : OpenRow(s, i)
    \/ \E p \in Products : TapRelated(p)
    \/ \E c \in Colors : TapColor(c)
    \/ \E r \in Requests :
         \/ TapHeart(r) \/ \E i \in Rows : RemoveWishList(r, i)
         \/ Send(r) \/ Serve(r) \/ Reply(r) \/ Fail(r)

Spec == Init /\ [][Next]_vars

-----------------------------------------------------------------------------
(* Properties. *)

\* Once every request is answered, none failed and none was overtaken, the heart
\* the buyer tapped tells whether that product and colour is on the list, and the
\* list is the server's: heart and list are set apart, by wishlistadd,
\* wishlistRemove and their answers.
TapTakesEffect ==
    orderly /\ Quiet /\ OnTop /\ page.tapped # <<>> =>
        /\ page.isheart <=> page.tapped \in ToSet(list)
        /\ ToSet(list) = server

\* The colour a request would name is the one highlighted, until another product
\* takes the page over; tiles stay selected from page to page.
ColorShown == OnTop /\ ~page.related => page.colorid = selected[page.product]

\* A bin removes the entry of its row, unless the list changed without the page.
BinRemovesShown ==
    [][\A r \in Requests, i \in Rows :
          RemoveWishList(r, i) /\ ~astray => requests'[r].item = shown[i]]_vars
=============================================================================
