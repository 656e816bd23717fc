---------------------------- MODULE WishlistProofs ----------------------------
(***************************************************************************)
(* Theorems about Wishlist, for any products, colours, pages and requests: *)
(* it is well typed, the heart's taps take effect, the highlighted colour  *)
(* is the one a request names, and bins remove the entry of their row.     *)
(***************************************************************************)
EXTENDS Wishlist, FiniteSetTheorems, SequenceTheorems, TLAPS

-----------------------------------------------------------------------------
(* Lists and the order of requests. *)

LEMMA ItemsFinite == IsFiniteSet(Items)
BY WishlistAssumption, FS_Product DEF Items

\* A list of a set has its elements, and nothing else.
LEMMA ListsSet ==
    ASSUME NEW S \in SUBSET Items, NEW a \in Lists(S)
    PROVE  a \in AllLists /\ ToSet(a) = S
<1>1. a \in AllLists
  BY DEF AllLists
<1>2. IsFiniteSet(S) /\ Cardinality(S) \in Nat
  BY ItemsFinite, FS_Subset, FS_CardinalityType
<1> DEFINE D == 1..Cardinality(S)
<1>3. a \in [D -> S] /\ \A i, j \in D : i # j => a[i] # a[j]
  BY DEF Lists, SetToSeqs
<1>4. Cardinality(D) = Cardinality(S) /\ IsFiniteSet(D)
  BY <1>2, FS_Interval
<1>5. a \in Injection(D, S)
  BY <1>3 DEF Injection, IsInjective
<1>6. a \in Surjection(D, S)
  BY <1>2, <1>4, <1>5, FS_Injection
<1>7. \A x \in S : \E i \in D : a[i] = x
  BY <1>6 DEF Surjection
<1>8. ToSet(a) = {a[i] : i \in D}
  BY <1>3 DEF ToSet
<1> HIDE DEF D
<1>9. QED
  BY <1>1, <1>3, <1>7, <1>8

\* The entries of a list are items.
LEMMA ListEntry ==
    ASSUME NEW a \in AllLists, NEW i \in 1..Len(a)
    PROVE  a[i] \in Items
<1>1. PICK S \in SUBSET Items : a \in Lists(S)
  BY DEF AllLists
<1>2. a \in [1..Cardinality(S) -> S] /\ Cardinality(S) \in Nat
  BY <1>1, ItemsFinite, FS_Subset, FS_CardinalityType DEF Lists, SetToSeqs
<1>3. Len(a) = Cardinality(S)
  BY <1>2
<1>4. QED
  BY <1>2, <1>3

LEMMA EmptyList == <<>> \in AllLists
<1>1. <<>> \in [1..0 -> {}]
  OBVIOUS
<1>2. Cardinality({}) = 0
  BY FS_EmptySet
<1>3. <<>> \in SetToSeqs({})
  BY <1>1, <1>2 DEF SetToSeqs
<1>4. QED
  BY <1>3 DEF AllLists, Lists

\* What taking entry k out of a sequence without repetitions leaves.
LEMMA RemoveAtFacts ==
    ASSUME NEW S, NEW s \in Seq(S), IsInjective(s), NEW k \in 1..Len(s)
    PROVE  /\ RemoveAt(s, k) \in Seq(S)
           /\ Len(RemoveAt(s, k)) = Len(s) - 1
           /\ \A i \in 1..(Len(s) - 1) :
                RemoveAt(s, k)[i] = IF i < k THEN s[i] ELSE s[i + 1]
           /\ IsInjective(RemoveAt(s, k))
           /\ ToSet(RemoveAt(s, k)) = ToSet(s) \ {s[k]}
<1> DEFINE t == RemoveAt(s, k)
<1> DEFINE u == SubSeq(s, 1, k - 1)
           v == SubSeq(s, k + 1, Len(s))
<1>a. /\ Len(s) \in Nat /\ k \in Int
      /\ \A i \in 1..Len(s) : s[i] \in S
  OBVIOUS
<1>b. u \in Seq(S) /\ Len(u) = k - 1 /\ \A i \in 1..(k - 1) : u[i] = s[i]
  <2>1. \A i \in 1..(k - 1) : s[i] \in S
    BY <1>a
  <2>2. /\ u \in Seq(S)
        /\ Len(u) = IF 1 <= k - 1 THEN (k - 1) - 1 + 1 ELSE 0
        /\ \A i \in 1..((k - 1) - 1 + 1) : u[i] = s[1 + i - 1]
    BY <2>1, <1>a, SubSeqProperties
  <2> HIDE DEF u
  <2>3. QED
    BY <2>2, <1>a
<1>c. v \in Seq(S) /\ Len(v) = Len(s) - k /\ \A i \in 1..(Len(s) - k) : v[i] = s[k + i]
  <2>1. \A i \in (k + 1)..Len(s) : s[i] \in S
    BY <1>a
  <2>2. /\ v \in Seq(S)
        /\ Len(v) = IF k + 1 <= Len(s) THEN Len(s) - (k + 1) + 1 ELSE 0
        /\ \A i \in 1..(Len(s) - (k + 1) + 1) : v[i] = s[(k + 1) + i - 1]
    BY <2>1, <1>a, SubSeqProperties
  <2> HIDE DEF v
  <2>3. QED
    BY <2>2, <1>a
<1>d. t = u \o v
  BY DEF RemoveAt, t
<1> HIDE DEF u, v, t
<1>e. /\ t \in Seq(S) /\ Len(t) = Len(u) + Len(v)
      /\ \A i \in 1..(Len(u) + Len(v)) : t[i] = IF i <= Len(u) THEN u[i] ELSE v[i - Len(u)]
  <2>1. u \in Seq(S) /\ v \in Seq(S)
    BY <1>b, <1>c
  <2>2. /\ u \o v \in Seq(S) /\ Len(u \o v) = Len(u) + Len(v)
        /\ \A i \in 1..(Len(u) + Len(v)) :
             (u \o v)[i] = IF i <= Len(u) THEN u[i] ELSE v[i - Len(u)]
    BY <2>1, ConcatProperties, Zenon
  <2>3. QED
    BY <2>2, <1>d, Zenon
<1>1. t \in Seq(S) /\ Len(t) = Len(s) - 1
  BY <1>a, <1>b, <1>c, <1>e
<1>2. \A i \in 1..Len(t) : t[i] = IF i < k THEN s[i] ELSE s[i + 1]
  <2> SUFFICES ASSUME NEW i \in 1..Len(t) PROVE t[i] = IF i < k THEN s[i] ELSE s[i + 1]
    OBVIOUS
  <2>1. CASE i < k
    BY <2>1, <1>a, <1>b, <1>c, <1>e
  <2>2. CASE ~(i < k)
    <3>1. t[i] = v[i - (k - 1)] /\ i - (k - 1) \in 1..(Len(s) - k)
      BY <2>2, <1>a, <1>b, <1>c, <1>e
    <3>2. v[i - (k - 1)] = s[k + (i - (k - 1))]
      BY <3>1, <1>c
    <3>3. k + (i - (k - 1)) = i + 1
      BY <1>a
    <3>4. QED
      BY <2>2, <3>1, <3>2, <3>3
  <2>3. QED
    BY <2>1, <2>2
<1>3. DOMAIN t = 1..Len(t) /\ DOMAIN s = 1..Len(s) /\ Len(s) \in Nat
  BY <1>1
<1>4. \A i, j \in 1..Len(s) : s[i] = s[j] => i = j
  BY <1>3 DEF IsInjective
<1>5. IsInjective(t)
  <2> SUFFICES ASSUME NEW i \in 1..Len(t), NEW j \in 1..Len(t), t[i] = t[j] PROVE i = j
    BY <1>3 DEF IsInjective
  <2>1. i \in 1..Len(s) /\ j \in 1..Len(s) /\ i + 1 \in 1..Len(s) /\ j + 1 \in 1..Len(s)
    BY <1>1, <1>3
  <2>2. QED
    BY <2>1, <1>2, <1>4
<1>6. ASSUME NEW i \in 1..Len(t) PROVE t[i] \in ToSet(s) \ {s[k]}
  <2>1. i \in 1..Len(s) /\ i + 1 \in 1..Len(s)
    BY <1>1, <1>3
  <2>2. QED
    BY <2>1, <1>2, <1>3, <1>4 DEF ToSet
<1>7. ASSUME NEW j \in 1..Len(s), j # k PROVE s[j] \in ToSet(t)
  <2>1. CASE j < k
    <3>1. j \in 1..Len(t) /\ t[j] = s[j]
      BY <2>1, <1>1, <1>2, <1>3
    <3>2. QED
      BY <3>1, <1>3 DEF ToSet
  <2>2. CASE j > k
    <3>1. j - 1 \in 1..Len(t)
      BY <2>2, <1>1, <1>3
    <3>2. t[j - 1] = s[j]
      BY <2>2, <3>1, <1>2, <1>3
    <3>3. QED
      BY <3>1, <3>2, <1>3 DEF ToSet
  <2>3. QED
    BY <2>1, <2>2, <1>3, <1>7
<1>8. ToSet(t) = ToSet(s) \ {s[k]}
  <2>1. ToSet(t) \subseteq ToSet(s) \ {s[k]}
    BY <1>6, <1>3 DEF ToSet
  <2>2. ToSet(s) \ {s[k]} \subseteq ToSet(t)
    BY <1>7, <1>3 DEF ToSet
  <2>3. QED
    BY <2>1, <2>2
<1>9. \A i \in 1..(Len(s) - 1) : t[i] = IF i < k THEN s[i] ELSE s[i + 1]
  BY <1>1, <1>2
<1>10. QED
  BY <1>1, <1>5, <1>8, <1>9 DEF t

-----------------------------------------------------------------------------
(* Types. *)

LEMMA RequestAt ==
    ASSUME requests \in [Requests -> Request \cup {Idle}], NEW r \in Requests, UnderWay(r)
    PROVE  requests[r] \in Request
BY DEF UnderWay, Idle

LEMMA IdleAt == Idle.at = "none" /\ \A q \in Request : q.at # "none"
BY DEF Idle, Request

\* A request begins: it is the last in order.
LEMMA BeginType ==
    ASSUME TypeOK, NEW r \in Requests, NEW kind \in {"add", "remove"},
           NEW by \in Pages \cup Tabs, NEW item \in Items, NEW at \in {"storage", "sent"},
           NEW own \in BOOLEAN, Begin(r, kind, by, item, at, own)
    PROVE  /\ requests' \in [Requests -> Request \cup {Idle}]
           /\ order' \in Seq(Requests) /\ IsInjective(order')
           /\ ToSet(order') = {q \in Requests : UnderWay(q)'}
           /\ Len(order') = Len(order) + 1 /\ order'[Len(order')] = r
           /\ requests'[r] = [kind |-> kind, by |-> by, item |-> item, at |-> at,
                              own |-> own, answer |-> <<>>]
<1> DEFINE new == [kind |-> kind, by |-> by, item |-> item, at |-> at,
                   own |-> own, answer |-> <<>>]
<1>1. new \in Request /\ new.at # "none"
  BY EmptyList DEF Request
<1>2. requests' = [requests EXCEPT ![r] = new] /\ order' = Append(order, r) /\ ~UnderWay(r)
  BY DEF Begin
<1> HIDE DEF new
<1>3. requests' \in [Requests -> Request \cup {Idle}] /\ requests'[r] = new
  BY <1>1, <1>2 DEF TypeOK
<1>4. \A q \in Requests : UnderWay(q)' <=> UnderWay(q) \/ q = r
  BY <1>1, <1>2 DEF TypeOK, UnderWay
<1>5. order \in Seq(Requests) /\ IsInjective(order) /\ r \notin ToSet(order)
      /\ ToSet(order) = {q \in Requests : UnderWay(q)}
  BY <1>2 DEF TypeOK
<1>6. /\ order' \in Seq(Requests) /\ Len(order') = Len(order) + 1
      /\ \A i \in 1..Len(order) : order'[i] = order[i]
      /\ order'[Len(order) + 1] = r
  BY <1>2, <1>5, AppendProperties
<1>7. IsInjective(order')
  BY <1>5, <1>6 DEF IsInjective, ToSet
<1>8. ToSet(order') = ToSet(order) \cup {r}
  BY <1>5, <1>6 DEF ToSet
<1>9. QED
  BY <1>3, <1>4, <1>5, <1>6, <1>7, <1>8 DEF new

\* A request ends.
LEMMA EndType ==
    ASSUME TypeOK, NEW r \in Requests, End(r)
    PROVE  /\ requests' \in [Requests -> Request \cup {Idle}]
           /\ requests' = [requests EXCEPT ![r] = Idle]
           /\ order' \in Seq(Requests) /\ IsInjective(order')
           /\ ToSet(order') = {q \in Requests : UnderWay(q)'}
           /\ \E k \in 1..Len(order) : /\ order[k] = r
                /\ Len(order') = Len(order) - 1
                /\ \A i \in 1..Len(order') : order'[i] = IF i < k THEN order[i] ELSE order[i + 1]
<1>1. requests' = [requests EXCEPT ![r] = Idle] /\ requests' \in [Requests -> Request \cup {Idle}]
  BY DEF End, TypeOK
<1>2. \A q \in Requests : UnderWay(q)' <=> UnderWay(q) /\ q # r
  BY <1>1, IdleAt DEF UnderWay, TypeOK
<1>3. PICK k \in 1..Len(order) : order[k] = r /\ order' = RemoveAt(order, k)
  BY DEF End
<1>4. order \in Seq(Requests) /\ IsInjective(order)
      /\ ToSet(order) = {q \in Requests : UnderWay(q)}
  BY DEF TypeOK
<1>5. /\ order' \in Seq(Requests) /\ IsInjective(order')
      /\ Len(order') = Len(order) - 1
      /\ \A i \in 1..Len(order') : order'[i] = IF i < k THEN order[i] ELSE order[i + 1]
      /\ ToSet(order') = ToSet(order) \ {r}
  <2>1. order \in Seq(Requests) /\ IsInjective(order) /\ k \in 1..Len(order)
    BY <1>3, <1>4
  <2>2. /\ RemoveAt(order, k) \in Seq(Requests)
        /\ Len(RemoveAt(order, k)) = Len(order) - 1
        /\ \A i \in 1..(Len(order) - 1) :
             RemoveAt(order, k)[i] = IF i < k THEN order[i] ELSE order[i + 1]
        /\ IsInjective(RemoveAt(order, k))
        /\ ToSet(RemoveAt(order, k)) = ToSet(order) \ {order[k]}
    BY <2>1, RemoveAtFacts
  <2>3. order' = RemoveAt(order, k) /\ order[k] = r
    BY <1>3
  <2>4. QED
    BY <2>2, <2>3
<1>6. ToSet(order') = {q \in Requests : UnderWay(q)'}
  BY <1>2, <1>4, <1>5
<1>7. QED
  BY <1>1, <1>3, <1>5, <1>6

\* Request r goes on, and is still under way.
LEMMA GoType ==
    ASSUME TypeOK, NEW r \in Requests, UnderWay(r), NEW q \in Request,
           requests' = [requests EXCEPT ![r] = q], order' = order
    PROVE  /\ requests' \in [Requests -> Request \cup {Idle}]
           /\ ToSet(order') = {s \in Requests : UnderWay(s)'}
<1>1. requests' \in [Requests -> Request \cup {Idle}] /\ q.at # "none"
  BY IdleAt DEF TypeOK
<1>2. \A s \in Requests : UnderWay(s)' <=> UnderWay(s)
  BY <1>1 DEF UnderWay, TypeOK
<1>3. QED
  BY <1>1, <1>2 DEF TypeOK

LEMMA PageType ==
    ASSUME TypeOK, OnTop
    PROVE  page \in Page
BY DEF TypeOK, OnTop, Closed

LEMMA TypeInit == Init => TypeOK
<1> SUFFICES ASSUME Init PROVE TypeOK
  OBVIOUS
<1>1. server \in SUBSET Items
  BY DEF Init
<1>2. list \in AllLists /\ shown \in AllLists
  BY <1>1, ListsSet, EmptyList DEF Init
<1>3. /\ order \in Seq(Requests) /\ IsInjective(order) /\ ToSet(order) = {}
  BY DEF Init, IsInjective, ToSet
<1>4. requests \in [Requests -> Request \cup {Idle}] /\ \A r \in Requests : ~UnderWay(r)
  BY IdleAt DEF Init, UnderWay
<1>5. QED
  BY <1>1, <1>2, <1>3, <1>4 DEF Init, TypeOK

\* Steps of the pages.
PageStep ==
    \/ \E w \in Tabs : OpenTab(w)
    \/ LeaveTab \/ ReadId \/ ClosePage \/ TapHeartLoggedOut
    \/ \E s \in Pages, p \in Products : OpenProduct(s, p)
    \/ \E s \in Pages, i \in Rows : OpenRow(s, i)
    \/ \E p \in Products : TapRelated(p)
    \/ \E c \in Colors : TapColor(c)

RequestStep ==
    \E r \in Requests :
      \/ TapHeart(r) \/ \E i \in Rows : RemoveWishList(r, i)
      \/ Send(r) \/ Serve(r) \/ Reply(r) \/ Fail(r)

LEMMA NextSteps == Next => PageStep \/ RequestStep
BY DEF Next, PageStep, RequestStep

\* A page step keeps list, server and requests.
LEMMA PageKeeps ==
    ASSUME PageStep
    PROVE  UNCHANGED <<login, server, list, requests, order>>
BY DEF PageStep, OpenTab, LeaveTab, ReadId, ClosePage, TapHeartLoggedOut, OpenProduct,
       OpenRow, NewPage, TapRelated, TapColor, histVars

\* What a page opens with.
LEMMA NewPageType ==
    ASSUME TypeOK, NEW s \in Pages, NEW p,
           NewPage(s, p), p \in Products
    PROVE  page' \in Page /\ page'.product = p /\ page'.colorid = selected[p]
           /\ page'.tapped = <<>> /\ ~page'.related
BY DEF TypeOK, NewPage, Page, LastIs

\* The product of a row.
LEMMA RowProduct ==
    ASSUME TypeOK, NEW i \in 1..Len(list)
    PROVE  list[i] \in Items /\ list[i][1] \in Products
BY ListEntry DEF TypeOK, Items

LEMMA PageStepPage ==
    ASSUME TypeOK, PageStep
    PROVE  /\ page' \in Page \cup {Closed}
           /\ selected' \in [Products -> Colors]
           /\ ColorShown => ColorShown'
           /\ page' = page \/ page' = Closed \/ page'.tapped = <<>>
              \/ (OnTop /\ page'.tapped = page.tapped /\ page'.isheart = page.isheart)
<1>1. ASSUME UNCHANGED <<page, selected>>
      PROVE  /\ page' \in Page \cup {Closed} /\ selected' \in [Products -> Colors]
             /\ ColorShown => ColorShown' /\ page' = page
  BY <1>1 DEF TypeOK, ColorShown, OnTop
<1>2. ASSUME page' = Closed, UNCHANGED selected
      PROVE  /\ page' \in Page \cup {Closed} /\ selected' \in [Products -> Colors]
             /\ ColorShown'
  BY <1>2 DEF TypeOK, ColorShown, OnTop, Closed
<1>3. ASSUME NEW s \in Pages, NEW p \in Products, NewPage(s, p)
      PROVE  /\ page' \in Page /\ selected' \in [Products -> Colors]
             /\ ColorShown' /\ page'.tapped = <<>>
  <2>1. page' \in Page /\ page'.product = p /\ page'.colorid = selected[p]
        /\ page'.tapped = <<>>
    BY <1>3, NewPageType
  <2>2. selected' = selected /\ selected \in [Products -> Colors]
    BY <1>3 DEF NewPage, TypeOK
  <2>3. QED
    BY <2>1, <2>2 DEF ColorShown
<1>4. CASE \E w \in Tabs : OpenTab(w)
  BY <1>1, <1>4 DEF OpenTab
<1>5. CASE LeaveTab
  BY <1>1, <1>5 DEF LeaveTab
<1>6. CASE ReadId
  <2>1. /\ OnTop /\ selected' = selected
        /\ page' = [page EXCEPT !.uuid = IF login THEN "id" ELSE "null"]
    BY <1>6 DEF ReadId
  <2>2. page \in Page
    BY <2>1, PageType
  <2>3. /\ page' \in Page /\ page'.id = page.id /\ page'.product = page.product
        /\ page'.colorid = page.colorid /\ page'.related = page.related
        /\ page'.tapped = page.tapped /\ page'.isheart = page.isheart
    BY <2>1, <2>2 DEF Page
  <2>4. QED
    BY <2>1, <2>3 DEF TypeOK, ColorShown, OnTop
<1>7. CASE ClosePage
  BY <1>2, <1>7 DEF ClosePage
<1>8. CASE TapHeartLoggedOut
  BY <1>2, <1>8 DEF TapHeartLoggedOut
<1>9. ASSUME NEW s \in Pages, NEW p \in Products, OpenProduct(s, p)
      PROVE  /\ page' \in Page /\ selected' \in [Products -> Colors]
             /\ ColorShown' /\ page'.tapped = <<>>
  BY <1>3, <1>9 DEF OpenProduct
<1>10. ASSUME NEW s \in Pages, NEW i \in Rows, OpenRow(s, i)
       PROVE  /\ page' \in Page /\ selected' \in [Products -> Colors]
              /\ ColorShown' /\ page'.tapped = <<>>
  <2>1. i \in 1..Len(list) /\ NewPage(s, list[i][1])
    BY <1>10 DEF OpenRow
  <2>2. list[i][1] \in Products
    BY <2>1, RowProduct
  <2>3. QED
    BY <1>3, <2>1, <2>2
<1>11. ASSUME NEW p \in Products, TapRelated(p)
       PROVE  /\ page' \in Page /\ selected' \in [Products -> Colors]
              /\ ColorShown' /\ page'.tapped = <<>>
  <2>1. /\ OnTop /\ selected' = selected
        /\ page' = [page EXCEPT !.product = p, !.related = TRUE, !.tapped = <<>>]
    BY <1>11 DEF TapRelated
  <2>2. page \in Page
    BY <2>1, PageType
  <2>3. page' \in Page /\ page'.related /\ page'.tapped = <<>>
    BY <2>1, <2>2 DEF Page
  <2>4. QED
    BY <2>1, <2>3 DEF TypeOK, ColorShown
<1>12. ASSUME NEW c \in Colors, TapColor(c)
       PROVE  /\ page' \in Page /\ selected' \in [Products -> Colors]
              /\ ColorShown' /\ OnTop /\ page'.tapped = page.tapped
              /\ page'.isheart = page.isheart
  <2>1. /\ OnTop /\ selected' = [selected EXCEPT ![page.product] = c]
        /\ page' = [page EXCEPT !.colorid = c, !.related = FALSE]
    BY <1>12 DEF TapColor
  <2>2. page \in Page
    BY <2>1, PageType
  <2>3. /\ page' \in Page /\ page'.colorid = c /\ page'.product = page.product
        /\ page'.tapped = page.tapped /\ page'.isheart = page.isheart
    BY <2>1, <2>2 DEF Page
  <2>4. page.product \in Products
    BY <2>2 DEF Page
  <2>5. QED
    BY <2>1, <2>3, <2>4 DEF TypeOK, ColorShown
<1>13. QED
  BY <1>4, <1>5, <1>6, <1>7, <1>8, <1>9, <1>10, <1>11, <1>12 DEF PageStep

LEMMA TypePage ==
    ASSUME TypeOK, PageStep
    PROVE  TypeOK'
<1>1. server' = server /\ list' = list /\ login' = login
  BY PageKeeps
<1>2. requests' = requests /\ order' = order
  BY PageKeeps
<1>3. page' \in Page \cup {Closed} /\ selected' \in [Products -> Colors]
  BY PageStepPage
<1>4. tab' \in Tabs \cup {NoTab} /\ shown' \in AllLists
      /\ astray' \in BOOLEAN /\ orderly' \in BOOLEAN
  BY EmptyList DEF TypeOK, PageStep, OpenTab, LeaveTab, ReadId, ClosePage, TapHeartLoggedOut,
     OpenProduct, OpenRow, NewPage, TapRelated, TapColor, histVars
<1>5. {r \in Requests : UnderWay(r)'} = {r \in Requests : UnderWay(r)}
  BY <1>2 DEF UnderWay
<1>6. QED
  BY <1>1, <1>2, <1>3, <1>4, <1>5 DEF TypeOK

\* The heart's tap on a page: it turns over and remembers its item.
LEMMA TapHeartPage ==
    ASSUME TypeOK, NEW r \in Requests, TapHeart(r)
    PROVE  /\ page \in Page /\ page' \in Page /\ page'.id = page.id
           /\ page'.colorid = page.colorid /\ page'.product = page.product
           /\ page'.related = page.related
           /\ <<page.product, page.colorid>> \in Items
           /\ page'.tapped = <<page.product, page.colorid>>
           /\ Begin(r, IF page'.isheart THEN "add" ELSE "remove", page.id,
                    <<page.product, page.colorid>>, "sent", page.uuid = "id")
<1>1. page \in Page
  BY PageType DEF TapHeart
<1>2. <<page.product, page.colorid>> \in Items
  BY <1>1 DEF Page, Items
<1>3. page' = [page EXCEPT !.isheart = ~@, !.tapped = <<page.product, page.colorid>>]
  BY DEF TapHeart
<1>4. QED
  BY <1>1, <1>2, <1>3 DEF Page, TapHeart

LEMMA TypeRequest ==
    ASSUME TypeOK, RequestStep
    PROVE  TypeOK'
<1> PICK r \in Requests :
      \/ TapHeart(r) \/ \E i \in Rows : RemoveWishList(r, i)
      \/ Send(r) \/ Serve(r) \/ Reply(r) \/ Fail(r)
  BY DEF RequestStep
<1>1. CASE TapHeart(r)
  <2>1. page \in Page /\ page' \in Page /\ <<page.product, page.colorid>> \in Items
        /\ Begin(r, IF page'.isheart THEN "add" ELSE "remove", page.id,
                 <<page.product, page.colorid>>, "sent", page.uuid = "id")
    BY <1>1, TapHeartPage
  <2>2. page.id \in Pages \cup Tabs /\ (page.uuid = "id") \in BOOLEAN
        /\ (IF page'.isheart THEN "add" ELSE "remove") \in {"add", "remove"}
    BY <2>1 DEF Page
  <2>3. /\ requests' \in [Requests -> Request \cup {Idle}]
        /\ order' \in Seq(Requests) /\ IsInjective(order')
        /\ ToSet(order') = {q \in Requests : UnderWay(q)'}
    BY <2>1, <2>2, BeginType
  <2>4. QED
    BY <1>1, <2>1, <2>3 DEF TypeOK, TapHeart
<1>2. ASSUME NEW i \in Rows, RemoveWishList(r, i) PROVE TypeOK'
  <2>1. list[i] \in Items /\ tab \in Tabs
    BY <1>2, RowProduct DEF RemoveWishList, TypeOK
  <2>2. Begin(r, "remove", tab, list[i], "storage", TRUE)
    BY <1>2 DEF RemoveWishList
  <2>3. /\ requests' \in [Requests -> Request \cup {Idle}]
        /\ order' \in Seq(Requests) /\ IsInjective(order')
        /\ ToSet(order') = {q \in Requests : UnderWay(q)'}
    BY <2>1, <2>2, BeginType
  <2>4. QED
    BY <1>2, <2>3 DEF TypeOK, RemoveWishList
<1>3. CASE Send(r)
  <2>1. requests[r] \in Request /\ UnderWay(r)
    BY <1>3, RequestAt DEF Send, TypeOK
  <2>2. [requests[r] EXCEPT !.at = "sent"] \in Request
    BY <2>1 DEF Request
  <2>3. requests' = [requests EXCEPT ![r] = [requests[r] EXCEPT !.at = "sent"]]
        /\ order' = order
    BY <1>3 DEF Send, histVars
  <2>4. /\ requests' \in [Requests -> Request \cup {Idle}]
        /\ ToSet(order') = {s \in Requests : UnderWay(s)'}
    BY <2>1, <2>2, <2>3, GoType
  <2>5. QED
    BY <1>3, <2>4 DEF TypeOK, Send, histVars
<1>4. CASE Serve(r)
  <2>1. requests[r] \in Request /\ UnderWay(r)
    BY <1>4, RequestAt DEF Serve, TypeOK
  <2>2. server' \in SUBSET Items
    BY <1>4, <2>1 DEF Serve, TypeOK, Request
  <2>3. PICK a \in Lists(IF requests[r].own THEN server' ELSE {}) :
          requests' = [requests EXCEPT ![r].at = "answered", ![r].answer = a]
    BY <1>4 DEF Serve
  <2>4. a \in AllLists
    <3>1. (IF requests[r].own THEN server' ELSE {}) \in SUBSET Items
      BY <2>2
    <3>2. QED
      BY <3>1, <2>3, ListsSet
  <2>5. [requests[r] EXCEPT !.at = "answered", !.answer = a] \in Request
    BY <2>1, <2>4 DEF Request
  <2>6. requests' = [requests EXCEPT ![r] = [requests[r] EXCEPT !.at = "answered", !.answer = a]]
        /\ order' = order
    BY <2>3, <1>4 DEF Serve, TypeOK
  <2>7. /\ requests' \in [Requests -> Request \cup {Idle}]
        /\ ToSet(order') = {s \in Requests : UnderWay(s)'}
    BY <2>1, <2>5, <2>6, GoType
  <2>8. QED
    BY <1>4, <2>2, <2>7 DEF TypeOK, Serve
<1>5. CASE Reply(r)
  <2>1. requests[r].answer \in AllLists
    BY <1>5, RequestAt DEF Reply, TypeOK, Request
  <2>2. End(r)
    BY <1>5 DEF Reply
  <2>3. /\ requests' \in [Requests -> Request \cup {Idle}]
        /\ order' \in Seq(Requests) /\ IsInjective(order')
        /\ ToSet(order') = {q \in Requests : UnderWay(q)'}
    BY <2>2, EndType
  <2>4. QED
    BY <1>5, <2>1, <2>3 DEF TypeOK, Reply
<1>6. CASE Fail(r)
  <2>1. /\ requests' \in [Requests -> Request \cup {Idle}]
        /\ order' \in Seq(Requests) /\ IsInjective(order')
        /\ ToSet(order') = {q \in Requests : UnderWay(q)'}
    BY <1>6, EndType DEF Fail
  <2>2. QED
    BY <1>6, <2>1 DEF TypeOK, Fail
<1>7. QED
  BY <1>1, <1>2, <1>3, <1>4, <1>5, <1>6

LEMMA TypeNext == TypeOK /\ [Next]_vars => TypeOK'
<1> SUFFICES ASSUME TypeOK, [Next]_vars PROVE TypeOK'
  OBVIOUS
<1>1. CASE UNCHANGED vars
  BY <1>1 DEF vars, histVars, TypeOK, UnderWay
<1>2. CASE PageStep
  BY <1>2, TypePage
<1>3. CASE RequestStep
  BY <1>3, TypeRequest
<1>4. QED
  BY <1>1, <1>2, <1>3, NextSteps

\* Every reachable state is well typed: the list is always one the server could
\* have answered with, and the order names the requests under way, each once.
THEOREM TypeCorrect == Spec => []TypeOK
BY TypeInit, TypeNext, PTL DEF Spec

\* The colour a request names is the one whose tile is highlighted, on any page
\* until a related product takes it over.
THEOREM ColorCorrect == Spec => []ColorShown
<1>1. Init => ColorShown
  BY DEF Init, ColorShown, OnTop, Closed
<1>2. TypeOK /\ ColorShown /\ [Next]_vars => ColorShown'
  <2> SUFFICES ASSUME TypeOK, ColorShown, [Next]_vars PROVE ColorShown'
    OBVIOUS
  <2>1. CASE UNCHANGED vars
    BY <2>1 DEF vars, ColorShown, OnTop
  <2>2. CASE PageStep
    BY <2>2, PageStepPage
  <2>3. ASSUME NEW r \in Requests, TapHeart(r) PROVE ColorShown'
    <3>1. selected' = selected
      BY <2>3 DEF TapHeart
    <3>2. OnTop /\ page'.id = page.id /\ page'.colorid = page.colorid
          /\ page'.product = page.product /\ page'.related = page.related
      BY <2>3, TapHeartPage DEF TapHeart
    <3>3. QED
      BY <3>1, <3>2 DEF ColorShown, OnTop
  <2>4. CASE RequestStep
    BY <2>3, <2>4 DEF RequestStep, RemoveWishList, Send, Serve, Reply, Fail, ColorShown, OnTop
  <2>5. QED
    BY <2>1, <2>2, <2>4, NextSteps
<1>3. QED
  BY <1>1, <1>2, TypeCorrect, PTL DEF Spec

\* A bin's request names the entry its row shows, unless the list changed behind
\* the wishlist page.
RowsShown == tab # NoTab /\ ~astray => shown = list

LEMMA RowsInit == Init => RowsShown
BY DEF Init, RowsShown

LEMMA RowsNext == RowsShown /\ [Next]_vars => RowsShown'
<1> SUFFICES ASSUME RowsShown, [Next]_vars PROVE RowsShown'
  OBVIOUS
<1>1. CASE UNCHANGED vars
  BY <1>1 DEF vars, histVars, RowsShown
<1>2. CASE PageStep
  <2>1. list' = list
    BY <1>2, PageKeeps
  <2>2. \/ tab' = NoTab
        \/ UNCHANGED <<tab, shown, astray>>
        \/ shown' = list
    BY <1>2 DEF PageStep, OpenTab, LeaveTab, ReadId, ClosePage, TapHeartLoggedOut,
       OpenProduct, OpenRow, NewPage, TapRelated, TapColor, histVars
  <2>3. QED
    BY <2>1, <2>2 DEF RowsShown
<1>3. CASE RequestStep
  <2>1. \/ UNCHANGED <<tab, shown, list, astray>>
        \/ tab' = tab /\ (astray' \/ shown' = list')
    <3>1. ASSUME NEW r \in Requests, Reply(r)
          PROVE  tab' = tab /\ (astray' \/ shown' = list')
      BY <3>1 DEF Reply
    <3>2. QED
      BY <1>3, <3>1 DEF RequestStep, TapHeart, RemoveWishList, Send, Serve, Fail, histVars
  <2>2. QED
    BY <2>1 DEF RowsShown
<1>4. QED
  BY <1>1, <1>2, <1>3, NextSteps

\* A bin removes the entry its row shows, whatever answers come between, as long
\* as no other page's answer replaced the list since the rows were built.
THEOREM BinCorrect == Spec => BinRemovesShown
<1>1. TypeOK /\ RowsShown /\ [Next]_vars =>
        [\A r \in Requests, i \in Rows :
            RemoveWishList(r, i) /\ ~astray => requests'[r].item = shown[i]]_vars
  <2> SUFFICES ASSUME TypeOK, RowsShown, NEW r \in Requests, NEW i \in Rows,
                      RemoveWishList(r, i), ~astray
               PROVE  requests'[r].item = shown[i]
    OBVIOUS
  <2>1. shown = list /\ Begin(r, "remove", tab, list[i], "storage", TRUE)
    BY DEF RemoveWishList, RowsShown
  <2>2. requests'[r].item = list[i]
    BY <2>1 DEF Begin, TypeOK
  <2>3. QED
    BY <2>1, <2>2
<1>2. QED
  BY <1>1, RowsInit, RowsNext, TypeCorrect, PTL DEF Spec, BinRemovesShown

-----------------------------------------------------------------------------
(* Taps on the heart. *)

Newest == requests[order[Len(order)]]

Settled ==
    /\ ToSet(list) = server
    /\ page.isheart <=> page.tapped \in server

\* The newest request is the last tap's and agrees with the heart; when it is
\* answered all are, and the answer is what the server has.
Agrees ==
    /\ Newest.own /\ Newest.item = page.tapped
    /\ Newest.kind = IF page.isheart THEN "add" ELSE "remove"
    /\ Newest.at = "answered" =>
         /\ \A r \in Requests : UnderWay(r) => requests[r].at = "answered"
         /\ ToSet(Newest.answer) = server
         /\ page.isheart <=> page.tapped \in server

Linked ==
    orderly /\ OnTop /\ page.tapped # <<>> =>
        /\ order = <<>> => Settled
        /\ order # <<>> => Agrees

LEMMA LinkedInit == Init => Linked
BY DEF Init, Linked, OnTop, Closed

LEMMA NewestUnderWay ==
    ASSUME TypeOK, order # <<>>
    PROVE  /\ Len(order) \in Nat \ {0}
           /\ order[Len(order)] \in Requests
           /\ UnderWay(order[Len(order)])
           /\ Newest \in Request
<1>1. order \in Seq(Requests) /\ ToSet(order) = {r \in Requests : UnderWay(r)}
  BY DEF TypeOK
<1>2. Len(order) \in Nat \ {0} /\ Len(order) \in DOMAIN order
  BY <1>1
<1>3. order[Len(order)] \in ToSet(order)
  BY <1>2 DEF ToSet
<1>4. order[Len(order)] \in Requests /\ UnderWay(order[Len(order)])
  BY <1>1, <1>3
<1>5. QED
  BY <1>2, <1>4, RequestAt DEF Newest, TypeOK

\* A request under way means that the order is not empty.
LEMMA OrderNotEmpty ==
    ASSUME TypeOK, NEW r \in Requests, UnderWay(r)
    PROVE  order # <<>> /\ \E i \in 1..Len(order) : order[i] = r
<1>1. order \in Seq(Requests) /\ r \in ToSet(order)
  BY DEF TypeOK
<1>2. PICK i \in DOMAIN order : order[i] = r
  BY <1>1 DEF ToSet
<1>3. QED
  BY <1>1, <1>2

\* Everything but the newest request was tapped before it.
LEMMA BeforeNewest ==
    ASSUME TypeOK, order # <<>>, NEW r \in Requests, UnderWay(r), r # order[Len(order)]
    PROVE  r \in Before(order[Len(order)])
<1>1. PICK i \in 1..Len(order) : order[i] = r
  BY OrderNotEmpty
<1>2. Len(order) \in (i + 1)..Len(order)
  BY <1>1, NewestUnderWay
<1>3. QED
  BY <1>1, <1>2 DEF Before

LEMMA LinkedPage ==
    ASSUME TypeOK, Linked, PageStep
    PROVE  Linked'
<1>1. /\ server' = server /\ list' = list
      /\ requests' = requests /\ order' = order
  BY PageKeeps
<1>2. page' = page \/ page' = Closed \/ page'.tapped = <<>>
      \/ (OnTop /\ page'.tapped = page.tapped /\ page'.isheart = page.isheart)
  BY PageStepPage
<1>3. orderly' = orderly \/ page'.tapped = <<>>
  <2>1. ASSUME NEW s \in Pages, NEW p, NewPage(s, p) PROVE page'.tapped = <<>>
    BY <2>1 DEF NewPage
  <2>2. CASE \E s \in Pages, p \in Products : OpenProduct(s, p)
    BY <2>1, <2>2 DEF OpenProduct
  <2>3. CASE \E s \in Pages, i \in Rows : OpenRow(s, i)
    BY <2>1, <2>3 DEF OpenRow
  <2>4. QED
    BY <2>2, <2>3 DEF PageStep, OpenTab, LeaveTab, ReadId, ClosePage, TapHeartLoggedOut,
       TapRelated, TapColor, histVars
<1>4. CASE page' = Closed
  BY <1>4 DEF Linked, OnTop, Closed
<1>5. CASE page'.tapped = <<>>
  BY <1>5 DEF Linked
<1>6. CASE /\ page'.tapped = page.tapped /\ page'.isheart = page.isheart
           /\ orderly' = orderly /\ (page' = page \/ OnTop)
  <2> SUFFICES ASSUME orderly', OnTop', page'.tapped # <<>>
               PROVE  (order' = <<>> => Settled') /\ (order' # <<>> => Agrees')
    BY DEF Linked
  <2>1. (order = <<>> => Settled) /\ (order # <<>> => Agrees)
    BY <1>6 DEF Linked, OnTop
  <2>2. Settled => Settled'
    BY <1>1, <1>6 DEF Settled
  <2>3. Agrees => Agrees'
    BY <1>1, <1>6 DEF Agrees, Newest, UnderWay
  <2>4. QED
    BY <1>1, <2>1, <2>2, <2>3
<1>7. QED
  BY <1>2, <1>3, <1>4, <1>5, <1>6

LEMMA LinkedTap ==
    ASSUME TypeOK, Linked, NEW r \in Requests, TapHeart(r)
    PROVE  Linked'
<1> DEFINE item == <<page.product, page.colorid>>
           kind == IF page'.isheart THEN "add" ELSE "remove"
           own == page.uuid = "id"
<1>1. /\ page' \in Page /\ page \in Page /\ item \in Items /\ page'.tapped = item
      /\ Begin(r, kind, page.id, item, "sent", own)
  BY TapHeartPage
<1>2. page.id \in Pages \cup Tabs /\ own \in BOOLEAN /\ kind \in {"add", "remove"}
  BY <1>1 DEF Page
<1>3. kind = IF page'.isheart THEN "add" ELSE "remove"
  OBVIOUS
<1>4. orderly' => own
  BY DEF TapHeart
<1> HIDE DEF item, kind, own
<1>5. /\ Len(order') = Len(order) + 1 /\ order'[Len(order')] = r
      /\ requests'[r] = [kind |-> kind, by |-> page.id, item |-> item, at |-> "sent",
                         own |-> own, answer |-> <<>>]
  BY <1>1, <1>2, BeginType
<1>6. order' # <<>>
  BY <1>5 DEF TypeOK
<1>7. /\ Newest'.own = own /\ Newest'.item = item
      /\ Newest'.kind = kind /\ Newest'.at = "sent"
  BY <1>5 DEF Newest
<1>8. orderly' => Agrees'
  BY <1>1, <1>3, <1>4, <1>7 DEF Agrees
<1>9. QED
  BY <1>6, <1>8 DEF Linked

LEMMA LinkedSend ==
    ASSUME TypeOK, Linked, NEW r \in Requests, Send(r)
    PROVE  Linked'
<1> SUFFICES ASSUME orderly', OnTop', page'.tapped # <<>>
             PROVE  (order' = <<>> => Settled') /\ (order' # <<>> => Agrees')
  BY DEF Linked
<1>1. /\ UnderWay(r) /\ requests[r].at = "storage"
      /\ requests' = [requests EXCEPT ![r].at = "sent"]
      /\ UNCHANGED <<server, list, page, order, orderly>>
  BY DEF Send, histVars
<1>2. order # <<>>
  BY <1>1, OrderNotEmpty
<1>3. Agrees /\ page.tapped # <<>>
  BY <1>1, <1>2 DEF Linked, OnTop
<1>4. Newest.at # "answered"
  BY <1>1, <1>3 DEF Agrees
<1>5. order[Len(order)] \in Requests /\ Newest \in Request
  BY <1>2, NewestUnderWay
<1>6. Newest' = Newest \/ Newest' = [Newest EXCEPT !.at = "sent"]
  BY <1>1, <1>5 DEF Newest, TypeOK
<1>7. /\ Newest'.own = Newest.own /\ Newest'.item = Newest.item
      /\ Newest'.kind = Newest.kind /\ Newest'.at # "answered"
  BY <1>4, <1>5, <1>6 DEF Request
<1>8. Agrees'
  BY <1>1, <1>3, <1>7 DEF Agrees
<1>9. QED
  BY <1>1, <1>2, <1>8

LEMMA LinkedServe ==
    ASSUME TypeOK, Linked, NEW r \in Requests, Serve(r)
    PROVE  Linked'
<1> SUFFICES ASSUME orderly', OnTop', page'.tapped # <<>>
             PROVE  (order' = <<>> => Settled') /\ (order' # <<>> => Agrees')
  BY DEF Linked
<1>1. /\ UnderWay(r) /\ requests[r].at = "sent"
      /\ UNCHANGED <<list, page, order>>
      /\ orderly /\ \A b \in Before(r) : requests[b].at = "answered"
      /\ server' = IF ~requests[r].own THEN server
                   ELSE IF requests[r].kind = "add" THEN server \cup {requests[r].item}
                   ELSE server \ {requests[r].item}
  BY DEF Serve
<1>2. PICK a \in Lists(IF requests[r].own THEN server' ELSE {}) :
        requests' = [requests EXCEPT ![r].at = "answered", ![r].answer = a]
  BY DEF Serve
<1>3. order # <<>>
  BY <1>1, OrderNotEmpty
<1>4. Agrees /\ page.tapped # <<>>
  BY <1>1, <1>3 DEF Linked, OnTop
<1>5. Newest.at # "answered"
  BY <1>1, <1>4 DEF Agrees
<1>6. order[Len(order)] \in Requests /\ Newest \in Request /\ requests[r] \in Request
  BY <1>1, <1>3, NewestUnderWay, RequestAt DEF TypeOK
<1>7. CASE r # order[Len(order)]
  <2>1. Newest' = Newest
    BY <1>1, <1>2, <1>6, <1>7 DEF Newest, TypeOK
  <2>2. Agrees'
    BY <1>1, <1>4, <1>5, <2>1 DEF Agrees
  <2>3. QED
    BY <1>1, <1>3, <2>2
<1>8. CASE r = order[Len(order)]
  <2>1. Newest = requests[r] /\ Newest' = requests'[r]
    BY <1>1, <1>8 DEF Newest
  <2>2. requests'[r] = [requests[r] EXCEPT !.at = "answered", !.answer = a]
    BY <1>2, <1>6 DEF TypeOK
  <2>3. /\ Newest'.own = Newest.own /\ Newest'.item = Newest.item
        /\ Newest'.kind = Newest.kind /\ Newest'.answer = a
    BY <1>6, <2>1, <2>2 DEF Request
  <2>4. requests[r].own /\ requests[r].item = page.tapped
        /\ requests[r].kind = IF page.isheart THEN "add" ELSE "remove"
    BY <1>4, <2>1 DEF Agrees
  <2>5. page.isheart <=> page.tapped \in server'
    BY <1>1, <2>4
  <2>6. ToSet(a) = server'
    <3>1. server' \in SUBSET Items
      BY <1>1, <1>6 DEF TypeOK, Request
    <3>2. a \in Lists(server')
      BY <1>2, <2>4
    <3>3. QED
      BY <3>1, <3>2, ListsSet
  <2>7. ASSUME NEW b \in Requests, UnderWay(b)' PROVE requests'[b].at = "answered"
    <3>1. CASE b = r
      BY <1>6, <2>2, <3>1 DEF Request
    <3>2. CASE b # r
      <4>1. UnderWay(b) /\ requests'[b] = requests[b]
        BY <1>2, <2>7, <3>2 DEF TypeOK, UnderWay
      <4>2. b \in Before(r)
        BY <1>3, <1>8, <3>2, <4>1, BeforeNewest
      <4>3. QED
        BY <1>1, <4>1, <4>2
    <3>3. QED
      BY <3>1, <3>2
  <2>8. Agrees'
    BY <1>1, <1>4, <2>3, <2>5, <2>6, <2>7 DEF Agrees
  <2>9. QED
    BY <1>1, <1>3, <2>8
<1>9. QED
  BY <1>7, <1>8

LEMMA LinkedReply ==
    ASSUME TypeOK, Linked, NEW r \in Requests, Reply(r)
    PROVE  Linked'
<1> SUFFICES ASSUME orderly', OnTop', page'.tapped # <<>>
             PROVE  (order' = <<>> => Settled') /\ (order' # <<>> => Agrees')
  BY DEF Linked
<1>1. /\ UnderWay(r) /\ requests[r].at = "answered" /\ End(r)
      /\ list' = requests[r].answer
      /\ UNCHANGED <<server, page>> /\ orderly /\ r = Head(order)
  BY DEF Reply
<1>2. order # <<>>
  BY <1>1, OrderNotEmpty
<1>3. Agrees /\ page.tapped # <<>>
  BY <1>1, <1>2 DEF Linked, OnTop
<1>4. /\ Len(order) \in Nat \ {0} /\ order[Len(order)] \in Requests
      /\ UnderWay(order[Len(order)]) /\ Newest \in Request
  BY <1>2, NewestUnderWay
<1>5. order \in Seq(Requests) /\ r = order[1] /\ \A i, j \in 1..Len(order) : order[i] = order[j] => i = j
  BY <1>1, <1>4 DEF TypeOK, IsInjective
<1>6. PICK k \in 1..Len(order) : /\ order[k] = r
        /\ Len(order') = Len(order) - 1
        /\ \A i \in 1..Len(order') : order'[i] = IF i < k THEN order[i] ELSE order[i + 1]
  BY <1>1, EndType
<1>7. k = 1
  BY <1>4, <1>5, <1>6
<1>8. requests' = [requests EXCEPT ![r] = Idle] /\ order' \in Seq(Requests)
  BY <1>1, EndType
<1>9. CASE Len(order) = 1
  <2>1. order' = <<>>
    BY <1>6, <1>8, <1>9
  <2>2. Newest = requests[r]
    BY <1>5, <1>9 DEF Newest
  <2>3. Settled'
    BY <1>1, <1>3, <2>2 DEF Agrees, Settled
  <2>4. QED
    BY <2>1, <2>3
<1>10. CASE Len(order) # 1
  <2>1. Len(order') \in 1..Len(order') /\ Len(order') + 1 = Len(order)
    BY <1>4, <1>6, <1>10
  <2>2. order'[Len(order')] = order[Len(order)]
    BY <1>6, <1>7, <2>1
  <2>3. order[Len(order)] # r
    <3>1. 1 \in 1..Len(order) /\ Len(order) \in 1..Len(order)
      BY <1>4
    <3>2. QED
      BY <3>1, <1>5, <1>10
  <2>4. Newest' = Newest
    BY <1>4, <1>8, <2>2, <2>3 DEF Newest, TypeOK
  <2>5. \A q \in Requests : UnderWay(q)' => UnderWay(q) /\ requests'[q] = requests[q]
    BY <1>8, IdleAt DEF UnderWay, TypeOK
  <2>6. Agrees'
    BY <1>1, <1>3, <2>4, <2>5 DEF Agrees
  <2>7. order' # <<>>
    BY <2>1
  <2>8. QED
    BY <2>6, <2>7
<1>11. QED
  BY <1>9, <1>10

LEMMA LinkedNext == TypeOK /\ Linked /\ [Next]_vars => Linked'
<1> SUFFICES ASSUME TypeOK, Linked, [Next]_vars PROVE Linked'
  OBVIOUS
<1>1. CASE UNCHANGED vars
  BY <1>1 DEF vars, histVars, Linked, Settled, Agrees, Newest, OnTop, UnderWay
<1>2. CASE PageStep
  BY <1>2, LinkedPage
<1>3. ASSUME NEW r \in Requests, NEW i \in Rows, RemoveWishList(r, i) PROVE Linked'
  BY <1>3 DEF RemoveWishList, Linked, OnTop
<1>4. ASSUME NEW r \in Requests, Fail(r) PROVE Linked'
  BY <1>4 DEF Fail, Linked
<1>5. CASE RequestStep
  BY <1>3, <1>4, <1>5, LinkedTap, LinkedSend, LinkedServe, LinkedReply DEF RequestStep
<1>6. QED
  BY <1>1, <1>2, <1>5, NextSteps

\* However taps, bins and late answers of pages that are gone interleave: with
\* every request answered in turn, heart, list and server agree.
THEOREM TapCorrect == Spec => []TapTakesEffect
<1>1. Linked => TapTakesEffect
  BY DEF Linked, TapTakesEffect, Settled, Quiet
<1>2. QED
  BY <1>1, LinkedInit, LinkedNext, TypeCorrect, PTL DEF Spec
===============================================================================
