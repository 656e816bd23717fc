--------------------------- MODULE CatalogueProofs ---------------------------
(***************************************************************************)
(* The safety of the shop tab, for any catalogue, any prices and any       *)
(* sequence of taps: what Filtered returns, the highlighted colour, the    *)
(* inductive invariant CatInv, and what Submit promises of the list it     *)
(* leaves, by following a filter record through the five stages.           *)
(***************************************************************************)
EXTENDS Catalogue, WellFoundedInduction, TLAPS

-----------------------------------------------------------------------------
(* Lists.  Filtered is a recursive function, which TLA+ takes to mean a       *)
(* function CHOOSEn to satisfy its equation: AddsExists shows there is one,   *)
(* and FilteredPlaces what it returns, by induction on the prefix added.      *)

\* Induction on the naturals, for a set: a least element outside T is no successor.
LEMMA NatSetInduction ==
    ASSUME NEW T \in SUBSET Nat, 0 \in T, \A n \in T : n + 1 \in T
    PROVE  T = Nat
<1> DEFINE U == Nat \ T
           R == OpToRel(<, Nat)
<1>1. IsWellFoundedOn(R, Nat)
  BY NatLessThanWellFounded, Zenon
<1>2. \A x \in Nat, y \in Nat : x < y => <<x, y>> \in R
  BY DEF OpToRel
<1> HIDE DEF R
<1>3. SUFFICES ASSUME U # {} PROVE FALSE
  OBVIOUS
<1>4. PICK x \in U : \A y \in U : ~(<<y, x>> \in R)
  BY <1>1, <1>3, WFMin, U \subseteq Nat
<1>5. x # 0 /\ x - 1 \in Nat /\ x - 1 < x
  BY <1>4
<1>6. x - 1 \in T
  BY <1>2, <1>4, <1>5
<1>7. (x - 1) + 1 \in T
  BY <1>6
<1>8. QED
  BY <1>4, <1>7

\* F satisfies the equation of Filtered's Added, up to n products.
Adds(F, list, S, n) ==
    F = [i \in 0..n |-> IF i = 0 THEN <<>>
          ELSE IF list[i] \in S THEN Append(F[i - 1], list[i]) ELSE F[i - 1]]

\* Filtered, with its recursive function spelt out.
LEMMA FilteredDef ==
    ASSUME NEW list, NEW S
    PROVE  Filtered(list, S) = (CHOOSE F : Adds(F, list, S, Len(list)))[Len(list)]
BY DEF Filtered, Adds

\* The equation has a solution: one for n + 1 products extends one for n.
LEMMA AddsExists ==
    ASSUME NEW list, NEW S, NEW n \in Nat
    PROVE  \E F : Adds(F, list, S, n)
<1> DEFINE T == {k \in Nat : \E F : Adds(F, list, S, k)}
<1>1. 0 \in T
  <2>1. Adds([i \in 0..0 |-> <<>>], list, S, 0)
    BY DEF Adds
  <2>2. QED
    BY <2>1
<1>2. ASSUME NEW k \in T PROVE k + 1 \in T
  <2>1. PICK F : Adds(F, list, S, k)
    OBVIOUS
  <2> DEFINE G == [i \in 0..(k + 1) |->
                     IF i # k + 1 THEN F[i]
                     ELSE IF list[i] \in S THEN Append(F[i - 1], list[i]) ELSE F[i - 1]]
  <2>2. k \in Nat
    OBVIOUS
  <2>3. ASSUME NEW i \in 0..(k + 1)
        PROVE  G[i] = IF i = 0 THEN <<>>
                      ELSE IF list[i] \in S THEN Append(G[i - 1], list[i]) ELSE G[i - 1]
    <3>1. CASE i = k + 1
      <4>1. i - 1 \in 0..(k+1) /\ i - 1 # k + 1 /\ i # 0
        BY <2>2, <3>1
      <4>2. G[i - 1] = F[i - 1]
        BY <4>1
      <4>3. QED
        BY <3>1, <4>1, <4>2
    <3>2. CASE i # k + 1
      <4>1. i \in 0..k
        BY <2>2, <3>2
      <4>2. F[i] = IF i = 0 THEN <<>>
              ELSE IF list[i] \in S THEN Append(F[i - 1], list[i]) ELSE F[i - 1]
        BY <2>1, <4>1 DEF Adds
      <4>3. i # 0 => i - 1 \in 0..(k+1) /\ i - 1 # k + 1
        BY <2>2, <4>1
      <4>4. i # 0 => G[i - 1] = F[i - 1]
        BY <4>3
      <4>5. QED
        BY <3>2, <4>2, <4>4
    <3>3. QED
      BY <3>1, <3>2
  <2>4. Adds(G, list, S, k + 1)
    <3> HIDE DEF G
    <3>1. DOMAIN G = 0..(k+1) /\ G = [i \in 0..(k+1) |-> G[i]]
      BY DEF G
    <3>2. QED
      BY <2>3, <3>1 DEF Adds
  <2>5. QED
    BY <2>2, <2>4
<1>3. T = Nat
  <2> HIDE DEF T
  <2>1. T \in SUBSET Nat
    BY DEF T
  <2>2. QED
    BY <1>1, <1>2, <2>1, NatSetInduction
<1>4. QED
  BY <1>3

\* l is the part of list's first n products that is in S: e gives the place
\* where list has l's i-th product.
Places(l, list, S, n) ==
    /\ \E e \in [1..Len(l) -> 1..n] :
         /\ \A i, j \in 1..Len(l) : i < j => e[i] < e[j]
         /\ \A i \in 1..Len(l) : l[i] = list[e[i]] /\ l[i] \in S
    /\ \A i \in 1..n : list[i] \in S => \E j \in 1..Len(l) : l[j] = list[i]

\* The next product is in S and is appended.
LEMMA PlacesAppend ==
    ASSUME NEW P, NEW list \in Seq(P), NEW S, NEW l \in Seq(P),
           NEW k \in Nat, k + 1 \in 1..Len(list), Places(l, list, S, k), list[k + 1] \in S
    PROVE  Places(Append(l, list[k + 1]), list, S, k + 1)
<1> DEFINE x == list[k + 1]
           m == Append(l, x)
<1>1. x \in P
  OBVIOUS
<1>2. /\ m \in Seq(P) /\ Len(l) \in Nat /\ Len(m) = Len(l) + 1
      /\ m[Len(l) + 1] = x
      /\ \A i \in 1..Len(l) : m[i] = l[i]
  BY <1>1
<1>3. PICK e \in [1..Len(l) -> 1..k] :
        /\ \A i, j \in 1..Len(l) : i < j => e[i] < e[j]
        /\ \A i \in 1..Len(l) : l[i] = list[e[i]] /\ l[i] \in S
  BY DEF Places
<1> HIDE DEF m
<1> DEFINE d == [i \in 1..Len(m) |-> IF i = Len(m) THEN k + 1 ELSE e[i]]
<1>4. \A i \in 1..Len(m) : i # Len(m) => i \in 1..Len(l)
  BY <1>2
<1>5. d \in [1..Len(m) -> 1..(k + 1)]
  BY <1>3, <1>4
<1>6. ASSUME NEW i \in 1..Len(m), NEW j \in 1..Len(m), i < j
      PROVE  d[i] < d[j]
  <2>1. i \in 1..Len(l)
    BY <1>2, <1>6
  <2>2. i \in Nat /\ j \in Nat /\ i # Len(m)
    BY <1>2, <1>6
  <2>3. e[i] \in 1..k
    BY <1>3, <2>1
  <2>4. CASE j = Len(m)
    BY <2>2, <2>3, <2>4
  <2>5. CASE j # Len(m)
    <3>1. j \in 1..Len(l)
      BY <1>4, <2>5
    <3>2. e[i] < e[j]
      BY <1>3, <1>6, <2>1, <3>1
    <3>3. QED
      BY <2>2, <2>5, <3>2
  <2>6. QED
    BY <2>4, <2>5
<1>7. \A i \in 1..Len(m) : m[i] = list[d[i]] /\ m[i] \in S
  BY <1>2, <1>3, <1>4
<1>8. ASSUME NEW i \in 1..(k + 1), list[i] \in S
      PROVE  \E j \in 1..Len(m) : m[j] = list[i]
  <2>1. CASE i = k + 1
    BY <1>2, <2>1
  <2>2. CASE i # k + 1
    <3>1. i \in 1..k
      BY <2>2
    <3>2. PICK j \in 1..Len(l) : l[j] = list[i]
      BY <1>8, <3>1 DEF Places
    <3>3. j \in 1..Len(m) /\ m[j] = list[i]
      BY <1>2, <3>2
    <3>4. QED
      BY <3>3
  <2>3. QED
    BY <2>1, <2>2
<1> HIDE DEF d
<1>9. Places(m, list, S, k + 1)
  BY <1>5, <1>6, <1>7, <1>8 DEF Places
<1>10. QED
  BY <1>9 DEF m

\* The next product is not in S.
LEMMA PlacesSkip ==
    ASSUME NEW list, NEW S, NEW l, NEW k \in Nat,
           Places(l, list, S, k), list[k + 1] \notin S
    PROVE  Places(l, list, S, k + 1)
<1>1. PICK e \in [1..Len(l) -> 1..k] :
        /\ \A i, j \in 1..Len(l) : i < j => e[i] < e[j]
        /\ \A i \in 1..Len(l) : l[i] = list[e[i]] /\ l[i] \in S
  BY DEF Places
<1>2. e \in [1..Len(l) -> 1..(k + 1)]
  BY <1>1
<1>3. \A i \in 1..(k + 1) : list[i] \in S => i \in 1..k
  OBVIOUS
<1>4. QED
  BY <1>1, <1>2, <1>3 DEF Places

\* What Filtered returns: the part of the list in S, each product in its place.
LEMMA FilteredPlaces ==
    ASSUME NEW P, NEW list \in Seq(P), NEW S
    PROVE  Filtered(list, S) \in Seq(P) /\ Places(Filtered(list, S), list, S, Len(list))
<1> DEFINE n == Len(list)
           F == CHOOSE G : Adds(G, list, S, n)
<1>1. n \in Nat
  OBVIOUS
<1>2. Adds(F, list, S, n)
  BY <1>1, AddsExists
<1>3. Filtered(list, S) = F[n]
  BY FilteredDef
<1> HIDE DEF F
<1>4. \A i \in 0..n : F[i] = IF i = 0 THEN <<>>
          ELSE IF list[i] \in S THEN Append(F[i - 1], list[i]) ELSE F[i - 1]
  BY <1>2 DEF Adds
<1> HIDE DEF n
<1> DEFINE T == {k \in Nat : k <= n => F[k] \in Seq(P) /\ Places(F[k], list, S, k)}
<1>5. 0 \in T
  <2>1. F[0] = <<>>
    BY <1>1, <1>4
  <2>2. Places(<<>>, list, S, 0)
    <3>1. 1..Len(<<>>) = {} /\ 1..0 = {}
      OBVIOUS
    <3>2. [i \in {} |-> i] \in [{} -> {}]
      OBVIOUS
    <3>3. QED
      BY <3>1, <3>2 DEF Places
  <2>3. <<>> \in Seq(P)
    OBVIOUS
  <2>4. QED
    BY <2>1, <2>2, <2>3
<1>6. ASSUME NEW k \in T PROVE k + 1 \in T
  <2>1. k \in Nat /\ k + 1 \in Nat
    OBVIOUS
  <2>2. SUFFICES ASSUME k + 1 <= n
                 PROVE  F[k + 1] \in Seq(P) /\ Places(F[k + 1], list, S, k + 1)
    BY <2>1
  <2>3. F[k] \in Seq(P) /\ Places(F[k], list, S, k)
    BY <1>1, <2>1, <2>2
  <2>4. k + 1 \in 0..n /\ k + 1 # 0 /\ (k + 1) - 1 = k /\ k + 1 \in 1..Len(list)
    BY <1>1, <2>1, <2>2 DEF n
  <2>5. F[k + 1] = IF list[k + 1] \in S THEN Append(F[k], list[k + 1]) ELSE F[k]
    BY <1>4, <2>4
  <2>6. CASE list[k + 1] \in S
    <3>1. list[k + 1] \in P
      BY <2>4
    <3>2. QED
      BY <2>1, <2>3, <2>4, <2>5, <2>6, <3>1, PlacesAppend
  <2>7. CASE list[k + 1] \notin S
    BY <2>1, <2>3, <2>5, <2>7, PlacesSkip
  <2>8. QED
    BY <2>6, <2>7
<1>7. T = Nat
  <2> HIDE DEF T
  <2>1. T \in SUBSET Nat
    BY DEF T
  <2>2. QED
    BY <1>5, <1>6, <2>1, NatSetInduction
<1>8. F[n] \in Seq(P) /\ Places(F[n], list, S, n)
  BY <1>1, <1>7
<1>9. QED
  BY <1>3, <1>8 DEF n

\* As a set, a filtered list is an intersection.
LEMMA FilteredRange ==
    ASSUME NEW P, NEW list \in Seq(P), NEW S
    PROVE  Range(Filtered(list, S)) = Range(list) \cap S
<1> DEFINE l == Filtered(list, S)
<1>1. l \in Seq(P) /\ Places(l, list, S, Len(list))
  BY FilteredPlaces
<1> HIDE DEF l
<1>2. DOMAIN l = 1..Len(l) /\ DOMAIN list = 1..Len(list)
  BY <1>1
<1>3. Range(l) \subseteq Range(list) \cap S
  BY <1>1, <1>2 DEF Places, Range
<1>4. Range(list) \cap S \subseteq Range(l)
  BY <1>1, <1>2 DEF Places, Range
<1>5. QED
  BY <1>3, <1>4 DEF l

\* Filtering a list that has each product once never doubles one.
LEMMA FilteredOnce ==
    ASSUME NEW P, NEW list \in Seq(P), NEW S, IsInjective(list)
    PROVE  IsInjective(Filtered(list, S))
<1> DEFINE l == Filtered(list, S)
<1>1. l \in Seq(P) /\ Places(l, list, S, Len(list))
  BY FilteredPlaces
<1> HIDE DEF l
<1>2. PICK e \in [1..Len(l) -> 1..Len(list)] :
        /\ \A i, j \in 1..Len(l) : i < j => e[i] < e[j]
        /\ \A i \in 1..Len(l) : l[i] = list[e[i]] /\ l[i] \in S
  BY <1>1 DEF Places
<1>3. ASSUME NEW i \in 1..Len(l), NEW j \in 1..Len(l), l[i] = l[j]
      PROVE  i = j
  <2>1. e[i] = e[j]
    BY <1>2, <1>3 DEF IsInjective
  <2>2. Len(l) \in Nat /\ i \in Nat /\ j \in Nat /\ e[i] \in Nat /\ e[j] \in Nat
    BY <1>1, <1>2
  <2>3. QED
    BY <1>2, <2>1, <2>2
<1>4. IsInjective(l)
  BY <1>1, <1>3 DEF IsInjective
<1>5. QED
  BY <1>4 DEF l

\* The relation InOrder asks of a product and a later one.
Before(sort, p, q) ==
    CASE sort = "low"    -> Rate[p] <= Rate[q]
      [] sort = "high"   -> Rate[p] >= Rate[q]
      [] sort = "rating" -> Rating[p] <= Rating[q]
      [] OTHER           -> TRUE

\* InOrder, by that relation.
LEMMA InOrderBefore ==
    ASSUME NEW sort, NEW list
    PROVE  InOrder(sort, list) <=>
             \A i, j \in DOMAIN list : i < j => Before(sort, list[i], list[j])
BY DEF InOrder, Before

\* A sublist of a list in order is in order.
LEMMA FilteredOrder ==
    ASSUME NEW P, NEW list \in Seq(P), NEW S, NEW sort, InOrder(sort, list)
    PROVE  InOrder(sort, Filtered(list, S))
<1> DEFINE l == Filtered(list, S)
<1>1. l \in Seq(P) /\ Places(l, list, S, Len(list))
  BY FilteredPlaces
<1> HIDE DEF l
<1>2. PICK e \in [1..Len(l) -> 1..Len(list)] :
        /\ \A i, j \in 1..Len(l) : i < j => e[i] < e[j]
        /\ \A i \in 1..Len(l) : l[i] = list[e[i]] /\ l[i] \in S
  BY <1>1 DEF Places
<1>3. \A i, j \in 1..Len(list) : i < j => Before(sort, list[i], list[j])
  BY InOrderBefore
<1>4. ASSUME NEW i \in 1..Len(l), NEW j \in 1..Len(l), i < j
      PROVE  Before(sort, l[i], l[j])
  BY <1>2, <1>3, <1>4
<1>5. InOrder(sort, l)
  BY <1>1, <1>4, InOrderBefore
<1>6. QED
  BY <1>5 DEF l

\* A sorted list has the products of the list, each as often.
LEMMA Arranged ==
    ASSUME NEW P, NEW list \in Seq(P), NEW a \in Arrangements(list)
    PROVE  /\ a \in Seq(P) /\ Range(a) = Range(list)
           /\ IsInjective(list) => IsInjective(a)
           /\ list # <<>> => a # <<>>
<1> DEFINE D == DOMAIN list
<1>1. D = 1..Len(list) /\ Len(list) \in Nat /\ list \in [D -> P]
  OBVIOUS
<1>2. PICK b \in Bijection(D, D) : a = [i \in D |-> list[b[i]]]
  BY DEF Arrangements
<1>3. /\ b \in [D -> D]
      /\ \A i, j \in D : b[i] = b[j] => i = j
      /\ \A i \in D : \E j \in D : b[j] = i
  BY <1>2 DEF Bijection, Injection, Surjection, IsInjective
<1> HIDE DEF D
<1>4. a \in [D -> P]
  BY <1>1, <1>2, <1>3
<1>5. a \in Seq(P)
  BY <1>1, <1>4
<1>6. Range(a) = Range(list)
  BY <1>1, <1>2, <1>3, <1>4 DEF Range, D
<1>7. ASSUME IsInjective(list)
      PROVE  IsInjective(a)
  BY <1>2, <1>3, <1>4, <1>7 DEF IsInjective, D
<1>8. ASSUME a = <<>>
      PROVE  list = <<>>
  <2>1. D = DOMAIN <<>>
    BY <1>4, <1>8
  <2>2. QED
    BY <2>1 DEF D
<1>9. QED
  BY <1>5, <1>6, <1>7, <1>8

-----------------------------------------------------------------------------
(* The highlighted colour. *)

\* The shape of a filter record, without the types of its values.
Fields == {"shown", "sort", "color", "fabric", "start", "end", "colorslist", "fabriclist"}

\* The highlight follows the choice.
Alike(f) ==
    /\ DOMAIN f = Fields
    /\ f.color # NoColor => f.colorslist = {f.color}

\* A reset clears the choice and its highlight together.
LEMMA ResetsAlike ==
    ASSUME NEW f, Alike(f)
    PROVE  /\ Alike(NoSort(f)) /\ Alike(NoPrices(f))
           /\ Alike(NoColors(f)) /\ Alike(NoFabrics(f))
BY DEF Alike, Fields, NoSort, NoPrices, NoColors, NoFabrics

\* What a handler may do to the other fields.
LEMMA OthersAlike ==
    ASSUME NEW f, Alike(f), NEW x
    PROVE  /\ Alike([f EXCEPT !.shown = x]) /\ Alike([f EXCEPT !.sort = x])
           /\ Alike([f EXCEPT !.start = x]) /\ Alike([f EXCEPT !.end = x])
           /\ Alike([f EXCEPT !.fabric = x]) /\ Alike([f EXCEPT !.fabriclist = x])
BY DEF Alike, Fields

\* A new page has no choice.
LEMMA NewPageAlike ==
    ASSUME NEW C, NEW B
    PROVE  Alike(NewPage(C, B))
BY DEF Alike, Fields, NewPage

\* Each stage keeps the highlight with the choice.
LEMMA SortAlike ==
    ASSUME NEW f, Alike(f), NEW g \in SortStage(f)
    PROVE  Alike(g)
<1>1. Alike(NoFilters(f))
  BY ResetsAlike DEF NoFilters
<1>2. ASSUME NEW h, Alike(h), NEW l, NEW k \in Sorted(h, l)
      PROVE  Alike(k)
  <2>1. PICK a : k = [h EXCEPT !.shown = a]
    BY DEF Sorted
  <2>2. QED
    BY <1>2, <2>1, OthersAlike
<1>3. CASE f.sort = "none"
  BY <1>3 DEF SortStage
<1>4. CASE f.sort = "relevance"
  <2>1. g = [NoFilters(f) EXCEPT !.shown = Productlist]
    BY <1>4 DEF SortStage
  <2>2. QED
    BY <1>1, <2>1, OthersAlike
<1>5. CASE f.sort \notin {"none", "relevance"}
  <2>1. g \in Sorted(f, f.shown) \/ g \in Sorted(NoFilters(f), Productlist)
    BY <1>5 DEF SortStage
  <2>2. QED
    BY <1>1, <1>2, <2>1
<1>6. QED
  BY <1>3, <1>4, <1>5

LEMMA ColorAlike ==
    ASSUME NEW f, Alike(f)
    PROVE  Alike(ColorStage(f))
<1>1. Alike([NoSort(NoPrices(NoFabrics(f))) EXCEPT !.shown = Productlist])
  BY ResetsAlike, OthersAlike
<1>2. QED
  BY <1>1, OthersAlike DEF ColorStage, Keep

LEMMA StartAlike ==
    ASSUME NEW f, Alike(f)
    PROVE  Alike(StartStage(f))
<1> DEFINE h == NoSort(NoColors(f))
           g == [h EXCEPT !.end = High, !.fabric = NoFabric, !.shown = Productlist]
<1>1. Alike(h)
  BY ResetsAlike
<1> HIDE DEF h
<1>2. Alike(g)
  BY <1>1 DEF Alike, Fields
<1> USE DEF h
<1>3. QED
  BY <1>2, OthersAlike DEF StartStage, Keep

LEMMA EndAlike ==
    ASSUME NEW f, Alike(f)
    PROVE  Alike(EndStage(f))
<1>1. Alike([NoSort(NoColors(NoFabrics(f))) EXCEPT !.start = Low])
  BY ResetsAlike, OthersAlike
<1>2. QED
  BY <1>1, OthersAlike DEF EndStage, Keep

LEMMA FabricAlike ==
    ASSUME NEW f, Alike(f)
    PROVE  Alike(FabricStage(f))
<1> DEFINE h == NoSort(NoPrices(NoColors(f)))
           g == [h EXCEPT !.fabriclist = {}, !.shown = Productlist]
<1>1. Alike(h)
  BY ResetsAlike
<1> HIDE DEF h
<1>2. Alike(g)
  BY <1>1 DEF Alike, Fields
<1> USE DEF h
<1>3. QED
  BY <1>2, OthersAlike DEF FabricStage, Keep

\* So does every action.
LEMMA StepAlike ==
    ASSUME Alike(filter), [Next]_vars
    PROVE  Alike(filter)'
<1>1. CASE Submit
  <2>1. PICK f \in SortStage(filter) :
          filter' = FabricStage(EndStage(StartStage(ColorStage(f))))
    BY <1>1 DEF Submit
  <2>2. Alike(ColorStage(f))
    BY SortAlike, ColorAlike
  <2>3. Alike(EndStage(StartStage(ColorStage(f))))
    BY <2>2, StartAlike, EndAlike
  <2>4. Alike(filter')
    BY <2>1, <2>3, FabricAlike
  <2>5. QED
    BY <2>4 DEF Alike
<1>2. CASE Cancel \/ ClearSearch \/ Reopen
  <2>1. \E C, B : filter' = NewPage(C, B)
    BY <1>2 DEF Cancel, ClearSearch, Reopen
  <2>2. QED
    BY <2>1, NewPageAlike DEF Alike
<1>3. CASE \E k \in Sorts : TickSort(k)
  BY <1>3, OthersAlike DEF TickSort, Alike
<1>4. ASSUME NEW start \in Price, NEW end \in Price, Slide(start, end)
      PROVE  Alike(filter)'
  BY <1>4 DEF Slide, Alike, Fields
<1>5. ASSUME NEW c \in Colors, PickColor(c)
      PROVE  Alike(filter)'
  BY <1>5 DEF PickColor, Alike, Fields
<1>6. ASSUME NEW b \in Fabrics, TickFabric(b) \/ UntickFabric(b)
      PROVE  Alike(filter)'
  BY <1>6 DEF TickFabric, UntickFabric, Alike, Fields
<1>7. ASSUME (\E t \in Texts : Search(t)) \/ (\E c \in Categories : PickCategory(c))
      PROVE  Alike(filter)'
  <2>1. \E l : filter' = [filter EXCEPT !.shown = l]
    BY <1>7 DEF Search, PickCategory, Keep
  <2>2. QED
    BY <2>1 DEF Alike, Fields
<1>8. CASE Refresh
  BY <1>8 DEF Refresh, NoPrices, Alike, Fields
<1>9. CASE Pull \/ (\E k \in Panels : Toggle(k)) \/ UNCHANGED vars
  BY <1>9 DEF Pull, Toggle, vars, Alike
<1>10. QED
  BY <1>1, <1>2, <1>3, <1>4, <1>5, <1>6, <1>7, <1>8, <1>9 DEF Next

\* A colour the page filters by is the one highlighted.
THEOREM ColorTile == Spec => []ColorHighlighted
<1>1. Init => Alike(filter)
  BY NewPageAlike DEF Init
<1>2. Alike(filter) => ColorHighlighted
  BY DEF Alike, ColorHighlighted
<1>3. QED
  BY <1>1, <1>2, StepAlike, PTL DEF Spec

-----------------------------------------------------------------------------
(* Filter records, and what the resets do to them. *)

\* What CatalogueAssumption gives the proofs.
LEMMA CatalogueGood ==
    /\ Productlist \in Seq(Products) /\ IsInjective(Productlist)
    /\ Low \in Price /\ High \in Price /\ Low <= High
    /\ Range(Productlist) \subseteq Products
BY CatalogueAssumption DEF Low, High, Price, Range

\* f shows list, and these are its choices.
Asks(f, list, sort, color, fabric, start, end) ==
    /\ f \in Filter
    /\ f.shown = list /\ f.sort = sort /\ f.color = color /\ f.fabric = fabric
    /\ f.start = start /\ f.end = end

\* Each reset clears its own choice and no other, and the list stays.
LEMMA ResetsAsk ==
    ASSUME NEW f \in Filter
    PROVE  /\ Asks(NoSort(f), f.shown, "none", f.color, f.fabric, f.start, f.end)
           /\ Asks(NoPrices(f), f.shown, f.sort, f.color, f.fabric, Low, High)
           /\ Asks(NoColors(f), f.shown, f.sort, NoColor, f.fabric, f.start, f.end)
           /\ Asks(NoFabrics(f), f.shown, f.sort, f.color, NoFabric, f.start, f.end)
<1>1. Asks(NoSort(f), f.shown, "none", f.color, f.fabric, f.start, f.end)
  BY DEF Asks, Filter, NoSort
<1>2. Asks(NoPrices(f), f.shown, f.sort, f.color, f.fabric, Low, High)
  BY CatalogueGood DEF Asks, Filter, NoPrices
<1>3. Asks(NoColors(f), f.shown, f.sort, NoColor, f.fabric, f.start, f.end)
  BY DEF Asks, Filter, NoColors
<1>4. Asks(NoFabrics(f), f.shown, f.sort, f.color, NoFabric, f.start, f.end)
  BY DEF Asks, Filter, NoFabrics
<1>5. QED
  BY <1>1, <1>2, <1>3, <1>4

\* Replacing the list leaves the choices.
LEMMA ShowAsks ==
    ASSUME NEW f \in Filter, NEW l \in Seq(Products)
    PROVE  Asks([f EXCEPT !.shown = l], l, f.sort, f.color, f.fabric, f.start, f.end)
BY DEF Asks, Filter

\* A sort that starts again drops all choices but its own.
LEMMA NoFiltersAsk ==
    ASSUME NEW f \in Filter
    PROVE  Asks(NoFilters(f), f.shown, f.sort, NoColor, NoFabric, Low, High)
BY ResetsAsk DEF Asks, NoFilters

\* A list is empty exactly when nothing is in it.
LEMMA EmptyRange ==
    ASSUME NEW P, NEW l \in Seq(P)
    PROVE  l = <<>> <=> Range(l) = {}
<1>1. ASSUME Range(l) = {} PROVE Len(l) = 0
  <2>1. \A i \in 1..Len(l) : l[i] \in Range(l)
    BY DEF Range
  <2>2. QED
    BY <1>1, <2>1
<1>2. Len(l) = 0 => l = <<>>
  OBVIOUS
<1>3. Range(<<>>) = {}
  BY DEF Range
<1>4. QED
  BY <1>1, <1>2, <1>3

\* Filtering keeps a list one a page may show.
LEMMA FilteredGood ==
    ASSUME NEW list \in Seq(Products), NEW S
    PROVE  /\ Filtered(list, S) \in Seq(Products)
           /\ IsInjective(list) => IsInjective(Filtered(list, S))
           /\ Range(Filtered(list, S)) = Range(list) \cap S
BY FilteredPlaces, FilteredRange, FilteredOnce

-----------------------------------------------------------------------------
(* The stages, case by case: the choice is not made, the list is narrowed, or *)
(* the stage starts again from all products.                                  *)

\* g shows what of f is in S and keeps the choices.
Narrows(f, g, S) ==
    /\ f.shown # <<>>
    /\ Asks(g, Filtered(f.shown, S), f.sort, f.color, f.fabric, f.start, f.end)

\* g shows all products in S; the buyer's choices left are these.
Restarts(f, g, S, color, fabric, start, end) ==
    /\ f.shown = <<>>
    /\ Asks(g, Filtered(Productlist, S), "none", color, fabric, start, end)

\* Keep replaces the list by a part of another.
LEMMA KeepAsks ==
    ASSUME NEW f \in Filter, NEW list \in Seq(Products), NEW S
    PROVE  Asks(Keep(f, list, S), Filtered(list, S), f.sort, f.color, f.fabric, f.start, f.end)
BY FilteredGood, ShowAsks DEF Keep

\* The list of a record.
LEMMA FilterShown ==
    ASSUME NEW f \in Filter
    PROVE  f.shown \in Seq(Products)
BY DEF Filter

\* The sort stage: no box is ticked, the list shown is arranged, or all products
\* are and the filters are dropped.
LEMMA SortCases ==
    ASSUME NEW f \in Filter, NEW g \in SortStage(f)
    PROVE  \/ f.sort = "none" /\ g = f
           \/ \E a \in Arrangements(f.shown) :
                /\ f.sort # "none" /\ f.shown # <<>> /\ InOrder(f.sort, a)
                /\ Asks(g, a, f.sort, f.color, f.fabric, f.start, f.end)
           \/ \E a \in Seq(Products) :
                /\ f.sort # "none" /\ InOrder(f.sort, a)
                /\ Range(a) = Range(Productlist) /\ IsInjective(a)
                /\ Asks(g, a, f.sort, NoColor, NoFabric, Low, High)
<1>1. CASE f.sort = "none"
  BY <1>1 DEF SortStage
<1>2. CASE f.sort = "relevance"
  <2>1. g = [NoFilters(f) EXCEPT !.shown = Productlist]
    BY <1>2 DEF SortStage
  <2>2. Asks(g, Productlist, f.sort, NoColor, NoFabric, Low, High)
    BY <2>1, CatalogueGood, NoFiltersAsk, ShowAsks DEF Asks
  <2>3. InOrder(f.sort, Productlist)
    BY <1>2 DEF InOrder
  <2>4. QED
    BY <1>2, <2>2, <2>3, CatalogueGood
<1>3. CASE f.sort \notin {"none", "relevance"}
  <2>1. g \in IF f.shown # <<>> THEN Sorted(f, f.shown) ELSE Sorted(NoFilters(f), Productlist)
    BY <1>3 DEF SortStage
  <2>2. CASE f.shown # <<>>
    <3>1. PICK a \in Arrangements(f.shown) :
            g = [f EXCEPT !.shown = a] /\ InOrder(f.sort, a)
      BY <2>1, <2>2 DEF Sorted
    <3>2. a \in Seq(Products)
      BY Arranged, FilterShown
    <3>3. QED
      BY <1>3, <2>2, <3>1, <3>2, ShowAsks
  <2>3. CASE f.shown = <<>>
    <3>1. PICK a \in Arrangements(Productlist) :
            g = [NoFilters(f) EXCEPT !.shown = a] /\ InOrder(NoFilters(f).sort, a)
      BY <2>1, <2>3 DEF Sorted
    <3>2. a \in Seq(Products) /\ Range(a) = Range(Productlist) /\ IsInjective(a)
      BY Arranged, CatalogueGood
    <3>3. InOrder(f.sort, a) /\ Asks(g, a, f.sort, NoColor, NoFabric, Low, High)
      BY <3>1, <3>2, NoFiltersAsk, ShowAsks DEF Asks
    <3>4. QED
      BY <1>3, <3>2, <3>3
  <2>4. QED
    BY <2>2, <2>3
<1>4. QED
  BY <1>1, <1>2, <1>3

\* The colour stage keeps nothing, whatever it starts from.
LEMMA ColorCases ==
    ASSUME NEW f \in Filter, NEW g, g = ColorStage(f)
    PROVE  \/ f.color = NoColor /\ g = f
           \/ f.color # NoColor /\ Narrows(f, g, {})
           \/ f.color # NoColor /\ Restarts(f, g, {}, f.color, NoFabric, Low, High)
<1>1. \A c : {p \in Products : HasColor(p, c)} = {}
  BY DEF HasColor
<1>2. CASE f.color = NoColor
  BY <1>2 DEF ColorStage
<1>3. CASE f.color # NoColor /\ f.shown # <<>>
  BY <1>1, <1>3, KeepAsks, FilterShown DEF ColorStage, Narrows
<1>4. CASE f.color # NoColor /\ f.shown = <<>>
  <2> DEFINE k == NoSort(NoPrices(NoFabrics(f)))
             h == [k EXCEPT !.shown = Productlist]
  <2>1. Asks(k, f.shown, "none", f.color, NoFabric, Low, High)
    BY ResetsAsk DEF Asks
  <2>2. g = Keep(h, h.shown, {})
    BY <1>1, <1>4 DEF ColorStage
  <2> HIDE DEF k
  <2>3. Asks(h, Productlist, "none", f.color, NoFabric, Low, High)
    BY <2>1, ShowAsks, CatalogueGood DEF Asks
  <2> HIDE DEF h
  <2>4. Asks(g, Filtered(Productlist, {}), "none", f.color, NoFabric, Low, High)
    BY <2>2, <2>3, KeepAsks, CatalogueGood DEF Asks
  <2>5. QED
    BY <1>4, <2>4 DEF Restarts
<1>5. QED
  BY <1>2, <1>3, <1>4

\* The lower price: starting again keeps it and drops every other choice.
LEMMA StartCases ==
    ASSUME NEW f \in Filter, NEW g, g = StartStage(f)
    PROVE  LET S == {p \in Products : Rate[p] >= f.start}
           IN  \/ f.start = Low /\ g = f
               \/ f.start # Low /\ Narrows(f, g, S)
               \/ f.start # Low /\ Restarts(f, g, S, NoColor, NoFabric, f.start, High)
<1>1. CASE f.start = Low
  BY <1>1 DEF StartStage
<1>2. CASE f.start # Low /\ f.shown # <<>>
  BY <1>2, KeepAsks, FilterShown DEF StartStage, Narrows
<1>3. CASE f.start # Low /\ f.shown = <<>>
  <2> DEFINE k == NoSort(NoColors(f))
             h == [k EXCEPT !.end = High, !.fabric = NoFabric, !.shown = Productlist]
             S == {p \in Products : Rate[p] >= f.start}
  <2>1. Asks(k, f.shown, "none", NoColor, f.fabric, f.start, f.end)
    BY ResetsAsk DEF Asks
  <2>2. g = Keep(h, h.shown, {p \in Products : Rate[p] >= h.start})
    BY <1>3 DEF StartStage
  <2> HIDE DEF k
  <2>3. Asks(h, Productlist, "none", NoColor, NoFabric, f.start, High)
    BY <2>1, CatalogueGood DEF Asks, Filter
  <2> HIDE DEF h
  <2>4. Asks(g, Filtered(Productlist, S), "none", NoColor, NoFabric, f.start, High)
    BY <2>2, <2>3, KeepAsks, CatalogueGood DEF Asks
  <2>5. QED
    BY <1>3, <2>4 DEF Restarts
<1>4. QED
  BY <1>1, <1>2, <1>3

\* The upper price: starting again keeps it, and compares with the lower one.
LEMMA EndCases ==
    ASSUME NEW f \in Filter, NEW g, g = EndStage(f)
    PROVE  \/ f.end = High /\ g = f
           \/ f.end # High /\ Narrows(f, g, {p \in Products : Rate[p] <= f.end})
           \/ /\ f.end # High
              /\ Restarts(f, g, {p \in Products : Rate[p] <= Low},
                          NoColor, NoFabric, Low, f.end)
<1>1. CASE f.end = High
  BY <1>1 DEF EndStage
<1>2. CASE f.end # High /\ f.shown # <<>>
  BY <1>2, KeepAsks, FilterShown DEF EndStage, Narrows
<1>3. CASE f.end # High /\ f.shown = <<>>
  <2> DEFINE k == NoSort(NoColors(NoFabrics(f)))
             h == [k EXCEPT !.start = Low]
             S == {p \in Products : Rate[p] <= Low}
  <2>1. Asks(k, f.shown, "none", NoColor, NoFabric, f.start, f.end)
    BY ResetsAsk DEF Asks
  <2>2. g = Keep(h, Productlist, {p \in Products : Rate[p] <= h.start})
    BY <1>3 DEF EndStage
  <2> HIDE DEF k
  <2>3. Asks(h, f.shown, "none", NoColor, NoFabric, Low, f.end)
    BY <2>1, CatalogueGood DEF Asks, Filter
  <2> HIDE DEF h
  <2>4. Asks(g, Filtered(Productlist, S), "none", NoColor, NoFabric, Low, f.end)
    BY <2>2, <2>3, KeepAsks, CatalogueGood DEF Asks
  <2>5. QED
    BY <1>3, <2>4 DEF Restarts
<1>4. QED
  BY <1>1, <1>2, <1>3

\* The fabric: starting again keeps it and drops every other choice.
LEMMA FabricCases ==
    ASSUME NEW f \in Filter, NEW g, g = FabricStage(f)
    PROVE  LET S == {p \in Products : Fabric[p] = f.fabric}
           IN  \/ f.fabric = NoFabric /\ g = f
               \/ f.fabric # NoFabric /\ Narrows(f, g, S)
               \/ f.fabric # NoFabric /\ Restarts(f, g, S, NoColor, f.fabric, Low, High)
<1>1. CASE f.fabric = NoFabric
  BY <1>1 DEF FabricStage
<1>2. CASE f.fabric # NoFabric /\ f.shown # <<>>
  BY <1>2, KeepAsks, FilterShown DEF FabricStage, Narrows
<1>3. CASE f.fabric # NoFabric /\ f.shown = <<>>
  <2> DEFINE k == NoSort(NoPrices(NoColors(f)))
             h == [k EXCEPT !.fabriclist = {}, !.shown = Productlist]
             S == {p \in Products : Fabric[p] = f.fabric}
  <2>1. Asks(k, f.shown, "none", NoColor, f.fabric, Low, High)
    BY ResetsAsk DEF Asks
  <2>2. g = Keep(h, h.shown, {p \in Products : Fabric[p] = h.fabric})
    BY <1>3 DEF FabricStage
  <2> HIDE DEF k
  <2>3. Asks(h, Productlist, "none", NoColor, f.fabric, Low, High)
    BY <2>1, CatalogueGood DEF Asks, Filter
  <2> HIDE DEF h
  <2>4. Asks(g, Filtered(Productlist, S), "none", NoColor, f.fabric, Low, High)
    BY <2>2, <2>3, KeepAsks, CatalogueGood DEF Asks
  <2>5. QED
    BY <1>3, <2>4 DEF Restarts
<1>4. QED
  BY <1>1, <1>2, <1>3

-----------------------------------------------------------------------------
(* The inductive invariant. *)

\* What a filter record is between two stages as well as between two handlers.
Good(f) ==
    /\ f \in Filter
    /\ IsInjective(f.shown)
    /\ Range(f.shown) \subseteq Range(Productlist)

\* A stage that narrows the list shows part of what was shown.
LEMMA NarrowsGood ==
    ASSUME NEW f, Good(f), NEW g, NEW S, Narrows(f, g, S)
    PROVE  Good(g) /\ Range(g.shown) = Range(f.shown) \cap S
BY FilteredGood, FilterShown DEF Good, Narrows, Asks

\* A stage that starts again shows part of the catalogue.
LEMMA RestartsGood ==
    ASSUME NEW f, NEW g, NEW S, NEW c, NEW b, NEW x, NEW y, Restarts(f, g, S, c, b, x, y)
    PROVE  Good(g) /\ Range(g.shown) = Range(Productlist) \cap S
BY FilteredGood, CatalogueGood DEF Good, Restarts, Asks

\* The sort stage keeps a record good.
LEMMA SortGood ==
    ASSUME NEW f, Good(f), NEW g \in SortStage(f)
    PROVE  Good(g)
<1>1. CASE g = f
  BY <1>1
<1>2. ASSUME NEW a \in Arrangements(f.shown), g.shown = a, g \in Filter
      PROVE  Good(g)
  BY <1>2, Arranged, FilterShown DEF Good
<1>3. ASSUME NEW a \in Seq(Products), Range(a) = Range(Productlist), IsInjective(a),
             g.shown = a, g \in Filter
      PROVE  Good(g)
  BY <1>3 DEF Good
<1>4. QED
  BY <1>1, <1>2, <1>3, SortCases DEF Good, Asks

\* So does each of the other four.
LEMMA StagesGood ==
    ASSUME NEW f, Good(f)
    PROVE  /\ Good(ColorStage(f)) /\ Good(StartStage(f))
           /\ Good(EndStage(f)) /\ Good(FabricStage(f))
<1>1. f \in Filter
  BY DEF Good
<1>2. Good(ColorStage(f))
  BY <1>1, ColorCases, NarrowsGood, RestartsGood
<1>3. Good(StartStage(f))
  BY <1>1, StartCases, NarrowsGood, RestartsGood
<1>4. Good(EndStage(f))
  BY <1>1, EndCases, NarrowsGood, RestartsGood
<1>5. Good(FabricStage(f))
  BY <1>1, FabricCases, NarrowsGood, RestartsGood
<1>6. QED
  BY <1>2, <1>3, <1>4, <1>5

\* A new page's record is good, whatever tiles are highlighted.
LEMMA NewPageGood ==
    ASSUME NEW C \in SUBSET Colors, NEW B \in SUBSET Fabrics
    PROVE  Good(NewPage(C, B))
<1>1. NewPage(C, B) \in Filter
  BY CatalogueGood DEF NewPage, Filter
<1>2. NewPage(C, B).shown = Productlist
  BY DEF NewPage
<1>3. QED
  BY <1>1, <1>2, CatalogueGood DEF Good

\* So is one narrowed by a search or a category.
LEMMA KeepGood ==
    ASSUME NEW f, Good(f), NEW list \in Seq(Products), IsInjective(list),
           Range(list) \subseteq Range(Productlist), NEW S
    PROVE  Good(Keep(f, list, S))
BY KeepAsks, FilteredGood DEF Good, Asks

\* The inductive invariant.  That only products of the catalogue are shown is what
\* makes a stage's starting again find everything that was shown before.
CatInv == TypeOK /\ Good(filter)

\* The first page.
LEMMA InitGood == Init => CatInv
<1>1. {} \in SUBSET Colors /\ {} \in SUBSET Fabrics
  OBVIOUS
<1>2. Good(NewPage({}, {}))
  BY <1>1, NewPageGood
<1>3. QED
  BY <1>2, CatalogueAssumption DEF Init, CatInv, TypeOK, Good

\* CatInv is inductive: one step per action.
LEMMA NextGood ==
    ASSUME CatInv, [Next]_vars
    PROVE  CatInv'
<1> USE DEF CatInv
<1>0. Good(filter) /\ filter \in Filter /\ filter.shown \in Seq(Products)
  BY FilterShown DEF Good
<1>1. CASE Submit
  <2>1. PICK f \in SortStage(filter) :
          filter' = FabricStage(EndStage(StartStage(ColorStage(f))))
    BY <1>1 DEF Submit
  <2>2. Good(filter')
    BY <2>1, SortGood, StagesGood
  <2>3. QED
    BY <1>1, <2>2, CatalogueAssumption DEF Submit, TypeOK, Good
<1>2. CASE Cancel \/ ClearSearch \/ Reopen
  <2>1. \E C \in SUBSET Colors, B \in SUBSET Fabrics : filter' = NewPage(C, B)
    BY <1>2 DEF Cancel, ClearSearch, Reopen, TypeOK, Filter
  <2>2. Good(filter')
    BY <2>1, NewPageGood
  <2>3. QED
    BY <1>2, <2>2, CatalogueAssumption DEF Cancel, ClearSearch, Reopen, TypeOK, Good
<1>3. ASSUME NEW k \in Sorts, TickSort(k)
      PROVE  CatInv'
  <2>1. filter' \in Filter /\ filter'.shown = filter.shown
    BY <1>3 DEF TickSort, TypeOK, Filter
  <2>2. QED
    BY <1>3, <2>1 DEF TickSort, TypeOK, Good
<1>4. ASSUME NEW start \in Price, NEW end \in Price, Slide(start, end)
      PROVE  CatInv'
  <2>1. filter' \in Filter /\ filter'.shown = filter.shown
    BY <1>4 DEF Slide, TypeOK, Filter
  <2>2. QED
    BY <1>4, <2>1 DEF Slide, TypeOK, Good
<1>5. ASSUME NEW c \in Colors, PickColor(c)
      PROVE  CatInv'
  <2>1. filter' \in Filter /\ filter'.shown = filter.shown
    BY <1>5 DEF PickColor, TypeOK, Filter
  <2>2. QED
    BY <1>5, <2>1 DEF PickColor, TypeOK, Good
<1>6. ASSUME NEW b \in Fabrics, TickFabric(b) \/ UntickFabric(b)
      PROVE  CatInv'
  <2> SUFFICES filter' \in Filter /\ filter'.shown = filter.shown
    BY <1>6 DEF TickFabric, UntickFabric, TypeOK, Good
  <2>1. CASE TickFabric(b)
    BY <2>1 DEF TickFabric, TypeOK, Filter
  <2>2. CASE UntickFabric(b)
    <3>1. filter.fabriclist \ {b} \in SUBSET Fabrics
      BY DEF TypeOK, Filter
    <3>2. filter' = [filter EXCEPT !.fabriclist = filter.fabriclist \ {b}]
      BY <2>2 DEF UntickFabric
    <3>3. QED
      BY <3>1, <3>2 DEF TypeOK, Filter
  <2>3. QED
    BY <1>6, <2>1, <2>2
<1>7. ASSUME NEW t \in Texts, Search(t)
      PROVE  CatInv'
  <2>1. Good(filter')
    BY <1>0, <1>7, KeepGood DEF Search, Good
  <2>2. QED
    BY <1>7, <2>1 DEF Search, TypeOK, Good
<1>8. ASSUME NEW c \in Categories, PickCategory(c)
      PROVE  CatInv'
  <2>1. Good(filter')
    BY <1>0, <1>8, KeepGood, CatalogueGood DEF PickCategory
  <2>2. QED
    BY <1>8, <2>1 DEF PickCategory, TypeOK, Good
<1>9. CASE Refresh
  <2>1. Asks(NoPrices(filter), filter.shown, filter.sort, filter.color, filter.fabric, Low, High)
    BY <1>0, ResetsAsk
  <2>2. filter' \in Filter /\ filter'.shown = Productlist
    BY <1>9, <2>1, ShowAsks, CatalogueGood DEF Refresh, Asks
  <2>3. Good(filter')
    BY <2>2, CatalogueGood DEF Good
  <2>4. QED
    BY <1>9, <2>3, CatalogueAssumption DEF Refresh, TypeOK, Good
<1>10. CASE Pull
  BY <1>10, CatalogueAssumption DEF Pull, TypeOK, Good
<1>11. ASSUME NEW k \in Panels, Toggle(k)
       PROVE  CatInv'
  BY <1>11 DEF Toggle, TypeOK, Good
<1>12. CASE UNCHANGED vars
  BY <1>12 DEF vars, TypeOK, Good
<1>13. QED
  BY <1>1, <1>2, <1>3, <1>4, <1>5, <1>6, <1>7, <1>8, <1>9, <1>10, <1>11, <1>12 DEF Next

\* The choices stay within the types the page works on; the prices of a search
\* that has started again lie on the slider.
THEOREM TypeCorrect == Spec => []TypeOK
<1>1. Init => CatInv
  BY InitGood
<1>2. CatInv /\ [Next]_vars => CatInv'
  BY NextGood
<1>3. CatInv => TypeOK
  BY DEF CatInv
<1>4. QED
  BY <1>1, <1>2, <1>3, PTL DEF Spec

\* No product is ever listed twice, though stages append all products to the list.
THEOREM ShownOnceCorrect == Spec => []ShownOnce
<1>1. Init => CatInv
  BY InitGood
<1>2. CatInv /\ [Next]_vars => CatInv'
  BY NextGood
<1>3. CatInv => ShownOnce
  BY DEF CatInv, Good, ShownOnce
<1>4. QED
  BY <1>1, <1>2, <1>3, PTL DEF Spec

-----------------------------------------------------------------------------
(* What Submit leaves. *)

\* The records Submit passes through.
LEMMA SubmitStages ==
    ASSUME CatInv, Submit
    PROVE  \E s \in SortStage(filter) :
             LET c == ColorStage(s)
                 l == StartStage(c)
                 h == EndStage(l)
             IN  Good(s) /\ Good(c) /\ Good(l) /\ Good(h) /\ filter' = FabricStage(h)
<1>1. PICK s \in SortStage(filter) :
        filter' = FabricStage(EndStage(StartStage(ColorStage(s))))
  BY DEF Submit
<1>2. Good(s)
  BY SortGood DEF CatInv
<1>3. Good(ColorStage(s)) /\ Good(StartStage(ColorStage(s)))
      /\ Good(EndStage(StartStage(ColorStage(s))))
  BY <1>2, StagesGood
<1>4. QED
  BY <1>1, <1>2, <1>3

-----------------------------------------------------------------------------
(* The order. *)

\* The list is in the order of the box f leaves ticked.
InItsOrder(f) == InOrder(f.sort, f.shown)

\* With no box ticked any list is in order.
LEMMA NoneInOrder ==
    ASSUME NEW l
    PROVE  InOrder("none", l)
BY DEF InOrder

\* The sort stage establishes the order,
LEMMA SortInOrder ==
    ASSUME NEW f, Good(f), NEW g \in SortStage(f)
    PROVE  InItsOrder(g)
BY SortCases, NoneInOrder DEF Good, InItsOrder, Asks

\* narrowing keeps it,
LEMMA NarrowsInOrder ==
    ASSUME NEW f, Good(f), InItsOrder(f), NEW g, NEW S, Narrows(f, g, S)
    PROVE  InItsOrder(g)
BY FilteredOrder, FilterShown DEF Good, InItsOrder, Narrows, Asks

\* and starting again clears the box.
LEMMA RestartsInOrder ==
    ASSUME NEW f, NEW g, NEW S, NEW c, NEW b, NEW x, NEW y, Restarts(f, g, S, c, b, x, y)
    PROVE  InItsOrder(g)
BY NoneInOrder DEF InItsOrder, Restarts, Asks

\* The stages after the sort keep the order or clear the box.
LEMMA StagesInOrder ==
    ASSUME NEW f, Good(f), InItsOrder(f)
    PROVE  /\ InItsOrder(ColorStage(f)) /\ InItsOrder(StartStage(f))
           /\ InItsOrder(EndStage(f)) /\ InItsOrder(FabricStage(f))
<1>1. f \in Filter
  BY DEF Good
<1>2. InItsOrder(ColorStage(f))
  BY <1>1, ColorCases, NarrowsInOrder, RestartsInOrder
<1>3. InItsOrder(StartStage(f))
  BY <1>1, StartCases, NarrowsInOrder, RestartsInOrder
<1>4. InItsOrder(EndStage(f))
  BY <1>1, EndCases, NarrowsInOrder, RestartsInOrder
<1>5. InItsOrder(FabricStage(f))
  BY <1>1, FabricCases, NarrowsInOrder, RestartsInOrder
<1>6. QED
  BY <1>2, <1>3, <1>4, <1>5

\* Submit, stage by stage.
LEMMA SubmitInOrder ==
    ASSUME CatInv, Submit
    PROVE  InOrder(filter'.sort, filter'.shown)
<1>1. PICK s \in SortStage(filter) :
        LET c == ColorStage(s)
            l == StartStage(c)
            h == EndStage(l)
        IN  Good(s) /\ Good(c) /\ Good(l) /\ Good(h) /\ filter' = FabricStage(h)
  BY SubmitStages
<1>2. InItsOrder(s)
  BY SortInOrder DEF CatInv
<1>3. InItsOrder(ColorStage(s))
  BY <1>1, <1>2, StagesInOrder
<1>4. InItsOrder(StartStage(ColorStage(s)))
  BY <1>1, <1>3, StagesInOrder
<1>5. InItsOrder(EndStage(StartStage(ColorStage(s))))
  BY <1>1, <1>4, StagesInOrder
<1>6. InItsOrder(filter')
  BY <1>1, <1>5, StagesInOrder
<1>7. QED
  BY <1>6 DEF InItsOrder

\* After Submit the list is in the order of the box that is still ticked.
THEOREM SubmitSortedCorrect == Spec => SubmitSorted
<1>1. Init => CatInv
  BY InitGood
<1>2. CatInv /\ [Next]_vars => CatInv'
  BY NextGood
<1>3. CatInv /\ [Next]_vars => [Submit => InOrder(filter'.sort, filter'.shown)]_vars
  BY SubmitInOrder
<1>4. QED
  BY <1>1, <1>2, <1>3, PTL DEF Spec, SubmitSorted

-----------------------------------------------------------------------------
(* What is shown meets the choices. *)

\* A chosen colour leaves nothing; the other choices leave what meets them.
ColorMet(f) == f.color # NoColor => f.shown = <<>>

StartMet(f) == f.start # Low => \A p \in Range(f.shown) : f.start <= Rate[p]

EndMet(f) ==
    f.end # High /\ f.start <= f.end => \A p \in Range(f.shown) : Rate[p] <= f.end

FabricMet(f) == f.fabric # NoFabric => \A p \in Range(f.shown) : Fabric[p] = f.fabric

\* Narrowing keeps what the list meets already.
LEMMA NarrowsMeets ==
    ASSUME NEW f, Good(f), ColorMet(f), NEW g, NEW S, Narrows(f, g, S)
    PROVE  /\ g.start = f.start /\ g.end = f.end /\ g.fabric = f.fabric
           /\ Range(g.shown) \subseteq S
           /\ ColorMet(g)
           /\ StartMet(f) => StartMet(g)
           /\ EndMet(f) => EndMet(g)
<1>1. /\ g.color = f.color /\ g.fabric = f.fabric /\ g.start = f.start /\ g.end = f.end
      /\ f.shown # <<>>
  BY DEF Narrows, Asks
<1>2. Range(g.shown) = Range(f.shown) \cap S
  BY NarrowsGood
<1>3. ColorMet(g)
  BY <1>1 DEF ColorMet
<1>4. StartMet(f) => StartMet(g)
  BY <1>1, <1>2 DEF StartMet
<1>5. EndMet(f) => EndMet(g)
  BY <1>1, <1>2 DEF EndMet
<1>6. QED
  BY <1>1, <1>2, <1>3, <1>4, <1>5

\* Starting again, the list meets the choices left but for that of the stage.
LEMMA RestartsMeets ==
    ASSUME NEW f, NEW g, NEW S, NEW b, NEW x, NEW y, Restarts(f, g, S, NoColor, b, x, y)
    PROVE  /\ g.start = x /\ g.end = y /\ g.fabric = b
           /\ Range(g.shown) \subseteq S
           /\ ColorMet(g)
BY RestartsGood DEF Restarts, Asks, ColorMet

\* The colour stage meets the colour,
LEMMA ColorMeets ==
    ASSUME NEW f, Good(f)
    PROVE  ColorMet(ColorStage(f))
<1> DEFINE g == ColorStage(f)
<1>1. Good(g) /\ f \in Filter
  BY StagesGood DEF Good
<1>2. g.color = NoColor \/ Range(g.shown) = {}
  BY <1>1, ColorCases, NarrowsGood, RestartsGood
<1>3. g.shown \in Seq(Products)
  BY <1>1, FilterShown DEF Good
<1>4. QED
  BY <1>2, <1>3, EmptyRange DEF ColorMet

\* the next one the lower price as well,
LEMMA StartMeets ==
    ASSUME NEW f, Good(f), ColorMet(f)
    PROVE  ColorMet(StartStage(f)) /\ StartMet(StartStage(f))
<1> DEFINE g == StartStage(f)
           S == {p \in Products : Rate[p] >= f.start}
<1>1. f \in Filter
  BY DEF Good
<1>2. \A p \in S : f.start <= Rate[p]
  BY <1>1, CatalogueAssumption DEF Filter, Price
<1>3. CASE f.start = Low /\ g = f
  BY <1>3 DEF StartMet
<1>4. CASE f.start # Low /\ Narrows(f, g, S)
  BY <1>2, <1>4, NarrowsMeets DEF StartMet
<1>5. CASE f.start # Low /\ Restarts(f, g, S, NoColor, NoFabric, f.start, High)
  BY <1>2, <1>5, RestartsMeets DEF StartMet
<1>6. QED
  BY <1>1, <1>3, <1>4, <1>5, StartCases

\* the next one the upper price, unless the ends have passed each other,
LEMMA EndMeets ==
    ASSUME NEW f, Good(f), ColorMet(f), StartMet(f)
    PROVE  ColorMet(EndStage(f)) /\ StartMet(EndStage(f)) /\ EndMet(EndStage(f))
<1> DEFINE g == EndStage(f)
           S == {p \in Products : Rate[p] <= f.end}
           T == {p \in Products : Rate[p] <= Low}
<1>1. f \in Filter /\ f.start \in Nat /\ f.end \in Nat /\ Low \in Nat
  BY CatalogueAssumption, CatalogueGood DEF Good, Filter, Price
<1>2. CASE f.end = High /\ g = f
  BY <1>2 DEF EndMet
<1>3. CASE f.end # High /\ Narrows(f, g, S)
  BY <1>3, NarrowsMeets DEF EndMet
<1>4. CASE f.end # High /\ Restarts(f, g, T, NoColor, NoFabric, Low, f.end)
  <2>1. /\ Range(g.shown) \subseteq T /\ ColorMet(g)
        /\ g.start = Low /\ g.end = f.end
    BY <1>4, RestartsMeets
  <2>2. \A p \in T : Low <= f.end => Rate[p] <= f.end
    BY <1>1, CatalogueAssumption
  <2>3. QED
    BY <2>1, <2>2 DEF StartMet, EndMet
<1>5. QED
  BY <1>1, <1>2, <1>3, <1>4, EndCases

\* and the last one the fabric.
LEMMA FabricMeets ==
    ASSUME NEW f, Good(f), ColorMet(f), StartMet(f), EndMet(f)
    PROVE  LET g == FabricStage(f)
           IN  ColorMet(g) /\ StartMet(g) /\ EndMet(g) /\ FabricMet(g)
<1> DEFINE g == FabricStage(f)
           S == {p \in Products : Fabric[p] = f.fabric}
<1>1. f \in Filter
  BY DEF Good
<1>2. CASE f.fabric = NoFabric /\ g = f
  BY <1>2 DEF FabricMet
<1>3. CASE f.fabric # NoFabric /\ Narrows(f, g, S)
  BY <1>3, NarrowsMeets DEF FabricMet
<1>4. CASE f.fabric # NoFabric /\ Restarts(f, g, S, NoColor, f.fabric, Low, High)
  BY <1>4, RestartsMeets DEF StartMet, EndMet, FabricMet
<1>5. QED
  BY <1>1, <1>2, <1>3, <1>4, FabricCases

\* What all four stages met, the list after Submit meets.
LEMMA SubmitMeets ==
    ASSUME CatInv, Submit, filter'.start <= filter'.end, NEW p \in Range(filter'.shown)
    PROVE  Meets(p, filter')
<1>1. PICK s \in SortStage(filter) :
        LET c == ColorStage(s)
            l == StartStage(c)
            h == EndStage(l)
        IN  Good(s) /\ Good(c) /\ Good(l) /\ Good(h) /\ filter' = FabricStage(h)
  BY SubmitStages
<1>2. ColorMet(ColorStage(s))
  BY <1>1, ColorMeets
<1>3. ColorMet(StartStage(ColorStage(s))) /\ StartMet(StartStage(ColorStage(s)))
  BY <1>1, <1>2, StartMeets
<1> DEFINE h == EndStage(StartStage(ColorStage(s)))
<1>4. ColorMet(h) /\ StartMet(h) /\ EndMet(h)
  BY <1>1, <1>3, EndMeets
<1>5. ColorMet(filter') /\ StartMet(filter') /\ EndMet(filter') /\ FabricMet(filter')
  BY <1>1, <1>4, FabricMeets
<1>6. filter'.color = NoColor
  <2>1. filter'.shown # <<>>
    BY DEF Range
  <2>2. QED
    BY <1>5, <2>1 DEF ColorMet
<1>7. QED
  BY <1>5, <1>6 DEF Meets, StartMet, EndMet, FabricMet

\* After Submit every product shown meets every choice that is left, whichever
\* stages started again.
THEOREM SubmitSoundCorrect == Spec => SubmitSound
<1>1. Init => CatInv
  BY InitGood
<1>2. CatInv /\ [Next]_vars => CatInv'
  BY NextGood
<1>3. CatInv /\ [Next]_vars =>
        [Submit /\ filter'.start <= filter'.end =>
           \A p \in Range(filter'.shown) : Meets(p, filter')]_vars
  BY SubmitMeets
<1>4. QED
  BY <1>1, <1>2, <1>3, PTL DEF Spec, SubmitSound

-----------------------------------------------------------------------------
(* Nothing that meets the choices is hidden.  D is what Submit looks through, *)
(* o the record it starts from.                                               *)

\* Nothing was shown, and no stage so far had a choice to start again for.
Idle(f, o) == f = o /\ f.shown = <<>> /\ f.sort = "none" /\ f.color = NoColor

\* The prices and the fabric p is looked for by, once their stages have passed.
StartWants(p, f) == f.start = Low \/ f.start <= Rate[p]
FabricWants(p, f) == f.fabric = NoFabric \/ f.fabric = Fabric[p]

\* After each stage: nothing of D that is wanted so far is missing, or no stage
\* had anything to do.  Nothing is claimed of a chosen colour, nor, after the
\* upper price's stage, of a moved upper price.
ColorHides(f, o, D) ==
    f.color = NoColor => Idle(f, o) \/ D \subseteq Range(f.shown)

StartHides(f, o, D) ==
    f.color = NoColor => \/ Idle(f, o) /\ f.start = Low
                         \/ \A p \in D : StartWants(p, f) => p \in Range(f.shown)

EndHides(f, o, D) == f.end = High => StartHides(f, o, D)

FabricHides(f, o, D) ==
    f.color = NoColor /\ f.end = High =>
      \/ Idle(f, o) /\ f.start = Low /\ f.fabric = NoFabric
      \/ \A p \in D : StartWants(p, f) /\ FabricWants(p, f) => p \in Range(f.shown)

\* What was shown, or with nothing shown all products.
LookedThrough(o) == Range(IF o.shown = <<>> THEN Productlist ELSE o.shown)

\* Either way, products of the catalogue.
LEMMA LookedThroughListed ==
    ASSUME NEW o, Good(o)
    PROVE  LookedThrough(o) \subseteq Range(Productlist)
BY DEF LookedThrough, Good

\* The sort stage hides nothing,
LEMMA SortHidesNone ==
    ASSUME NEW o, Good(o), NEW f \in SortStage(o)
    PROVE  ColorHides(f, o, LookedThrough(o))
<1> DEFINE D == LookedThrough(o)
<1>1. o \in Filter /\ o.shown \in Seq(Products)
  BY FilterShown DEF Good
<1>2. CASE o.sort = "none" /\ f = o
  BY <1>2 DEF ColorHides, Idle, LookedThrough
<1>3. ASSUME NEW a \in Arrangements(o.shown), f.shown = a, o.shown # <<>>
      PROVE  D \subseteq Range(f.shown)
  BY <1>1, <1>3, Arranged DEF LookedThrough
<1>4. ASSUME NEW a, Range(a) = Range(Productlist), f.shown = a
      PROVE  D \subseteq Range(f.shown)
  BY <1>4, LookedThroughListed
<1>5. QED
  BY <1>1, <1>2, <1>3, <1>4, SortCases DEF ColorHides, Asks

\* nor does the colour stage without a colour.
LEMMA ColorHidesNone ==
    ASSUME NEW f, Good(f), NEW o, NEW D, ColorHides(f, o, D)
    PROVE  ColorHides(ColorStage(f), o, D)
<1> DEFINE g == ColorStage(f)
<1>1. f \in Filter
  BY DEF Good
<1>2. g = f \/ g.color # NoColor
  BY <1>1, ColorCases DEF Narrows, Restarts, Asks
<1>3. QED
  BY <1>2 DEF ColorHides

\* The lower price's stage hides what is cheaper, and starting again finds all.
LEMMA StartHidesNone ==
    ASSUME NEW f, Good(f), NEW o, NEW D \in SUBSET Range(Productlist), ColorHides(f, o, D)
    PROVE  StartHides(StartStage(f), o, D)
<1> DEFINE g == StartStage(f)
           S == {p \in Products : Rate[p] >= f.start}
<1>1. f \in Filter /\ f.start \in Nat
  BY CatalogueAssumption DEF Good, Filter, Price
<1>2. \A p \in D : f.start <= Rate[p] => p \in S
  BY <1>1, CatalogueGood, CatalogueAssumption
<1>3. CASE f.start = Low /\ g = f
  BY <1>3 DEF ColorHides, StartHides
<1>4. CASE f.start # Low /\ Narrows(f, g, S)
  <2>1. g.color = f.color /\ g.start = f.start /\ f.shown # <<>>
    BY <1>4 DEF Narrows, Asks
  <2>2. Range(g.shown) = Range(f.shown) \cap S
    BY <1>4, NarrowsGood
  <2>3. QED
    BY <1>2, <1>4, <2>1, <2>2 DEF ColorHides, StartHides, Idle, StartWants
<1>5. CASE f.start # Low /\ Restarts(f, g, S, NoColor, NoFabric, f.start, High)
  <2>1. g.start = f.start
    BY <1>5 DEF Restarts, Asks
  <2>2. Range(g.shown) = Range(Productlist) \cap S
    BY <1>5, RestartsGood
  <2>3. QED
    BY <1>2, <1>5, <2>1, <2>2 DEF StartHides, StartWants
<1>6. QED
  BY <1>1, <1>3, <1>4, <1>5, StartCases

\* The upper price's stage does nothing while the price is not moved.
LEMMA EndHidesNone ==
    ASSUME NEW f, Good(f), NEW o, NEW D, StartHides(f, o, D)
    PROVE  EndHides(EndStage(f), o, D)
<1> DEFINE g == EndStage(f)
<1>1. f \in Filter
  BY DEF Good
<1>2. g = f \/ g.end # High
  BY <1>1, EndCases DEF Narrows, Restarts, Asks
<1>3. QED
  BY <1>2 DEF EndHides

\* The fabric's stage hides other fabrics, and starting again finds all.
LEMMA FabricHidesNone ==
    ASSUME NEW f, Good(f), NEW o, NEW D \in SUBSET Range(Productlist), EndHides(f, o, D)
    PROVE  FabricHides(FabricStage(f), o, D)
<1> DEFINE g == FabricStage(f)
           S == {p \in Products : Fabric[p] = f.fabric}
<1>1. f \in Filter
  BY DEF Good
<1>2. \A p \in D : f.fabric = Fabric[p] => p \in S
  BY CatalogueGood
<1>3. CASE f.fabric = NoFabric /\ g = f
  BY <1>3 DEF EndHides, StartHides, FabricHides
<1>4. CASE f.fabric # NoFabric /\ Narrows(f, g, S)
  <2>1. /\ g.color = f.color /\ g.start = f.start /\ g.end = f.end /\ g.fabric = f.fabric
        /\ f.shown # <<>>
    BY <1>4 DEF Narrows, Asks
  <2>2. Range(g.shown) = Range(f.shown) \cap S
    BY <1>4, NarrowsGood
  <2>3. ASSUME f.color = NoColor, f.end = High, NEW p \in D, StartWants(p, f), FabricWants(p, f)
        PROVE  p \in Range(g.shown)
    <3>1. p \in Range(f.shown)
      BY <2>1, <2>3 DEF EndHides, StartHides, Idle
    <3>2. QED
      BY <1>2, <1>4, <2>2, <2>3, <3>1 DEF FabricWants
  <2>4. QED
    BY <2>1, <2>3 DEF FabricHides, StartWants, FabricWants
<1>5. CASE f.fabric # NoFabric /\ Restarts(f, g, S, NoColor, f.fabric, Low, High)
  <2>1. g.fabric = f.fabric
    BY <1>5 DEF Restarts, Asks
  <2>2. Range(g.shown) = Range(Productlist) \cap S
    BY <1>5, RestartsGood
  <2>3. QED
    BY <1>2, <1>5, <2>1, <2>2 DEF FabricHides, FabricWants
<1>6. QED
  BY <1>1, <1>3, <1>4, <1>5, FabricCases

\* A choice was made, so some stage had something to do.
LEMMA SubmitHidesNone ==
    ASSUME CatInv, Submit, Chosen(filter), filter'.color = NoColor, filter'.end = High,
           NEW p \in LookedThrough(filter), Meets(p, filter')
    PROVE  p \in Range(filter'.shown)
<1> DEFINE D == LookedThrough(filter)
<1>1. PICK s \in SortStage(filter) :
        LET c == ColorStage(s)
            l == StartStage(c)
            h == EndStage(l)
        IN  Good(s) /\ Good(c) /\ Good(l) /\ Good(h) /\ filter' = FabricStage(h)
  BY SubmitStages
<1>2. D \in SUBSET Range(Productlist) /\ Good(filter)
  BY LookedThroughListed DEF CatInv
<1>3. ColorHides(s, filter, D)
  BY <1>2, SortHidesNone
<1> HIDE DEF D
<1>4. ColorHides(ColorStage(s), filter, D)
  BY <1>1, <1>3, ColorHidesNone
<1>5. StartHides(StartStage(ColorStage(s)), filter, D)
  BY <1>1, <1>2, <1>4, StartHidesNone
<1>6. EndHides(EndStage(StartStage(ColorStage(s))), filter, D)
  BY <1>1, <1>5, EndHidesNone
<1>7. FabricHides(filter', filter, D)
  BY <1>1, <1>2, <1>6, FabricHidesNone
<1>8. ~(Idle(filter', filter) /\ filter'.start = Low /\ filter'.fabric = NoFabric)
  BY DEF Idle, Chosen
<1>9. p \in D
  BY DEF D
<1>10. QED
  BY <1>7, <1>8, <1>9 DEF FabricHides, Meets, StartWants, FabricWants

\* Submit hides no product that meets the choices that are left.
THEOREM SubmitCompleteCorrect == Spec => SubmitComplete
<1>1. Init => CatInv
  BY InitGood
<1>2. CatInv /\ [Next]_vars => CatInv'
  BY NextGood
<1>3. CatInv /\ [Next]_vars =>
        [Submit /\ Chosen(filter) /\ filter'.color = NoColor /\ filter'.end = High =>
           \A p \in Range(IF filter.shown = <<>> THEN Productlist ELSE filter.shown) :
              Meets(p, filter') => p \in Range(filter'.shown)]_vars
  BY SubmitHidesNone DEF LookedThrough
<1>4. QED
  BY <1>1, <1>2, <1>3, PTL DEF Spec, SubmitComplete
=============================================================================
