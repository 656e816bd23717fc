--------------------------- MODULE NavigationProofs ---------------------------
(***************************************************************************)
(* Theorems about Navigation, for any bounds.  The invariant Counted adds  *)
(* to the types that there are never more dialogs than flags, and as many  *)
(* while no dialog was lost: every pop of a guard takes back a flag or is  *)
(* followed by a dialog, whichever guard the popped dialog belonged to.    *)
(***************************************************************************)
EXTENDS Navigation, SequenceTheorems, TLAPS

Types ==
    /\ root \in Roots
    /\ nav \in Nav
    /\ isOpenDialog \in [Guards -> BOOLEAN]
    /\ events \in Seq({"none", "some"}) /\ Len(events) <= MaxEvents
    /\ checks \in [Handlers -> 0..MaxChecks]
    /\ settled \in BOOLEAN /\ clean \in BOOLEAN

\* A drawer that is not closed is the home page's, with nothing pushed over it.
DrawerOnHome == nav.drawer # "closed" => nav.pages = 1

Counts ==
    /\ Len(nav.dialogs) <= Flags
    /\ clean => Len(nav.dialogs) = Flags

Counted == Types /\ DrawerOnHome /\ Counts

LEMMA FrontFacts ==
    ASSUME NEW S, NEW s \in Seq(S), s # <<>>
    PROVE  /\ SubSeq(s, 1, Len(s) - 1) \in Seq(S)
           /\ Len(SubSeq(s, 1, Len(s) - 1)) = Len(s) - 1
<1> DEFINE n == Len(s) - 1
<1>1. n \in Nat /\ n \in Int /\ Len(s) = n + 1
  OBVIOUS
<1>2. \A i \in 1..n : s[i] \in S
  OBVIOUS
<1> HIDE DEF n
<1>3. SubSeq(s, 1, n) \in Seq(S) /\ Len(SubSeq(s, 1, n)) = IF 1 <= n THEN n - 1 + 1 ELSE 0
  BY <1>1, <1>2, SubSeqProperties
<1>4. Len(SubSeq(s, 1, n)) = n
  BY <1>1, <1>3
<1> QED BY <1>3, <1>4 DEF n

\* A pop takes a dialog, or a page or the drawer if there is none.
LEMMA PoppedFacts ==
    ASSUME NEW n \in Nav, n.dialogs # <<>> \/ n.pages > 0
    PROVE  /\ Popped(n) \in Nav
           /\ n.dialogs # <<>> =>
                /\ Len(Popped(n).dialogs) = Len(n.dialogs) - 1
                /\ Popped(n).pages = n.pages /\ Popped(n).drawer = n.drawer
           /\ n.dialogs = <<>> => Popped(n).dialogs = <<>>
           /\ (n.drawer # "closed" => n.pages = 1) =>
                (Popped(n).drawer # "closed" => Popped(n).pages = 1)
<1> USE NavigationAssumption DEF Nav, Dialogs
<1>1. CASE n.dialogs # <<>>
  <2> DEFINE s == SubSeq(n.dialogs, 1, Len(n.dialogs) - 1)
  <2>1. Len(n.dialogs) \in Nat \ {0}
    BY <1>1
  <2>2. s \in Seq(Dialogs) /\ Len(s) = Len(n.dialogs) - 1
    BY <1>1, FrontFacts
  <2>3. Popped(n) = [n EXCEPT !.dialogs = s]
    BY <1>1 DEF Popped
  <2> HIDE DEF s
  <2> QED BY <1>1, <2>2, <2>3
<1>2. CASE n.dialogs = <<>> /\ n.drawer = "open"
  <2>1. Popped(n) = [n EXCEPT !.drawer = "closing"]
    BY <1>2 DEF Popped
  <2> QED BY <1>2, <2>1
<1>3. CASE n.dialogs = <<>> /\ n.drawer # "open"
  <2>1. Popped(n) = [n EXCEPT !.pages = n.pages - 1, !.drawer = "closed"]
    BY <1>3 DEF Popped
  <2>2. Popped(n) = [pages |-> n.pages - 1, drawer |-> "closed", dialogs |-> n.dialogs]
    BY <2>1
  <2>3. n.pages - 1 \in 0..MaxPages
    BY <1>3
  <2> QED BY <1>3, <2>2, <2>3
<1> QED BY <1>1, <1>2, <1>3

LEMMA OpenedFacts ==
    ASSUME NEW n \in Nav, NEW d \in Dialogs
    PROVE  /\ Opened(n, d) \in Nav
           /\ Len(Opened(n, d).dialogs) = Len(n.dialogs) + 1
           /\ Opened(n, d).pages = n.pages /\ Opened(n, d).drawer = n.drawer
<1> USE DEF Nav
<1>1. Append(n.dialogs, d) \in Seq(Dialogs) /\ Len(Append(n.dialogs, d)) = Len(n.dialogs) + 1
  OBVIOUS
<1> QED BY <1>1 DEF Opened

\* What a step of a guard keeps of the navigator, and of everything else.
Kept == /\ nav' \in Nav /\ isOpenDialog' \in [Guards -> BOOLEAN]
        /\ DrawerOnHome' /\ Counts'
        /\ clean => nav'.pages = nav.pages /\ nav'.drawer = nav.drawer

Rest == /\ root' \in Roots
        /\ events' \in Seq({"none", "some"}) /\ Len(events') <= MaxEvents
        /\ checks' \in [Handlers -> 0..MaxChecks]
        /\ settled' \in BOOLEAN /\ clean' \in BOOLEAN

\* What a guard's Show does to the invariant.
LEMMA ShowCounts ==
    ASSUME Counted, NEW g \in Guards, NEW d \in Dialogs, Show(g, d), UNCHANGED clean
    PROVE  Kept
<1> USE DEF Counted, Types, Counts, DrawerOnHome, Kept
<1>0. Len(nav.dialogs) \in Nat /\ (nav.dialogs # <<>> <=> Len(nav.dialogs) # 0)
  BY DEF Nav
<1>1. CASE isOpenDialog[g] /\ Throws
  BY <1>1 DEF Show, Flags
<1>2. CASE isOpenDialog[g] /\ ~Throws
  <2>1. nav.dialogs # <<>> \/ nav.pages > 0
    BY <1>2 DEF Throws, Covered, Nav
  <2>2. Popped(nav) \in Nav
    BY <2>1, PoppedFacts
  <2>3. /\ nav' = Opened(Popped(nav), d)
        /\ isOpenDialog' = isOpenDialog
    BY <1>2 DEF Show
  <2>4. /\ nav' \in Nav
        /\ Len(nav'.dialogs) = Len(Popped(nav).dialogs) + 1
        /\ nav'.pages = Popped(nav).pages /\ nav'.drawer = Popped(nav).drawer
    BY <2>2, <2>3, OpenedFacts
  <2>5. Flags' = Flags /\ Flags \in 1..2
    BY <1>2, <2>3 DEF Flags, Guards
  <2>6. CASE nav.dialogs # <<>>
    <3>1. /\ Len(Popped(nav).dialogs) = Len(nav.dialogs) - 1
          /\ Popped(nav).pages = nav.pages /\ Popped(nav).drawer = nav.drawer
      BY <2>1, <2>6, PoppedFacts
    <3> QED BY <1>0, <2>3, <2>4, <2>5, <3>1
  <2>7. CASE nav.dialogs = <<>>
    <3>1. ~clean
      BY <1>0, <2>5, <2>7
    <3>2. Len(Popped(nav).dialogs) = 0
      BY <2>1, <2>7, PoppedFacts
    <3>3. Popped(nav).drawer # "closed" => Popped(nav).pages = 1
      BY <2>1, PoppedFacts
    <3> QED BY <2>3, <2>4, <2>5, <3>1, <3>2, <3>3
  <2> QED BY <2>6, <2>7
<1>3. CASE ~isOpenDialog[g]
  <2>1. /\ nav' = Opened(nav, d)
        /\ isOpenDialog' = [isOpenDialog EXCEPT ![g] = TRUE]
    BY <1>3 DEF Show
  <2>2. /\ nav' \in Nav
        /\ Len(nav'.dialogs) = Len(nav.dialogs) + 1
        /\ nav'.pages = nav.pages /\ nav'.drawer = nav.drawer
    BY <2>1, OpenedFacts
  <2>3. Flags' = Flags + 1 /\ Flags \in 0..2
    BY <1>3, <2>1 DEF Flags, Guards
  <2> QED BY <1>0, <2>1, <2>2, <2>3
<1> QED BY <1>1, <1>2, <1>3

LEMMA CloseCounts ==
    ASSUME Counted, NEW g \in Guards, Close(g), UNCHANGED clean
    PROVE  Kept
<1> USE DEF Counted, Types, Counts, DrawerOnHome, Kept
<1>0. Len(nav.dialogs) \in Nat /\ (nav.dialogs # <<>> <=> Len(nav.dialogs) # 0)
  BY DEF Nav
<1>1. CASE isOpenDialog[g] /\ Throws
  BY <1>1 DEF Close, Flags
<1>2. CASE isOpenDialog[g] /\ ~Throws
  <2>1. nav.dialogs # <<>> \/ nav.pages > 0
    BY <1>2 DEF Throws, Covered, Nav
  <2>2. /\ nav' = Popped(nav)
        /\ isOpenDialog' = [isOpenDialog EXCEPT ![g] = FALSE]
    BY <1>2 DEF Close
  <2>3. nav' \in Nav
    BY <2>1, <2>2, PoppedFacts
  <2>4. Flags' = Flags - 1 /\ Flags \in 1..2
    BY <1>2, <2>2 DEF Flags, Guards
  <2>5. CASE nav.dialogs # <<>>
    <3>1. /\ Len(nav'.dialogs) = Len(nav.dialogs) - 1
          /\ nav'.pages = nav.pages /\ nav'.drawer = nav.drawer
      BY <2>1, <2>2, <2>5, PoppedFacts
    <3> QED BY <1>0, <2>2, <2>3, <2>4, <3>1
  <2>6. CASE nav.dialogs = <<>>
    <3>1. ~clean
      BY <1>0, <2>4, <2>6
    <3>2. Len(nav'.dialogs) = 0
      BY <2>1, <2>2, <2>6, PoppedFacts
    <3>3. nav'.drawer # "closed" => nav'.pages = 1
      BY <2>1, <2>2, PoppedFacts
    <3> QED BY <2>2, <2>3, <2>4, <3>1, <3>2, <3>3
  <2> QED BY <2>5, <2>6
<1>3. CASE ~isOpenDialog[g]
  <2>1. nav' = nav /\ isOpenDialog' = isOpenDialog
    BY <1>3 DEF Close, Guards
  <2> QED BY <1>0, <2>1 DEF Flags
<1> QED BY <1>1, <1>2, <1>3

LEMMA FreshFacts == Fresh \in Nav /\ Fresh.dialogs = <<>> /\ Fresh.drawer = "closed"
<1>1. <<>> \in Seq(Dialogs)
  OBVIOUS
<1>2. 1 \in 0..MaxPages
  BY NavigationAssumption
<1> QED BY <1>1, <1>2 DEF Fresh, Nav

LEMMA InitCounted == Init => Counted
<1> SUFFICES ASSUME Init PROVE Counted
  OBVIOUS
<1>1. nav \in Nav /\ nav.dialogs = <<>> /\ nav.drawer = "closed"
  BY FreshFacts DEF Init
<1>2. FirstCheck \in [Handlers -> 0..MaxChecks]
  BY NavigationAssumption DEF FirstCheck, Handlers
<1>3. Flags = 0 /\ AllShut \in [Guards -> BOOLEAN]
  BY DEF Init, Flags, AllShut, Guards
<1>4. <<>> \in Seq({"none", "some"}) /\ Len(<<>>) = 0 /\ 0 <= MaxEvents
  BY NavigationAssumption
<1>5. Types
  BY <1>1, <1>2, <1>3, <1>4 DEF Init, Types, Roots
<1>6. DrawerOnHome /\ Counts
  BY <1>1, <1>3, <1>4 DEF DrawerOnHome, Counts
<1> QED BY <1>5, <1>6 DEF Counted

\* The checks a handler starts or ends.
LEMMA AwaitTyped ==
    ASSUME Types, NEW h \in Handlers, Await(h)
    PROVE  checks' \in [Handlers -> 0..MaxChecks]
BY NavigationAssumption DEF Types, Await

LEMMA EndedTyped ==
    ASSUME Types, NEW h \in Handlers, checks[h] > 0, Ended(h)
    PROVE  checks' \in [Handlers -> 0..MaxChecks]
BY NavigationAssumption DEF Types, Ended

LEMMA GuardCounted ==
    ASSUME Counted, GuardStep
    PROVE  /\ Counted'
           /\ clean => nav'.pages = nav.pages /\ nav'.drawer = nav.drawer
<1> USE DEF Counted
<1>a. {"main", "page"} \subseteq Guards /\ {"connection", "vpn", "page"} \subseteq Dialogs
  BY DEF Guards, Dialogs
<1>b. ASSUME UNCHANGED <<nav, isOpenDialog, clean>>
      PROVE  Kept
  BY <1>b DEF Types, DrawerOnHome, Counts, Flags, Kept
<1> SUFFICES Kept /\ Rest
  BY DEF Types, Rest, Kept
<1>1. CASE CallInternet
  <2> USE <1>1 DEF CallInternet
  <2>1. events' \in Seq({"none", "some"}) /\ Len(events') <= MaxEvents
    BY NavigationAssumption DEF Types
  <2>2. CASE Head(events) = "none"
    <3>1. Show("main", "connection") /\ UNCHANGED <<checks, root, settled, clean>>
      BY <2>2
    <3> QED BY <1>a, <2>1, <3>1, ShowCounts DEF Rest, Types
  <2>3. CASE Head(events) # "none"
    <3>1. Await("listen") /\ UNCHANGED <<nav, isOpenDialog, root, settled, clean>>
      BY <2>3
    <3>2. checks' \in [Handlers -> 0..MaxChecks]
      BY <3>1, AwaitTyped DEF Handlers
    <3> QED BY <1>b, <2>1, <3>1, <3>2 DEF Rest, Types
  <2> QED BY <2>2, <2>3
<1>2. ASSUME NEW h \in Handlers, NEW bad \in BOOLEAN, Resume(h, bad)
      PROVE  /\ checks[h] > 0 /\ UNCHANGED <<root, events, settled, clean>>
             /\ checks' \in [Handlers -> 0..MaxChecks] => Rest
  BY <1>2 DEF Resume, Rest, Types
<1>3. ASSUME NEW bad \in BOOLEAN, Listened(bad)
      PROVE  Kept /\ Rest
  <2>1. checks["listen"] > 0 /\ UNCHANGED clean
        /\ (checks' \in [Handlers -> 0..MaxChecks] => Rest)
    BY <1>3, <1>2 DEF Listened, Handlers
  <2>2. Rest
    BY <1>3, <2>1, EndedTyped DEF Listened, Handlers
  <2>3. CASE bad
    BY <1>3, <1>a, <2>1, <2>2, <2>3, ShowCounts DEF Listened
  <2>4. CASE ~bad
    BY <1>3, <1>b, <2>1, <2>2, <2>4 DEF Listened
  <2> QED BY <2>3, <2>4
<1>4. ASSUME NEW bad \in BOOLEAN, CheckVpn(bad)
      PROVE  Kept /\ Rest
  <2>1. checks["vpn"] > 0 /\ UNCHANGED clean
        /\ (checks' \in [Handlers -> 0..MaxChecks] => Rest)
    BY <1>4, <1>2 DEF CheckVpn, Handlers
  <2>2. Rest
    BY <1>4, <2>1, EndedTyped DEF CheckVpn, Handlers
  <2>3. CASE bad
    BY <1>4, <1>a, <2>1, <2>2, <2>3, ShowCounts DEF CheckVpn
  <2>4. CASE ~bad
    BY <1>4, <1>a, <2>1, <2>2, <2>4, CloseCounts DEF CheckVpn
  <2> QED BY <2>3, <2>4
<1>5. ASSUME NEW bad \in BOOLEAN, CheckInternet(bad)
      PROVE  Kept /\ Rest
  <2>1. checks["internet"] > 0 /\ UNCHANGED clean
        /\ (checks' \in [Handlers -> 0..MaxChecks] => Rest)
    BY <1>5, <1>2 DEF CheckInternet, Handlers
  <2>3. CASE bad
    <3>1. Rest
      BY <1>5, <2>1, <2>3, EndedTyped DEF CheckInternet, Handlers
    <3> QED BY <1>5, <1>a, <2>1, <2>3, <3>1, ShowCounts DEF CheckInternet
  <2>4. CASE ~bad
    <3>1. /\ checks["vpn"] < MaxChecks
          /\ checks' = [checks EXCEPT !["internet"] = @ - 1, !["vpn"] = @ + 1]
          /\ UNCHANGED <<nav, isOpenDialog>>
      BY <1>5, <2>4 DEF CheckInternet
    <3>2. checks' \in [Handlers -> 0..MaxChecks]
      BY <2>1, <3>1, NavigationAssumption DEF Types, Handlers
    <3> QED BY <1>b, <2>1, <3>1, <3>2
  <2> QED BY <2>3, <2>4
<1>6. ASSUME NEW bad \in BOOLEAN, CheckConnection(bad)
      PROVE  Kept /\ Rest
  <2>1. checks["page"] > 0 /\ UNCHANGED clean
        /\ (checks' \in [Handlers -> 0..MaxChecks] => Rest)
    BY <1>6, <1>2 DEF CheckConnection, Handlers
  <2>2. Rest
    BY <1>6, <2>1, EndedTyped DEF CheckConnection, Handlers
  <2>3. CASE bad /\ nav.pages > 0
    BY <1>6, <1>a, <2>1, <2>2, <2>3, ShowCounts DEF CheckConnection
  <2>4. CASE ~(bad /\ nav.pages > 0)
    BY <1>6, <1>b, <2>1, <2>2, <2>4 DEF CheckConnection
  <2> QED BY <2>3, <2>4
<1>7. ASSUME NEW h \in Handlers, Answer(h)
      PROVE  Kept /\ Rest
  <2> PICK bad \in BOOLEAN :
        CASE h = "listen" -> Listened(bad)
          [] h = "vpn" -> CheckVpn(bad)
          [] h = "internet" -> CheckInternet(bad)
          [] h = "page" -> CheckConnection(bad)
    BY <1>7 DEF Answer
  <2> QED BY <1>3, <1>4, <1>5, <1>6 DEF Handlers
<1> QED BY <1>1, <1>7 DEF GuardStep

LEMMA StepCounted == Counted /\ [Next]_vars => Counted'
<1> SUFFICES ASSUME Counted, [Next]_vars PROVE Counted'
  OBVIOUS
<1>a. Len(nav.dialogs) \in Nat /\ (Covered <=> Len(nav.dialogs) # 0)
  BY DEF Counted, Types, Nav, Covered
<1>b. ASSUME UNCHANGED <<root, isOpenDialog, checks, settled, clean>>,
             nav' \in Nav, nav'.dialogs = nav.dialogs, DrawerOnHome',
             events' \in Seq({"none", "some"}), Len(events') <= MaxEvents
      PROVE  Counted'
  BY <1>b DEF Counted, Types, Counts, Flags
<1>c. Len(events) <= MaxEvents /\ events \in Seq({"none", "some"})
  BY DEF Counted, Types
<1>1. CASE Push
  <2>1. nav' = [nav EXCEPT !.pages = nav.pages + 1] /\ nav.pages + 1 \in 0..MaxPages
        /\ nav.drawer = "closed"
    BY <1>1, NavigationAssumption DEF Push, OnPage, Counted, Types, Nav
  <2>2. nav' \in Nav /\ nav'.dialogs = nav.dialogs /\ nav'.drawer = "closed"
    BY <2>1 DEF Counted, Types, Nav
  <2> QED BY <1>1, <1>b, <1>c, <2>2 DEF Push, DrawerOnHome
<1>2. ASSUME NEW r \in Roots, Replace(r) PROVE Counted'
  <2>1. nav' \in Nav /\ nav'.dialogs = <<>> /\ nav'.drawer = "closed"
    BY <1>2, FreshFacts DEF Replace
  <2>2. isOpenDialog' \in [Guards -> BOOLEAN]
        /\ isOpenDialog'["main"] = isOpenDialog["main"] /\ ~isOpenDialog'["page"]
    BY <1>2 DEF Replace, Counted, Types, Guards
  <2>3. Len(nav'.dialogs) = 0
    BY <2>1
  <2>4. Counts'
    <3>1. Flags' = IF isOpenDialog["main"] THEN 1 ELSE 0
      BY <2>2 DEF Flags
    <3>2. clean' => ~isOpenDialog["main"]
      BY <1>2 DEF Replace
    <3> QED BY <2>3, <3>1, <3>2 DEF Counts
  <2>5. checks' \in [Handlers -> 0..MaxChecks]
    <3>1. checks' = [checks EXCEPT !["page"] = 1] /\ 1 \in 0..MaxChecks
      BY <1>2, NavigationAssumption DEF Replace
    <3>2. checks \in [Handlers -> 0..MaxChecks]
      BY DEF Counted, Types
    <3> QED BY <3>1, <3>2
  <2>6. Types'
    BY <1>2, <2>1, <2>2, <2>5 DEF Replace, Counted, Types
  <2> QED BY <2>1, <2>4, <2>6 DEF Counted, DrawerOnHome
<1>3. CASE Back
  <2>1. nav.dialogs # <<>> \/ nav.pages > 0
    BY <1>3 DEF Back, Covered, Counted, Types, Nav, DrawerOnHome
  <2>2. nav' \in Nav /\ DrawerOnHome'
    BY <1>3, <2>1, PoppedFacts DEF Back, Counted, Types, DrawerOnHome
  <2>3. Flags' = Flags /\ Flags \in 0..2
    BY <1>3 DEF Back, Flags
  <2>4. Counts'
    <3>1. CASE Covered
      <4>1. Len(nav'.dialogs) = Len(nav.dialogs) - 1 /\ ~clean'
        BY <1>3, <2>1, <3>1, PoppedFacts DEF Back, Covered, Counted, Types
      <4> QED BY <1>a, <2>3, <4>1 DEF Counted, Counts
    <3>2. CASE ~Covered
      <4>1. nav'.dialogs = nav.dialogs /\ clean' = clean
        BY <1>3, <2>1, <3>2, PoppedFacts DEF Back, Covered, Counted, Types
      <4> QED BY <1>a, <2>3, <4>1 DEF Counted, Counts
    <3> QED BY <3>1, <3>2
  <2> QED BY <1>3, <2>2, <2>4 DEF Back, Counted, Types
<1>4. CASE Relaunch
  <2>1. nav' \in Nav /\ nav'.dialogs = <<>> /\ nav'.drawer = "closed"
    BY <1>4, FreshFacts DEF Relaunch
  <2>2. FirstCheck \in [Handlers -> 0..MaxChecks]
    BY NavigationAssumption DEF FirstCheck, Handlers
  <2>3. Flags' = 0 /\ AllShut \in [Guards -> BOOLEAN] /\ Len(nav'.dialogs) = 0
    BY <1>4, <2>1 DEF Relaunch, Flags, AllShut, Guards
  <2>4. events' \in Seq({"none", "some"}) /\ Len(events') <= MaxEvents
    BY <1>4, NavigationAssumption DEF Relaunch
  <2>5. Types'
    BY <1>4, <2>1, <2>2, <2>3, <2>4 DEF Relaunch, Counted, Types, Roots
  <2> QED BY <2>1, <2>3, <2>5 DEF Counted, Counts, DrawerOnHome
<1>5. CASE OpenDrawer
  <2>1. nav' \in Nav /\ nav'.dialogs = nav.dialogs /\ nav'.pages = 1
    BY <1>5 DEF OpenDrawer, Counted, Types, Nav
  <2> QED BY <1>5, <1>b, <1>c, <2>1 DEF OpenDrawer, DrawerOnHome
<1>6. CASE DrawerCloses
  <2>1. nav' \in Nav /\ nav'.dialogs = nav.dialogs /\ nav'.drawer = "closed"
    BY <1>6 DEF DrawerCloses, Counted, Types, Nav
  <2> QED BY <1>6, <1>b, <1>c, <2>1 DEF DrawerCloses, DrawerOnHome
<1>7. CASE OnSelectItem
  <2>1. nav.dialogs = <<>> /\ nav.pages > 0
    BY <1>7 DEF OnSelectItem, Covered, Counted, Types, Nav, DrawerOnHome
  <2>2. nav' \in Nav /\ nav'.dialogs = nav.dialogs /\ DrawerOnHome'
    BY <1>7, <2>1, PoppedFacts DEF OnSelectItem, Counted, Types, DrawerOnHome
  <2> QED BY <1>7, <1>b, <1>c, <2>2 DEF OnSelectItem
<1>8. ASSUME NEW e \in {"none", "some"}, Report(e) PROVE Counted'
  <2>1. events' \in Seq({"none", "some"}) /\ Len(events') <= MaxEvents
    BY <1>8, <1>c, NavigationAssumption DEF Report
  <2> QED BY <1>8, <1>b, <2>1 DEF Report, Counted, Types, DrawerOnHome
<1>9. CASE Settle
  BY <1>9 DEF Settle, Counted, Types, DrawerOnHome, Counts, Flags
<1>10. CASE Retry
  <2>1. PICK h \in Handlers : Await(h)
    <3>1. Top \in Dialogs
      BY <1>10, <1>a DEF Retry, Top, Covered, Counted, Types, Nav
    <3> QED BY <1>10, <3>1 DEF Retry, Dialogs, Handlers
  <2>2. checks' \in [Handlers -> 0..MaxChecks]
    BY <2>1, AwaitTyped DEF Counted
  <2> QED BY <1>10, <2>2 DEF Retry, Counted, Types, DrawerOnHome, Counts, Flags
<1>11. CASE GuardStep
  BY <1>11, GuardCounted
<1>12. CASE UNCHANGED vars
  BY <1>12 DEF vars, Counted, Types, DrawerOnHome, Counts, Flags
<1> QED BY <1>1, <1>2, <1>3, <1>4, <1>5, <1>6, <1>7, <1>8, <1>9, <1>10, <1>11, <1>12 DEF Next

LEMMA AlwaysCounted == Spec => []Counted
BY InitCounted, StepCounted, PTL DEF Spec

\* Every reachable state is typed, and there are never more than two dialogs.
THEOREM TypeCorrect == Spec => []TypeOK
<1>1. Counted => TypeOK
  <2> SUFFICES ASSUME Counted PROVE TypeOK
    OBVIOUS
  <2>1. Len(nav.dialogs) \in Nat /\ Flags \in 0..2
    BY DEF Counted, Types, Nav, Flags
  <2> QED BY <2>1 DEF Counted, Types, Counts, TypeOK
<1> QED BY <1>1, AlwaysCounted, PTL

\* As many dialogs as flags, while none was lost behind a guard's back.
THEOREM CountCorrect == Spec => []DialogsCounted
<1>1. Counted => DialogsCounted
  BY DEF Counted, Counts, DialogsCounted
<1> QED BY <1>1, AlwaysCounted, PTL

\* Then no guard ever pops a page or the drawer.
THEOREM PagesKept == Spec => GuardsKeepPages
<1>1. Counted /\ [Next]_vars =>
        [GuardStep /\ clean => nav'.pages = nav.pages /\ nav'.drawer = nav.drawer]_vars
  BY GuardCounted
<1> QED BY <1>1, AlwaysCounted, PTL DEF Spec, GuardsKeepPages

\* No dialog of a sequence is the root page's.
NonePage(s) == \A i \in 1..Len(s) : s[i] # "page"

LEMMA NonePagePopped ==
    ASSUME NEW n \in Nav, NonePage(n.dialogs)
    PROVE  NonePage(Popped(n).dialogs)
<1>1. CASE n.dialogs # <<>>
  <2> DEFINE s == n.dialogs
             m == Len(n.dialogs) - 1
  <2>1. s \in Seq(Dialogs) /\ m \in Nat /\ Len(s) = m + 1
    BY <1>1 DEF Nav
  <2>2. Popped(n).dialogs = SubSeq(s, 1, m)
    BY <1>1 DEF Popped, Nav
  <2>3. NonePage(s)
    OBVIOUS
  <2> HIDE DEF s, m
  <2>4. \A i \in 1..m : SubSeq(s, 1, m)[i] = s[i]
    BY <2>1
  <2>5. Len(SubSeq(s, 1, m)) = m
    BY <2>1
  <2> QED BY <2>1, <2>2, <2>3, <2>4, <2>5 DEF NonePage
<1>2. CASE n.dialogs = <<>>
  <2>1. Popped(n).dialogs = n.dialogs
    BY <1>2 DEF Popped, Nav
  <2> QED BY <2>1
<1> QED BY <1>1, <1>2

LEMMA NonePageOpened ==
    ASSUME NEW n \in Nav, NEW d \in Dialogs, d # "page", NonePage(n.dialogs)
    PROVE  NonePage(Opened(n, d).dialogs)
<1> DEFINE s == n.dialogs
<1>1. s \in Seq(Dialogs) /\ Opened(n, d).dialogs = Append(s, d) /\ NonePage(s)
  BY DEF Nav, Opened
<1> HIDE DEF s
<1> QED BY <1>1 DEF NonePage

\* A step of a guard that leaves the root page's flag down.
LEMMA GuardOwned ==
    ASSUME Counted, ~isOpenDialog["page"], NonePage(nav.dialogs), GuardStep,
           ~isOpenDialog'["page"]
    PROVE  NonePage(nav'.dialogs)
<1> USE DEF Counted, Types
<1>1. ASSUME NEW d \in {"connection", "vpn"}, Show("main", d)
      PROVE  NonePage(nav'.dialogs)
  <2>1. CASE isOpenDialog["main"] /\ Throws
    BY <1>1, <2>1 DEF Show
  <2>2. CASE isOpenDialog["main"] /\ ~Throws
    <3>1. nav' = Opened(Popped(nav), d) /\ d \in Dialogs
      BY <1>1, <2>2 DEF Show, Dialogs
    <3>2. Popped(nav) \in Nav
      BY <2>2, PoppedFacts DEF Throws, Covered, Nav
    <3>3. NonePage(Popped(nav).dialogs)
      BY NonePagePopped
    <3> QED BY <3>1, <3>2, <3>3, NonePageOpened
  <2>3. CASE ~isOpenDialog["main"]
    BY <1>1, <2>3, NonePageOpened DEF Show, Dialogs
  <2> QED BY <2>1, <2>2, <2>3
<1>2. ASSUME Close("main") PROVE NonePage(nav'.dialogs)
  BY <1>2, NonePagePopped DEF Close
<1>3. ASSUME Show("page", "page") PROVE NonePage(nav'.dialogs)
  BY <1>3 DEF Show, Guards
<1>4. ASSUME UNCHANGED nav PROVE NonePage(nav'.dialogs)
  BY <1>4
<1>5. CASE CallInternet
  BY <1>1, <1>4, <1>5 DEF CallInternet
<1>6. ASSUME NEW h \in Handlers, Answer(h) PROVE NonePage(nav'.dialogs)
  <2>1. PICK bad \in BOOLEAN : Listened(bad) \/ CheckVpn(bad) \/ CheckInternet(bad) \/ CheckConnection(bad)
    BY <1>6 DEF Answer, Handlers
  <2> QED BY <1>1, <1>2, <1>3, <1>4, <2>1 DEF Listened, CheckVpn, CheckInternet, CheckConnection
<1> QED BY <1>5, <1>6 DEF GuardStep

LEMMA StepOwned == Counted /\ DialogsOwned /\ [Next]_vars => DialogsOwned'
<1> SUFFICES ASSUME Counted, DialogsOwned, [Next]_vars, ~isOpenDialog'["page"]
             PROVE  NonePage(nav'.dialogs)
  BY DEF DialogsOwned, NonePage
<1>1. ~isOpenDialog["page"] => NonePage(nav.dialogs)
  BY DEF DialogsOwned, NonePage
<1>2. ASSUME nav'.dialogs = nav.dialogs, UNCHANGED isOpenDialog
      PROVE  NonePage(nav'.dialogs)
  BY <1>1, <1>2
<1>3. ASSUME nav' = Popped(nav), UNCHANGED isOpenDialog
      PROVE  NonePage(nav'.dialogs)
  BY <1>1, <1>3, NonePagePopped DEF Counted, Types
<1>4. ASSUME nav' = Fresh PROVE NonePage(nav'.dialogs)
  <2>1. nav'.dialogs = <<>>
    BY <1>4, FreshFacts
  <2> QED BY <2>1 DEF NonePage
<1>5. CASE Push \/ OpenDrawer \/ DrawerCloses
  <2>1. nav'.dialogs = nav.dialogs
    BY <1>5 DEF Push, OpenDrawer, DrawerCloses, Counted, Types, Nav
  <2> QED BY <1>2, <1>5, <2>1 DEF Push, OpenDrawer, DrawerCloses
<1>6. CASE \E r \in Roots : Replace(r)
  BY <1>4, <1>6 DEF Replace
<1>7. CASE Relaunch
  BY <1>4, <1>7 DEF Relaunch
<1>8. CASE Back \/ OnSelectItem
  BY <1>3, <1>8 DEF Back, OnSelectItem
<1>9. CASE Settle \/ Retry \/ \E e \in {"none", "some"} : Report(e)
  BY <1>2, <1>9 DEF Settle, Retry, Report
<1>10. CASE GuardStep
  <2>1. CASE isOpenDialog["page"]
    <3>1. isOpenDialog'["page"]
      <4>1. ASSUME NEW d \in Dialogs, NEW g \in Guards, Show(g, d) \/ Close("main")
            PROVE  isOpenDialog'["page"]
        BY <2>1, <4>1 DEF Show, Close, Guards, Counted, Types
      <4>2. CASE CallInternet
        BY <2>1, <4>1, <4>2 DEF CallInternet, Dialogs, Guards
      <4>3. ASSUME NEW h \in Handlers, Answer(h) PROVE isOpenDialog'["page"]
        <5>1. PICK bad \in BOOLEAN :
                Listened(bad) \/ CheckVpn(bad) \/ CheckInternet(bad) \/ CheckConnection(bad)
          BY <4>3 DEF Answer, Handlers
        <5> QED BY <2>1, <4>1, <5>1
              DEF Listened, CheckVpn, CheckInternet, CheckConnection, Dialogs, Guards
      <4> QED BY <1>10, <4>2, <4>3 DEF GuardStep
    <3> QED BY <3>1
  <2>2. CASE ~isOpenDialog["page"]
    BY <1>1, <1>10, <2>2, GuardOwned
  <2> QED BY <2>1, <2>2
<1>11. CASE UNCHANGED vars
  BY <1>2, <1>11 DEF vars
<1> QED BY <1>5, <1>6, <1>7, <1>8, <1>9, <1>10, <1>11 DEF Next

\* Without a flag of the root page's guard no dialog is the root page's.
THEOREM OwnersCorrect == Spec => []DialogsOwned
<1>1. Init => DialogsOwned
  BY FreshFacts DEF Init, DialogsOwned
<1> QED BY <1>1, StepOwned, AlwaysCounted, PTL DEF Spec
===============================================================================
