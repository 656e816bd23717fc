----------------------------- MODULE SessionProofs -----------------------------
(***************************************************************************)
(* Theorems about Session, for any accounts, handlers, catalogue and       *)
(* bounds: it is well typed, the badge can be counted, the lists are the   *)
(* buyer's and the catalogue is whole.                                     *)
(***************************************************************************)
EXTENDS Session, SequenceTheorems, TLAPS

PageNames == {"splash", "login", "home"}
Pending == [page : PageNames, alive : BOOLEAN]
Checks == Seq(Pending)

-----------------------------------------------------------------------------
(* Handlers. *)

\* A handler goes on where it was, but for its page.
Stays(s) ==
    /\ UnderWay(s) <=> UnderWay(s)'
    /\ UnderWay(s) => /\ tasks'[s].kind = tasks[s].kind /\ tasks'[s].at = tasks[s].at
                      /\ tasks'[s].n = tasks[s].n /\ tasks'[s].account = tasks[s].account

\* The steps of one handler.
Acts(t) == Step(t) \/ SetAppData(t) \/ \E a \in Accounts : OnSignIn(t, a)

\* The steps that touch no handler but take its page away.
Moves == Skip \/ ToLogin \/ SelectNotification \/ Retry \/ Dismiss \/ Offline
           \/ CheckLoginStatus \/ GetProfileImage

LEMMA UnderWayTask ==
    ASSUME TypeOK, NEW t \in Tasks
    PROVE  UnderWay(t) <=> tasks[t] \in Task
<1>1. Idle \notin Task
  BY DEF Idle, Task
<1>2. QED
  BY <1>1 DEF UnderWay, TypeOK

LEMMA OrphansTyped ==
    ASSUME TypeOK
    PROVE  /\ Orphans \in [Tasks -> Task \cup {Idle}]
           /\ \A t \in Tasks : Orphans[t] # Idle <=> UnderWay(t)
           /\ \A t \in Tasks : UnderWay(t) =>
                /\ Orphans[t] \in Task /\ ~Orphans[t].alive
                /\ Orphans[t].kind = tasks[t].kind /\ Orphans[t].at = tasks[t].at
                /\ Orphans[t].n = tasks[t].n /\ Orphans[t].account = tasks[t].account
<1>1. ASSUME NEW t \in Tasks, UnderWay(t)
      PROVE  /\ Orphans[t] \in Task /\ ~Orphans[t].alive
             /\ Orphans[t].kind = tasks[t].kind /\ Orphans[t].at = tasks[t].at
             /\ Orphans[t].n = tasks[t].n /\ Orphans[t].account = tasks[t].account
  <2>1. tasks[t] \in Task
    BY <1>1, UnderWayTask
  <2>2. Orphans[t] = [tasks[t] EXCEPT !.alive = FALSE]
    BY <1>1 DEF Orphans
  <2>3. QED
    BY <2>1, <2>2 DEF Task
<1>2. ASSUME NEW t \in Tasks, ~UnderWay(t) PROVE Orphans[t] = Idle
  BY <1>2 DEF Orphans
<1>3. Idle \notin Task
  BY DEF Idle, Task
<1>4. Orphans \in [Tasks -> Task \cup {Idle}]
  BY <1>1, <1>2 DEF Orphans
<1>5. QED
  BY <1>1, <1>2, <1>3, <1>4

\* A page is shown: it checks the connection, and all checks before it are of
\* pages that are gone.
LEMMA ShowTyped ==
    ASSUME TypeOK, NEW p \in PageNames, Show(p)
    PROVE  /\ ui' \in [page : PageNames, dialog : BOOLEAN, shimmer : BOOLEAN,
                       islogin : BOOLEAN, registered : BOOLEAN]
           /\ checks' \in Checks /\ Len(checks') = Len(checks) + 1 /\ Len(checks') <= MaxChecks
           /\ ui'.page = p /\ ~ui'.islogin
           /\ \A i \in 1..Len(checks) : /\ checks'[i].page = checks[i].page
                                        /\ ~checks'[i].alive
           /\ checks'[Len(checks) + 1] = [page |-> p, alive |-> TRUE]
<1> DEFINE old == [i \in 1..Len(checks) |-> [checks[i] EXCEPT !.alive = FALSE]]
<1>1. checks \in Checks /\ Len(checks) \in Nat
  BY DEF TypeOK, Checks, Pending, PageNames
<1>2. \A i \in 1..Len(checks) : checks[i] \in Pending
  BY <1>1 DEF Checks
<1>3. \A i \in 1..Len(checks) : /\ old[i] \in Pending
                                /\ old[i].page = checks[i].page /\ ~old[i].alive
  BY <1>2 DEF Pending
<1>4. old \in Checks /\ Len(old) = Len(checks)
  BY <1>1, <1>3 DEF Checks
<1>5. checks' = Append(old, [page |-> p, alive |-> TRUE])
  BY DEF Show
<1> HIDE DEF old
<1>6. [page |-> p, alive |-> TRUE] \in Pending
  BY DEF Pending
<1>7. /\ checks' \in Checks /\ Len(checks') = Len(checks) + 1
      /\ \A i \in 1..Len(checks) : checks'[i] = old[i]
      /\ checks'[Len(checks) + 1] = [page |-> p, alive |-> TRUE]
  BY <1>1, <1>4, <1>5, <1>6 DEF Checks
<1>8. Len(checks') <= MaxChecks
  BY <1>1, <1>7, SessionAssumption DEF Show
<1>9. /\ ui' \in [page : PageNames, dialog : BOOLEAN, shimmer : BOOLEAN,
                   islogin : BOOLEAN, registered : BOOLEAN]
      /\ ui'.page = p /\ ~ui'.islogin
  BY DEF Show, NewPage
<1>10. \A i \in 1..Len(checks) : checks'[i].page = checks[i].page /\ ~checks'[i].alive
  BY <1>3, <1>7
<1>11. QED
  BY <1>7, <1>8, <1>9, <1>10

LEMMA NextSteps ==
    Next <=> Moves \/ Death \/ \E t \in Tasks : Acts(t)
BY DEF Next, Check, Moves, Acts

LEMMA SplitTasks ==
    ASSUME TypeOK, NEW t \in Tasks, NEW x,
           tasks' = [tasks EXCEPT ![t] = x] \/ tasks' = [Orphans EXCEPT ![t] = x]
    PROVE  /\ tasks'[t] = x
           /\ \A s \in Tasks : s # t => Stays(s)
           /\ x \in Task \cup {Idle} => tasks' \in [Tasks -> Task \cup {Idle}]
<1>1. tasks \in [Tasks -> Task \cup {Idle}]
  BY DEF TypeOK
<1>2. tasks'[t] = x /\ (x \in Task \cup {Idle} => tasks' \in [Tasks -> Task \cup {Idle}])
  BY <1>1, OrphansTyped
<1>3. ASSUME NEW s \in Tasks, s # t PROVE tasks'[s] = tasks[s] \/ tasks'[s] = Orphans[s]
  BY <1>1, <1>3, OrphansTyped
<1>4. ASSUME NEW s \in Tasks, s # t PROVE Stays(s)
  BY <1>3, <1>4, OrphansTyped DEF Stays, UnderWay
<1>5. QED
  BY <1>2, <1>4

LEMMA MovesStay ==
    ASSUME TypeOK, Moves
    PROVE  /\ tasks' \in [Tasks -> Task \cup {Idle}]
           /\ \A s \in Tasks : Stays(s)
<1>1. tasks' = tasks \/ tasks' = Orphans
  BY DEF Moves, Skip, ToLogin, SelectNotification, Retry, Dismiss, Offline, CheckLoginStatus,
     GetProfileImage
<1>2. QED
  BY <1>1, OrphansTyped DEF Stays, UnderWay, TypeOK

\* Where handler t is after a step of it.
Ended(t) == tasks'[t] = Idle
Goes(t, at) ==
    /\ tasks'[t].at = at /\ tasks'[t].kind = tasks[t].kind
    /\ tasks'[t].n = tasks[t].n /\ tasks'[t].account = tasks[t].account

LEMMA GoTyped ==
    ASSUME TypeOK, NEW t \in Tasks, UnderWay(t), NEW at,
           at \in {"app", "list", "seen", "user", "device", "data", "signin", "credential",
                   "profile", "create", "id", "lists"},
           Go(t, at)
    PROVE  tasks'[t] \in Task /\ Goes(t, at)
<1>1. tasks[t] \in Task
  BY UnderWayTask
<1>2. tasks'[t] = [tasks[t] EXCEPT !.at = at]
  BY DEF Go, TypeOK
<1>3. QED
  BY <1>1, <1>2 DEF Task, Goes

LEMMA BeginTyped ==
    ASSUME TypeOK, NEW t \in Tasks, NEW kind \in {"boot", "login"},
           NEW at \in {"app", "signin"}, NEW a \in Ids, NEW alive \in BOOLEAN,
           Begin(t, kind, at, a, alive)
    PROVE  /\ tasks'[t] \in Task
           /\ tasks'[t].kind = kind /\ tasks'[t].at = at /\ tasks'[t].n = 1
           /\ tasks'[t].account = a
           /\ \A s \in Tasks : s # t => Stays(s)
           /\ tasks' \in [Tasks -> Task \cup {Idle}]
           /\ mixed' \in BOOLEAN
<1> DEFINE x == [kind |-> kind, at |-> at, n |-> 1, account |-> a, alive |-> alive]
<1>1. x \in Task
  BY SessionAssumption DEF Task
<1>2. tasks' = [tasks EXCEPT ![t] = x]
  BY DEF Begin
<1>3. x.kind = kind /\ x.at = at /\ x.n = 1 /\ x.account = a
  OBVIOUS
<1> HIDE DEF x
<1>4. tasks'[t] = x /\ (\A s \in Tasks : s # t => Stays(s))
      /\ tasks' \in [Tasks -> Task \cup {Idle}]
  BY <1>1, <1>2, SplitTasks
<1>5. mixed' \in BOOLEAN
  BY DEF Begin, TypeOK
<1>6. QED
  BY <1>1, <1>3, <1>4, <1>5

LEMMA EndAtTyped ==
    ASSUME TypeOK, NEW t \in Tasks, NEW p \in PageNames, EndAt(t, p)
    PROVE  /\ tasks' \in [Tasks -> Task \cup {Idle}]
           /\ Ended(t) /\ \A s \in Tasks : s # t => Stays(s)
           /\ Show(p) \/ UNCHANGED <<ui, checks>>
<1>1. tasks' = [tasks EXCEPT ![t] = Idle] \/ tasks' = [Orphans EXCEPT ![t] = Idle]
  BY DEF EndAt, End
<1>2. QED
  BY <1>1, SplitTasks DEF EndAt, Ended

\* Every step of a handler leaves the others where they are.
LEMMA ActsTyped ==
    ASSUME TypeOK, NEW t \in Tasks, Acts(t)
    PROVE  /\ tasks' \in [Tasks -> Task \cup {Idle}]
           /\ \A s \in Tasks : s # t => Stays(s)
<1> DEFINE Goal == /\ tasks' \in [Tasks -> Task \cup {Idle}]
                   /\ \A s \in Tasks : s # t => Stays(s)
<1>0. stored.device \in Ids /\ stored.user \in Ids
  BY DEF TypeOK
<1>1. ASSUME NEW x \in Task \cup {Idle}, tasks' = [tasks EXCEPT ![t] = x] PROVE Goal
  BY <1>1, SplitTasks
<1>2. ASSUME NEW at \in {"app", "list", "seen", "user", "device", "data", "signin",
                      "credential", "profile", "create", "id", "lists"},
             UnderWay(t), Go(t, at)
      PROVE  Goal
  <2>1. tasks'[t] \in Task
    BY <1>2, GoTyped
  <2>2. tasks' = [tasks EXCEPT ![t] = tasks'[t]]
    BY <1>2 DEF Go, TypeOK
  <2>3. QED
    BY <1>1, <2>1, <2>2
<1>3. ASSUME End(t) PROVE Goal
  BY <1>1, <1>3 DEF End
<1>4. ASSUME NEW p \in PageNames, EndAt(t, p) PROVE Goal
  BY <1>4, EndAtTyped
<1>5. ASSUME SetAppData(t) PROVE Goal
  <2>1. Head(checks).alive \in BOOLEAN
    <3>1. checks \in Checks /\ checks # <<>>
      BY <1>5 DEF SetAppData, TypeOK, Checks, Pending, PageNames
    <3>2. Head(checks) \in Pending
      BY <3>1 DEF Checks
    <3>3. QED
      BY <3>2 DEF Pending
  <2>2. Begin(t, "boot", "app", None, Head(checks).alive)
    BY <1>5 DEF SetAppData
  <2>3. QED
    BY <2>1, <2>2, BeginTyped DEF Ids
<1>6. ASSUME NEW a \in Accounts, OnSignIn(t, a) PROVE Goal
  <2>1. Begin(t, "login", "signin", a, TRUE)
    BY <1>6 DEF OnSignIn
  <2>2. QED
    BY <2>1, BeginTyped DEF Ids
<1>7. ASSUME TakePage(t) PROVE Goal
  <2>1. UnderWay(t) /\ tasks[t] \in Task
    BY <1>7, UnderWayTask DEF TakePage, At
  <2>2. tasks[t].n \in 1..TotalPages
    BY <2>1 DEF Task
  <2>3. CASE Turn(t)
    <3> DEFINE x == IF tasks[t].n = TotalPages THEN [tasks[t] EXCEPT !.at = "seen"]
                    ELSE [tasks[t] EXCEPT !.n = tasks[t].n + 1]
    <3>1. tasks[t].n # TotalPages => tasks[t].n + 1 \in 1..TotalPages
      BY <2>2, SessionAssumption
    <3>2. x \in Task
      BY <2>1, <3>1 DEF Task
    <3>3. tasks' = [tasks EXCEPT ![t] = x]
      <4>1. CASE tasks[t].n = TotalPages
        BY <2>3, <4>1 DEF Turn, Go
      <4>2. CASE tasks[t].n # TotalPages
        BY <2>3, <4>2 DEF Turn
      <4>3. QED
        BY <4>1, <4>2
    <3> HIDE DEF x
    <3>4. QED
      BY <1>1, <3>2, <3>3
  <2>4. QED
    BY <1>3, <1>7, <2>3 DEF TakePage
<1>8. ASSUME ReadDeviceId(t) \/ CallCreateProfile(t) PROVE Goal
  <2>1. tasks[t] \in Task
    BY <1>8, UnderWayTask DEF ReadDeviceId, CallCreateProfile, At
  <2>2. PICK at \in {"data", "create"} :
          tasks' = [tasks EXCEPT ![t].at = at, ![t].account = stored.device]
    BY <1>8 DEF ReadDeviceId, CallCreateProfile
  <2> DEFINE x == [tasks[t] EXCEPT !.at = at, !.account = stored.device]
  <2>3. x \in Task
    BY <1>0, <2>1 DEF Task
  <2>4. tasks' = [tasks EXCEPT ![t] = x]
    BY <2>2
  <2>5. QED
    BY <1>1, <2>3, <2>4
<1>9. ASSUME Fail(t) \/ ProfileRefused(t) PROVE Goal
  BY <1>3, <1>9 DEF Fail, ProfileRefused
<1>10. ASSUME CheckLogin(t) \/ SetUserId(t) \/ SaveUserId(t) PROVE Goal
  BY <1>2, <1>10 DEF CheckLogin, SetUserId, SaveUserId, At
<1>11. ASSUME UserData(t) \/ SaveDeviceId(t) \/ ProfileCreated(t) PROVE Goal
  BY <1>2, <1>3, <1>11 DEF UserData, SaveDeviceId, ProfileCreated, At
<1>12. ASSUME ReadFirstTime(t) \/ ReadUserId(t) \/ SetLists(t) PROVE Goal
  BY <1>2, <1>4, <1>12 DEF ReadFirstTime, ReadUserId, SetLists, At, PageNames
<1>13. QED
  BY <1>5, <1>6, <1>7, <1>8, <1>9, <1>10, <1>11, <1>12 DEF Acts, Step

-----------------------------------------------------------------------------
(* Pages and their checks. *)

\* A check is taken off the front.
LEMMA TailTyped ==
    ASSUME TypeOK, checks # <<>>, checks' = Tail(checks)
    PROVE  /\ checks' \in Checks /\ Len(checks') = Len(checks) - 1 /\ Len(checks') <= MaxChecks
           /\ \A i \in 1..Len(checks') : i + 1 \in 1..Len(checks) /\ checks'[i] = checks[i + 1]
           /\ 1 \in 1..Len(checks) /\ Head(checks) = checks[1] /\ Head(checks) \in Pending
<1>1. checks \in Checks /\ Len(checks) \in Nat /\ Len(checks) <= MaxChecks
  BY DEF TypeOK, Checks, Pending, PageNames
<1>2. checks' \in Checks /\ Len(checks') = Len(checks) - 1 /\ Len(checks) # 0
  BY <1>1 DEF Checks
<1>3. Head(checks) = checks[1] /\ Head(checks) \in Pending
  BY <1>1 DEF Checks
<1>4. \A i \in 1..Len(checks') : checks'[i] = checks[i + 1]
  BY <1>1, <1>2 DEF Checks
<1>5. QED
  BY <1>1, <1>2, <1>3, <1>4, SessionAssumption

LEMMA RetryTyped ==
    ASSUME TypeOK, Retry
    PROVE  /\ checks' \in Checks /\ Len(checks') = Len(checks) + 1 /\ Len(checks') <= MaxChecks
           /\ \A i \in 1..Len(checks) : checks'[i] = checks[i]
           /\ checks'[Len(checks) + 1] = [page |-> ui.page, alive |-> TRUE]
<1>1. checks \in Checks /\ Len(checks) \in Nat
  BY DEF TypeOK, Checks, Pending, PageNames
<1>2. [page |-> ui.page, alive |-> TRUE] \in Pending
  BY DEF TypeOK, Pending, PageNames
<1>3. checks' = Append(checks, [page |-> ui.page, alive |-> TRUE])
  BY DEF Retry
<1>4. QED
  BY <1>1, <1>2, <1>3, SessionAssumption DEF Retry, Checks

PageState == [page : PageNames, dialog : BOOLEAN, shimmer : BOOLEAN, islogin : BOOLEAN,
              registered : BOOLEAN]

\* A step keeps the page and what it greets.
KeepsPage == ui' \in PageState /\ ui'.page = ui.page /\ ui'.islogin = ui.islogin

\* A check ends; the home page's may greet a buyer.
CheckEnds ==
    /\ checks # <<>> /\ checks' = Tail(checks)
    /\ ui' \in PageState /\ ui'.page = ui.page
    /\ \/ ui'.islogin = ui.islogin
       \/ Head(checks).page = "home" /\ Head(checks).alive /\ ui'.islogin = (userId # None)

\* What a step does to the page and its checks.
LEMMA PageMoves ==
    ASSUME TypeOK, Next
    PROVE  \/ \E p \in PageNames : Show(p)
           \/ KeepsPage /\ checks' = checks
           \/ CheckEnds
           \/ KeepsPage /\ Retry
           \/ Death
<1> DEFINE Goal == \/ \E p \in PageNames : Show(p)
                   \/ KeepsPage /\ checks' = checks
                   \/ CheckEnds
                   \/ KeepsPage /\ Retry
                   \/ Death
<1>1. ui \in PageState
  BY DEF TypeOK, PageState, PageNames
<1>2. ASSUME UNCHANGED ui PROVE KeepsPage
  BY <1>1, <1>2 DEF KeepsPage
<1>3. ASSUME Skip \/ ToLogin \/ SelectNotification PROVE \E p \in PageNames : Show(p)
  BY <1>3 DEF Skip, ToLogin, SelectNotification, PageNames
<1>4. CASE Retry
  BY <1>2, <1>4 DEF Retry
<1>5. CASE Dismiss
  BY <1>1, <1>5 DEF Dismiss, KeepsPage, PageState
<1>6. CASE Offline
  BY <1>1, <1>6 DEF Offline, CheckEnds, PageState
<1>7. CASE CheckLoginStatus
  BY <1>1, <1>7 DEF CheckLoginStatus, CheckEnds
<1>8. CASE GetProfileImage
  BY <1>1, <1>8 DEF GetProfileImage, CheckEnds, PageState
<1>9. ASSUME NEW t \in Tasks, Acts(t) PROVE Goal
  <2>1. CASE SetAppData(t)
    BY <1>1, <2>1 DEF SetAppData, CheckEnds
  <2>2. CASE \E a \in Accounts : OnSignIn(t, a)
    BY <1>2, <2>2 DEF OnSignIn
  <2>3. CASE ReadFirstTime(t) \/ ReadUserId(t) \/ SetLists(t)
    BY <1>2, <2>3 DEF ReadFirstTime, ReadUserId, SetLists, EndAt, PageNames
  <2>4. CASE CheckLogin(t)
    <3>1. tasks[t].alive \in BOOLEAN
      BY <2>4, UnderWayTask DEF CheckLogin, At, Task
    <3>2. QED
      BY <1>1, <2>4, <3>1 DEF CheckLogin, KeepsPage, PageState
  <2>5. CASE SaveDeviceId(t) \/ ProfileCreated(t) \/ ProfileRefused(t)
    BY <1>1, <2>5 DEF SaveDeviceId, ProfileCreated, ProfileRefused, KeepsPage, PageState
  <2>6. CASE Fail(t) \/ TakePage(t) \/ ReadDeviceId(t) \/ UserData(t) \/ SetUserId(t)
             \/ SaveUserId(t) \/ CallCreateProfile(t)
    BY <1>2, <2>6 DEF Fail, TakePage, ReadDeviceId, UserData, SetUserId, SaveUserId,
       CallCreateProfile
  <2>7. QED
    BY <1>9, <2>1, <2>2, <2>3, <2>4, <2>5, <2>6 DEF Acts, Step
<1>10. QED
  BY <1>3, <1>4, <1>5, <1>6, <1>7, <1>8, <1>9, NextSteps DEF Moves

LEMMA DeathTyped == ASSUME TypeOK, Death PROVE TypeOK'
<1>1. [page |-> "splash", alive |-> TRUE] \in [page : {"splash", "login", "home"}, alive : BOOLEAN]
  OBVIOUS
<1>2. checks' \in Seq([page : {"splash", "login", "home"}, alive : BOOLEAN]) /\ Len(checks') = 1
  BY <1>1 DEF Death
<1>3. tasks' \in [Tasks -> Task \cup {Idle}]
  BY DEF Death
<1>4. stored' \in [user : Ids, device : Ids, seen : BOOLEAN] /\ known' \in SUBSET Accounts
      /\ taps' \in 0..MaxTaps
  BY DEF Death, TypeOK
<1>5. catalogue' \in [null : BOOLEAN, pages : Seq(1..TotalPages)]
  BY DEF Death, NoList
<1>6. ui' \in [page : {"splash", "login", "home"}, dialog : BOOLEAN, shimmer : BOOLEAN,
               islogin : BOOLEAN, registered : BOOLEAN]
  BY DEF Death, NewPage
<1>7. Len(checks') <= MaxChecks /\ boots' \in 0..2
  BY <1>2, SessionAssumption DEF Death
<1>8. /\ userId' \in Ids /\ lists' \in Ids /\ count' \in BOOLEAN
      /\ loader' \in Tasks \cup {None} /\ loaded' \in BOOLEAN /\ mixed' \in BOOLEAN
  BY Zenon DEF Death, Ids
<1>9. QED
  BY <1>2, <1>3, <1>4, <1>5, <1>6, <1>7, <1>8, Zenon DEF TypeOK

LEMMA InitTyped == Init => TypeOK
<1> SUFFICES ASSUME Init PROVE TypeOK
  OBVIOUS
<1>1. [page |-> "splash", alive |-> TRUE] \in [page : {"splash", "login", "home"}, alive : BOOLEAN]
  OBVIOUS
<1>2. checks \in Seq([page : {"splash", "login", "home"}, alive : BOOLEAN]) /\ Len(checks) = 1
  BY <1>1 DEF Init
<1>3. tasks \in [Tasks -> Task \cup {Idle}]
  BY DEF Init
<1>4. catalogue \in [null : BOOLEAN, pages : Seq(1..TotalPages)]
  BY DEF Init, NoList
<1>5. ui \in [page : {"splash", "login", "home"}, dialog : BOOLEAN, shimmer : BOOLEAN,
              islogin : BOOLEAN, registered : BOOLEAN]
  BY DEF Init, NewPage
<1>6. Len(checks) <= MaxChecks /\ boots \in 0..2 /\ taps \in 0..MaxTaps
  BY <1>2, SessionAssumption DEF Init
<1>7. /\ userId \in Ids /\ lists \in Ids /\ count \in BOOLEAN
      /\ loader \in Tasks \cup {None} /\ loaded \in BOOLEAN /\ mixed \in BOOLEAN
  BY Zenon DEF Init, Ids
<1>8. /\ stored \in [user : Ids, device : Ids, seen : BOOLEAN]
      /\ known \in SUBSET Accounts
  BY DEF Init
<1>9. QED
  BY <1>2, <1>3, <1>4, <1>5, <1>6, <1>7, <1>8, Zenon DEF TypeOK

\* The lists, ids and histories a step of a handler sets.
LEMMA GlobalsTyped ==
    ASSUME TypeOK, NEW t \in Tasks, Acts(t)
    PROVE  /\ stored' \in [user : Ids, device : Ids, seen : BOOLEAN]
           /\ known' \in SUBSET Accounts
           /\ catalogue' \in [null : BOOLEAN, pages : Seq(1..TotalPages)]
           /\ userId' \in Ids /\ lists' \in Ids /\ count' \in BOOLEAN
           /\ taps' \in 0..MaxTaps
           /\ loader' \in Tasks \cup {None}
           /\ loaded' \in BOOLEAN /\ boots' \in 0..2 /\ mixed' \in BOOLEAN
<1>1. UnderWay(t) => /\ tasks[t].account \in Ids /\ tasks[t].n \in 1..TotalPages
                     /\ tasks[t].kind \in {"boot", "login"}
  BY UnderWayTask DEF Task
<1>2. CASE SetAppData(t)
  <2>1. boots' \in 0..2
    BY <1>2 DEF SetAppData, TypeOK
  <2>2. mixed' \in BOOLEAN
    BY <1>2 DEF SetAppData, Begin, TypeOK
  <2>3. QED
    BY <1>2, <2>1, <2>2, Zenon DEF SetAppData, TypeOK, globalVars
<1>3. CASE \E a \in Accounts : OnSignIn(t, a)
  <2>1. mixed' \in BOOLEAN
    BY <1>3 DEF OnSignIn, Begin, TypeOK
  <2>2. QED
    BY <1>3, <2>1, Zenon DEF OnSignIn, TypeOK, globalVars
<1>4. CASE Fail(t)
  <2>1. NoList \in [null : BOOLEAN, pages : Seq(1..TotalPages)]
    BY DEF NoList
  <2>2. QED
    BY <1>4, <2>1 DEF Fail, TypeOK
<1>5. CASE CheckLogin(t)
  <2>1. [catalogue EXCEPT !.pages = <<>>] \in [null : BOOLEAN, pages : Seq(1..TotalPages)]
    <3>1. <<>> \in Seq(1..TotalPages)
      OBVIOUS
    <3>2. QED
      BY <3>1 DEF TypeOK
  <2>2. QED
    BY <1>5, <2>1 DEF CheckLogin, TypeOK
<1>6. CASE TakePage(t)
  <2> DEFINE n == tasks[t].n
  <2>1. n \in 1..TotalPages /\ 1 \in 1..TotalPages
    BY <1>1, <1>6, SessionAssumption DEF TakePage, At
  <2>2. /\ Listed(<<1>>) \in [null : BOOLEAN, pages : Seq(1..TotalPages)]
        /\ Listed(Append(catalogue.pages, n)) \in [null : BOOLEAN, pages : Seq(1..TotalPages)]
    BY <2>1 DEF Listed, TypeOK
  <2> HIDE DEF n
  <2>3. catalogue' \in [null : BOOLEAN, pages : Seq(1..TotalPages)]
    BY <1>6, <2>2 DEF TakePage, TypeOK, n
  <2>4. loader' \in Tasks \cup {None} /\ loaded' \in BOOLEAN
    BY <1>6 DEF TakePage, TypeOK
  <2>5. QED
    BY <1>6, <2>3, <2>4 DEF TakePage, TypeOK
<1>7. CASE \/ ReadFirstTime(t) \/ ReadUserId(t) \/ ReadDeviceId(t) \/ UserData(t)
           \/ CallCreateProfile(t) \/ ProfileRefused(t)
  BY <1>7 DEF ReadFirstTime, ReadUserId, ReadDeviceId, UserData, CallCreateProfile,
     ProfileRefused, TypeOK, globalVars, histVars
<1>8. CASE SetUserId(t) \/ SetLists(t)
  BY <1>1, <1>8 DEF SetUserId, SetLists, TypeOK, histVars
<1>9. CASE SaveUserId(t) \/ SaveDeviceId(t)
  BY <1>1, <1>9 DEF SaveUserId, SaveDeviceId, At, TypeOK, globalVars, histVars
<1>10. CASE ProfileCreated(t)
  BY <1>1, <1>10 DEF ProfileCreated, At, TypeOK, Ids, globalVars, histVars
<1>11. QED
  BY <1>2, <1>3, <1>4, <1>5, <1>6, <1>7, <1>8, <1>9, <1>10 DEF Acts, Step

LEMMA TypeStep == TypeOK /\ [Next]_vars => TypeOK'
<1> SUFFICES ASSUME TypeOK, [Next]_vars PROVE TypeOK'
  OBVIOUS
<1>1. CASE UNCHANGED vars
  BY <1>1 DEF vars, globalVars, histVars, TypeOK
<1>2. CASE Death
  BY <1>2, DeathTyped
<1>3. ASSUME Next, ~Death
      PROVE  ui' \in PageState /\ checks' \in Checks /\ Len(checks') <= MaxChecks
  <2>1. ASSUME NEW p \in PageNames, Show(p)
        PROVE  ui' \in PageState /\ checks' \in Checks /\ Len(checks') <= MaxChecks
    BY <2>1, ShowTyped DEF PageState
  <2>2. CASE KeepsPage /\ checks' = checks
    BY <2>2 DEF KeepsPage, TypeOK, Checks, Pending, PageNames
  <2>3. CASE CheckEnds
    BY <2>3, TailTyped DEF CheckEnds
  <2>4. CASE KeepsPage /\ Retry
    BY <2>4, RetryTyped DEF KeepsPage
  <2>5. QED
    BY <1>3, <2>1, <2>2, <2>3, <2>4, PageMoves
<1>4. CASE Moves
  <2>1. tasks' \in [Tasks -> Task \cup {Idle}]
    BY <1>4, MovesStay
  <2>2. /\ stored' \in [user : Ids, device : Ids, seen : BOOLEAN]
        /\ known' = known /\ catalogue' = catalogue /\ lists' = lists
        /\ userId' \in Ids /\ count' \in BOOLEAN /\ taps' \in 0..MaxTaps
        /\ UNCHANGED histVars
    <3>1. taps' \in 0..MaxTaps
      BY <1>4, SessionAssumption DEF Moves, Skip, ToLogin, SelectNotification, Retry, Dismiss,
         Offline, CheckLoginStatus, GetProfileImage, TypeOK
    <3>2. stored' \in [user : Ids, device : Ids, seen : BOOLEAN]
      BY <1>4 DEF Moves, Skip, ToLogin, SelectNotification, Retry, Dismiss, Offline,
         CheckLoginStatus, GetProfileImage, TypeOK, Ids
    <3>3. /\ known' = known /\ catalogue' = catalogue /\ lists' = lists
          /\ userId' \in Ids /\ count' \in BOOLEAN /\ UNCHANGED histVars
      BY <1>4, Zenon DEF Moves, Skip, ToLogin, SelectNotification, Retry, Dismiss, Offline,
         CheckLoginStatus, GetProfileImage, globalVars, TypeOK, Ids
    <3>4. QED
      BY <3>1, <3>2, <3>3, Zenon
  <2>3. CASE ~Death
    BY <1>3, <1>4, <2>1, <2>2, <2>3, NextSteps
    DEF TypeOK, PageState, Checks, Pending, PageNames, histVars
  <2>4. QED
    BY <1>2, <2>3
<1>5. ASSUME NEW t \in Tasks, Acts(t), ~Death PROVE TypeOK'
  BY <1>3, <1>5, ActsTyped, GlobalsTyped, NextSteps
  DEF TypeOK, PageState, Checks, Pending, PageNames
<1>6. QED
  BY <1>1, <1>2, <1>4, <1>5, NextSteps

\* Every reachable state of Session is well typed: the checks awaited never
\* outgrow their bound, and every handler is at an await of its own kind.
THEOREM TypeCorrect == Spec => []TypeOK
BY InitTyped, TypeStep, PTL DEF Spec

-----------------------------------------------------------------------------
(* The badge. *)

AtLists == \E t \in Tasks : UnderWay(t) /\ tasks[t].at = "lists"

\* A check that may still use its page is of the page on top, and on no page but
\* the login page does a login page's check come after it; none is left when the
\* home page greets a buyer.
ChecksOfPage ==
    /\ \A i \in 1..Len(checks) : checks[i].alive => checks[i].page = ui.page
    /\ ui.page # "login" =>
         \A i, j \in 1..Len(checks) : checks[i].page = "login" /\ checks[j].alive => i < j
    /\ ui.page = "home" /\ ui.islogin => \A i \in 1..Len(checks) : checks[i].page # "login"

CountedInv ==
    /\ userId # None => count \/ AtLists
    /\ ui.page = "home" /\ ui.islogin => count \/ AtLists

LEMMA ChecksStep == TypeOK /\ ChecksOfPage /\ Next => ChecksOfPage'
<1> SUFFICES ASSUME TypeOK, ChecksOfPage, Next PROVE ChecksOfPage'
  OBVIOUS
<1>0. Len(checks) \in Nat
  BY DEF TypeOK
<1>1. ASSUME NEW p \in PageNames, Show(p) PROVE ChecksOfPage'
  <2>1. /\ ui'.page = p /\ ~ui'.islogin /\ Len(checks') = Len(checks) + 1
        /\ \A i \in 1..Len(checks) : checks'[i].page = checks[i].page /\ ~checks'[i].alive
        /\ checks'[Len(checks) + 1].page = p
    <3>1. checks'[Len(checks) + 1] = [page |-> p, alive |-> TRUE]
      BY <1>1, ShowTyped, Zenon
    <3>2. checks'[Len(checks) + 1].page = p
      BY <3>1
    <3>3. QED
      BY <1>1, <3>2, ShowTyped, Zenon
  <2>2. \A i \in 1..Len(checks') : i \in 1..Len(checks) \/ i = Len(checks) + 1
    BY <1>0, <2>1
  <2>3. \A i \in 1..Len(checks') : checks'[i].alive => i = Len(checks) + 1
    BY <2>1, <2>2
  <2>4. \A i \in 1..Len(checks') : checks'[i].alive => checks'[i].page = ui'.page
    BY <2>1, <2>3
  <2>5. ASSUME ui'.page # "login", NEW i \in 1..Len(checks'), NEW j \in 1..Len(checks'),
               checks'[i].page = "login", checks'[j].alive
        PROVE  i < j
    <3>1. j = Len(checks) + 1 /\ i # j
      BY <2>1, <2>3, <2>5
    <3>2. QED
      BY <1>0, <2>2, <3>1
  <2>6. QED
    BY <2>1, <2>4, <2>5 DEF ChecksOfPage
<1>2. CASE KeepsPage /\ checks' = checks
  BY <1>2 DEF KeepsPage, ChecksOfPage
<1>3. CASE CheckEnds
  <2>1. /\ Len(checks') = Len(checks) - 1 /\ Head(checks) = checks[1] /\ 1 \in 1..Len(checks)
        /\ \A i \in 1..Len(checks') : i + 1 \in 1..Len(checks) /\ checks'[i] = checks[i + 1]
    BY <1>3, TailTyped DEF CheckEnds
  <2>2. ui'.page = ui.page
    BY <1>3 DEF CheckEnds
  <2>3. \A i \in 1..Len(checks') : checks'[i].alive => checks'[i].page = ui'.page
    BY <2>1, <2>2 DEF ChecksOfPage
  <2>4. ASSUME ui'.page # "login", NEW i \in 1..Len(checks'), NEW j \in 1..Len(checks'),
               checks'[i].page = "login", checks'[j].alive
        PROVE  i < j
    <3>1. i + 1 < j + 1
      BY <2>1, <2>2, <2>4 DEF ChecksOfPage
    <3>2. QED
      BY <1>0, <2>1, <3>1
  <2>5. ASSUME ui'.page = "home", ui'.islogin, NEW i \in 1..Len(checks')
        PROVE  checks'[i].page # "login"
    <3>1. CASE ui'.islogin = ui.islogin
      BY <2>1, <2>2, <2>5, <3>1 DEF ChecksOfPage
    <3>2. CASE Head(checks).alive
      <4>1. checks[i + 1].page = "login" => i + 1 < 1
        BY <2>1, <2>2, <2>5, <3>2 DEF ChecksOfPage
      <4>2. ~(i + 1 < 1)
        BY <1>0, <2>1
      <4>3. QED
        BY <2>1, <4>1, <4>2
    <3>3. QED
      BY <1>3, <3>1, <3>2 DEF CheckEnds
  <2>6. QED
    BY <2>3, <2>4, <2>5 DEF ChecksOfPage
<1>4. CASE KeepsPage /\ Retry
  <2>1. /\ Len(checks') = Len(checks) + 1
        /\ \A i \in 1..Len(checks) : checks'[i] = checks[i]
        /\ checks'[Len(checks) + 1].page = ui.page
    BY <1>4, RetryTyped
  <2>2. \A i \in 1..Len(checks') : i \in 1..Len(checks) \/ i = Len(checks) + 1
    BY <1>0, <2>1
  <2>3. ui'.page = ui.page /\ ui'.islogin = ui.islogin
    BY <1>4 DEF KeepsPage
  <2>4. \A i \in 1..Len(checks') : checks'[i].alive => checks'[i].page = ui'.page
    BY <2>1, <2>2, <2>3 DEF ChecksOfPage
  <2>5. ASSUME ui'.page # "login", NEW i \in 1..Len(checks'), NEW j \in 1..Len(checks'),
               checks'[i].page = "login", checks'[j].alive
        PROVE  i < j
    <3>1. i \in 1..Len(checks)
      BY <2>1, <2>2, <2>3, <2>5
    <3>2. CASE j \in 1..Len(checks)
      BY <2>1, <2>3, <2>5, <3>1, <3>2 DEF ChecksOfPage
    <3>3. CASE j = Len(checks) + 1
      BY <1>0, <3>1, <3>3
    <3>4. QED
      BY <2>2, <3>2, <3>3
  <2>6. ui'.page = "home" /\ ui'.islogin => \A i \in 1..Len(checks') : checks'[i].page # "login"
    BY <2>1, <2>2, <2>3 DEF ChecksOfPage
  <2>7. QED
    BY <2>4, <2>5, <2>6 DEF ChecksOfPage
<1>5. CASE Death
  <2>1. /\ Len(checks') = 1 /\ checks'[1] = [page |-> "splash", alive |-> TRUE]
        /\ ui'.page = "splash"
    BY <1>5 DEF Death, NewPage
  <2>2. QED
    BY <2>1 DEF ChecksOfPage
<1>6. QED
  BY <1>1, <1>2, <1>3, <1>4, <1>5, PageMoves

\* A handler about to set the lists stays there until it does.
LEMMA AtListsStays ==
    ASSUME TypeOK, Next, ~Death, AtLists
    PROVE  AtLists' \/ \E t \in Tasks : SetLists(t)
<1>1. PICK s \in Tasks : UnderWay(s) /\ tasks[s].at = "lists"
  BY DEF AtLists
<1>2. ASSUME Stays(s) PROVE AtLists'
  BY <1>1, <1>2 DEF Stays, AtLists, UnderWay
<1>3. CASE Moves
  BY <1>2, <1>3, MovesStay
<1>4. ASSUME NEW t \in Tasks, Acts(t) PROVE AtLists' \/ \E r \in Tasks : SetLists(r)
  <2>1. CASE s # t
    BY <1>2, <1>4, <2>1, ActsTyped
  <2>2. CASE s = t
    <3>1. SetLists(t)
      BY <1>1, <1>4, <2>2 DEF Acts, Step, SetAppData, OnSignIn, Begin, Fail, CheckLogin, TakePage,
         ReadFirstTime, ReadUserId, ReadDeviceId, UserData, SetUserId, SaveUserId, SaveDeviceId,
         CallCreateProfile, ProfileCreated, ProfileRefused, At
    <3>2. QED
      BY <3>1
  <2>3. QED
    BY <2>1, <2>2
<1>5. QED
  BY <1>3, <1>4, NextSteps

\* What a step does to the buyer's id and the badge.
LEMMA CountMoves ==
    ASSUME TypeOK, Next
    PROVE  \/ userId' = userId /\ count' = count
           \/ CheckLoginStatus \/ Death
           \/ \E t \in Tasks : SetUserId(t) \/ SetLists(t)
<1>1. CASE Moves
  BY <1>1, Zenon DEF Moves, Skip, ToLogin, SelectNotification, Retry, Dismiss, Offline, GetProfileImage,
     globalVars
<1>2. ASSUME NEW t \in Tasks, Acts(t), ~SetUserId(t), ~SetLists(t)
      PROVE  userId' = userId /\ count' = count
  BY <1>2, Zenon DEF Acts, Step, SetAppData, OnSignIn, Fail, CheckLogin, TakePage,
     ReadFirstTime, ReadUserId, ReadDeviceId, UserData, SaveUserId, SaveDeviceId,
     CallCreateProfile, ProfileCreated, ProfileRefused, globalVars
<1>3. QED
  BY <1>1, <1>2, NextSteps

\* The home page greets a buyer if it did, or if the id is set when its check ends.
LEMMA Greets ==
    ASSUME TypeOK, Next, ui'.page = "home", ui'.islogin
    PROVE  \/ ui.page = "home" /\ ui.islogin
           \/ userId # None /\ checks # <<>> /\ Head(checks).page = "home"
<1>1. ~Death /\ \A p \in PageNames : ~Show(p)
  <2>1. Death => ui'.page = "splash"
    BY DEF Death, NewPage
  <2>2. \A p \in PageNames : Show(p) => ~ui'.islogin
    BY ShowTyped, Zenon
  <2>3. QED
    BY <2>1, <2>2
<1>2. CASE CheckEnds
  BY <1>2, Zenon DEF CheckEnds
<1>3. CASE KeepsPage
  BY <1>3, Zenon DEF KeepsPage
<1>4. QED
  BY <1>1, <1>2, <1>3, PageMoves, Zenon

LEMMA CountedStep == TypeOK /\ ChecksOfPage /\ CountedInv /\ Next => CountedInv'
<1> SUFFICES ASSUME TypeOK, ChecksOfPage, CountedInv, Next PROVE CountedInv'
  OBVIOUS
<1>1. ASSUME ui'.page = "home", ui'.islogin PROVE count \/ AtLists
  BY <1>1, Greets DEF CountedInv
<1>2. CASE userId' = userId /\ count' = count
  <2>1. CASE Death
    BY <2>1 DEF Death, NewPage, CountedInv
  <2>2. CASE ~Death
    <3>1. count \/ AtLists => count' \/ AtLists'
      BY <1>2, <2>2, AtListsStays DEF SetLists
    <3>2. QED
      BY <1>1, <1>2, <3>1 DEF CountedInv
  <2>3. QED
    BY <2>1, <2>2
<1>3. CASE CheckLoginStatus
  <2>1. 1 \in 1..Len(checks) /\ Head(checks) = checks[1] /\ checks[1].page = "login"
    BY <1>3, TailTyped DEF CheckLoginStatus
  <2>2. ~(ui.page = "home" /\ ui.islogin)
    BY <2>1 DEF ChecksOfPage
  <2>3. QED
    BY <1>3, <2>2 DEF CheckLoginStatus, CountedInv
<1>4. CASE Death
  BY <1>4 DEF Death, NewPage, CountedInv
<1>5. ASSUME NEW t \in Tasks, SetUserId(t) PROVE CountedInv'
  <2>1. tasks'[t] \in Task /\ tasks'[t].at = "lists"
    BY <1>5, GoTyped DEF SetUserId, Goes
  <2>2. AtLists'
    BY <2>1 DEF AtLists, UnderWay, Task, Idle
  <2>3. QED
    BY <2>2 DEF CountedInv
<1>6. ASSUME NEW t \in Tasks, SetLists(t) PROVE CountedInv'
  BY <1>6 DEF SetLists, CountedInv
<1>7. QED
  BY <1>2, <1>3, <1>4, <1>5, <1>6, CountMoves

LEMMA CountedAlways == Spec => [](ChecksOfPage /\ CountedInv)
<1>1. Init => ChecksOfPage /\ CountedInv
  <2> SUFFICES ASSUME Init PROVE ChecksOfPage /\ CountedInv
    OBVIOUS
  <2>1. /\ Len(checks) = 1 /\ checks[1] = [page |-> "splash", alive |-> TRUE]
        /\ ui.page = "splash" /\ userId = None
    BY DEF Init, NewPage
  <2>2. QED
    BY <2>1 DEF ChecksOfPage, CountedInv
<1>2. TypeOK /\ ChecksOfPage /\ CountedInv /\ [Next]_vars => ChecksOfPage' /\ CountedInv'
  <2>1. TypeOK /\ ChecksOfPage /\ CountedInv /\ UNCHANGED vars => ChecksOfPage' /\ CountedInv'
    BY DEF vars, globalVars, ChecksOfPage, CountedInv, AtLists, UnderWay
  <2>2. QED
    BY <2>1, ChecksStep, CountedStep
<1>3. QED
  BY <1>1, <1>2, TypeCorrect, PTL DEF Spec

\* The badge of a buyer the home page greets is a number, or a handler is about
\* to make it one (getProfileImage and checkLoginStatus, each at its own await).
THEOREM BadgeCorrect == Spec => []BadgeCountable
<1>1. CountedInv => BadgeCountable
  BY DEF CountedInv, BadgeCountable, AtLists
<1>2. QED
  BY <1>1, CountedAlways, PTL

-----------------------------------------------------------------------------
(* The lists. *)

\* Lists are set for accounts with a profile.
ProfileInv ==
    /\ lists \in known \cup {None}
    /\ \A t \in Tasks : UnderWay(t) /\ tasks[t].at \in {"id", "lists"} => tasks[t].account \in known

\* With one handler at a time, and one account stored, the buyer is the account
\* whose lists are there or about to be.
OneBuyer ==
    ~mixed =>
      /\ \A s, t \in Tasks : UnderWay(s) /\ UnderWay(t) => s = t
      /\ \A t \in Tasks : UnderWay(t) /\ tasks[t].at = "lists" => userId \in {None, tasks[t].account}
      /\ userId # None /\ ~AtLists => lists = userId
      /\ ui.page = "home" /\ ui.islogin => userId # None

\* What a step does to the lists, the profiles and the overlap of handlers.
LEMMA ListsMoves ==
    ASSUME TypeOK, Next, ~Death
    PROVE  /\ known \subseteq known' /\ (~mixed' => ~mixed)
           /\ lists' = lists \/ \E t \in Tasks : SetLists(t)
           /\ mixed' = mixed \/ \E t \in Tasks :
                SetUserId(t) \/ SetAppData(t) \/ \E a \in Accounts : OnSignIn(t, a)
<1> DEFINE Goal == /\ known \subseteq known' /\ (~mixed' => ~mixed)
                   /\ lists' = lists \/ \E t \in Tasks : SetLists(t)
                   /\ mixed' = mixed \/ \E t \in Tasks :
                        SetUserId(t) \/ SetAppData(t) \/ \E a \in Accounts : OnSignIn(t, a)
<1>1. ASSUME known' = known, mixed' = mixed, lists' = lists PROVE Goal
  BY <1>1, Zenon
<1>2. CASE Moves
  BY <1>1, <1>2, Zenon DEF Moves, Skip, ToLogin, SelectNotification, Retry, Dismiss, Offline,
     CheckLoginStatus, GetProfileImage, globalVars, histVars
<1>3. ASSUME NEW t \in Tasks, Acts(t) PROVE Goal
  <2>1. CASE SetAppData(t) \/ \E a \in Accounts : OnSignIn(t, a)
    BY <2>1, Zenon DEF SetAppData, OnSignIn, Begin, globalVars
  <2>2. CASE SetUserId(t)
    BY <2>2, Zenon DEF SetUserId
  <2>3. CASE SetLists(t)
    BY <2>3, Zenon DEF SetLists, histVars
  <2>4. CASE ProfileCreated(t)
    BY <2>4, Zenon DEF ProfileCreated, globalVars, histVars
  <2>5. CASE \/ Fail(t) \/ CheckLogin(t) \/ TakePage(t) \/ ReadFirstTime(t) \/ ReadUserId(t)
             \/ ReadDeviceId(t) \/ UserData(t) \/ SaveUserId(t) \/ SaveDeviceId(t)
             \/ CallCreateProfile(t) \/ ProfileRefused(t)
    BY <1>1, <2>5, Zenon DEF Fail, CheckLogin, TakePage, ReadFirstTime, ReadUserId, ReadDeviceId,
       UserData, SaveUserId, SaveDeviceId, CallCreateProfile, ProfileRefused, globalVars, histVars
  <2>6. QED
    BY <1>3, <2>1, <2>2, <2>3, <2>4, <2>5 DEF Acts, Step
<1>4. QED
  BY <1>2, <1>3, NextSteps

\* Where a handler may be after a step of it.
LEMMA AfterAct ==
    ASSUME TypeOK, NEW t \in Tasks, Acts(t), UnderWay(t)'
    PROVE  \/ tasks'[t].at \notin {"id", "lists"}
           \/ /\ tasks'[t].at = "id" /\ tasks'[t].account = tasks[t].account
              /\ UserData(t) \/ ProfileCreated(t)
           \/ tasks'[t].at = "lists" /\ tasks'[t].account = tasks[t].account /\ SetUserId(t)
<1> DEFINE Goal == \/ tasks'[t].at \notin {"id", "lists"}
                   \/ /\ tasks'[t].at = "id" /\ tasks'[t].account = tasks[t].account
                      /\ UserData(t) \/ ProfileCreated(t)
                   \/ /\ tasks'[t].at = "lists" /\ tasks'[t].account = tasks[t].account
                      /\ SetUserId(t)
<1>0. tasks \in [Tasks -> Task \cup {Idle}]
  BY DEF TypeOK
<1>1. ~End(t)
  BY <1>0 DEF End, UnderWay
<1>2. \A p \in PageNames : ~EndAt(t, p)
  BY EndAtTyped DEF Ended, UnderWay
<1>3. ASSUME UnderWay(t), NEW at \in {"list", "seen", "user", "device", "credential", "profile"},
             Go(t, at)
      PROVE  tasks'[t].at \notin {"id", "lists"}
  BY <1>3, GoTyped DEF Goes
<1>4. CASE UserData(t) \/ ProfileCreated(t)
  BY <1>1, <1>4, GoTyped DEF UserData, ProfileCreated, At, Goes
<1>5. CASE SetUserId(t)
  BY <1>5, GoTyped DEF SetUserId, Goes
<1>6. CASE SetAppData(t)
  BY <1>0, <1>6 DEF SetAppData, Begin
<1>7. CASE \E a \in Accounts : OnSignIn(t, a)
  BY <1>0, <1>7 DEF OnSignIn, Begin
<1>8. CASE Fail(t) \/ ProfileRefused(t)
  BY <1>1, <1>8 DEF Fail, ProfileRefused
<1>9. CASE SetLists(t)
  BY <1>2, <1>9 DEF SetLists, PageNames
<1>10. CASE ReadFirstTime(t) \/ ReadUserId(t)
  BY <1>1, <1>2, <1>3, <1>10 DEF ReadFirstTime, ReadUserId, At, PageNames
<1>11. CASE CheckLogin(t) \/ SaveUserId(t) \/ SaveDeviceId(t)
  BY <1>1, <1>3, <1>11 DEF CheckLogin, SaveUserId, SaveDeviceId, At
<1>12. CASE TakePage(t)
  <2>1. UnderWay(t) /\ tasks[t] \in Task /\ tasks[t].at = "list" /\ Turn(t)
    BY <1>1, <1>12, UnderWayTask DEF TakePage, At
  <2>2. CASE Go(t, "seen")
    BY <1>3, <2>1, <2>2
  <2>3. CASE tasks' = [tasks EXCEPT ![t].n = @ + 1]
    BY <1>0, <2>1, <2>3 DEF Task
  <2>4. QED
    BY <2>1, <2>2, <2>3 DEF Turn
<1>13. CASE ReadDeviceId(t) \/ CallCreateProfile(t)
  <2>1. tasks[t] \in Task
    BY <1>13, UnderWayTask DEF ReadDeviceId, CallCreateProfile, At
  <2>2. QED
    BY <1>0, <1>13, <2>1 DEF ReadDeviceId, CallCreateProfile, Task
<1>14. QED
  BY <1>4, <1>5, <1>6, <1>7, <1>8, <1>9, <1>10, <1>11, <1>12, <1>13 DEF Acts, Step

LEMMA ProfileStep == TypeOK /\ ProfileInv /\ Next => ProfileInv'
<1> SUFFICES ASSUME TypeOK, ProfileInv, Next PROVE ProfileInv'
  OBVIOUS
<1>1. CASE Death
  BY <1>1 DEF Death, ProfileInv, UnderWay
<1>2. CASE ~Death
  <2>1. known \subseteq known'
    BY <1>2, ListsMoves
  <2>2. lists' \in known' \cup {None}
    <3>1. ASSUME NEW t \in Tasks, SetLists(t) PROVE lists' \in known'
      BY <2>1, <3>1 DEF SetLists, ProfileInv
    <3>2. QED
      BY <1>2, <2>1, <3>1, ListsMoves DEF ProfileInv
  <2>3. ASSUME NEW s \in Tasks, Stays(s), UnderWay(s)', tasks'[s].at \in {"id", "lists"}
        PROVE  tasks'[s].account \in known'
    BY <2>1, <2>3 DEF Stays, ProfileInv
  <2>4. ASSUME NEW t \in Tasks, Acts(t), UnderWay(t)', tasks'[t].at \in {"id", "lists"}
        PROVE  tasks'[t].account \in known'
    <3>1. tasks'[t].account = tasks[t].account
          /\ (UserData(t) \/ ProfileCreated(t) \/ SetUserId(t))
      BY <2>4, AfterAct
    <3>2. CASE UserData(t)
      <4>1. tasks[t].account \in known
        BY <1>2, <2>4, <3>2 DEF UserData, End, UnderWay, TypeOK
      <4>2. QED
        BY <2>1, <3>1, <4>1
    <3>3. CASE ProfileCreated(t)
      BY <3>1, <3>3 DEF ProfileCreated
    <3>4. CASE SetUserId(t)
      BY <2>1, <3>1, <3>4 DEF SetUserId, ProfileInv
    <3>5. QED
      BY <3>1, <3>2, <3>3, <3>4
  <2>5. \A s \in Tasks : UnderWay(s)' /\ tasks'[s].at \in {"id", "lists"}
           => tasks'[s].account \in known'
    BY <1>2, <2>3, <2>4, MovesStay, ActsTyped, NextSteps
  <2>6. QED
    BY <2>2, <2>5 DEF ProfileInv, UnderWay
<1>3. QED
  BY <1>1, <1>2

LEMMA OneBuyerStep ==
    TypeOK /\ ChecksOfPage /\ ProfileInv /\ OneBuyer /\ Next => OneBuyer'
<1> SUFFICES ASSUME TypeOK, ChecksOfPage, ProfileInv, OneBuyer, Next, ~mixed' PROVE OneBuyer'
  BY DEF OneBuyer
<1>1. CASE Death
  BY <1>1 DEF Death, NewPage, OneBuyer, UnderWay
<1>2. CASE ~Death
  <2>1. ~mixed
    BY <1>2, ListsMoves
  <2>2. /\ \A s, t \in Tasks : UnderWay(s) /\ UnderWay(t) => s = t
        /\ \A t \in Tasks : UnderWay(t) /\ tasks[t].at = "lists"
              => userId \in {None, tasks[t].account}
        /\ userId # None /\ ~AtLists => lists = userId
        /\ ui.page = "home" /\ ui.islogin => userId # None
    BY <2>1 DEF OneBuyer
  \* One handler is under way.
  <2>3. ASSUME NEW r \in Tasks, NEW s \in Tasks, UnderWay(r)', UnderWay(s)' PROVE r = s
    <3>1. CASE Moves
      BY <2>2, <2>3, <3>1, MovesStay DEF Stays
    <3>2. ASSUME NEW t \in Tasks, Acts(t) PROVE r = s
      <4>1. CASE UnderWay(t)
        BY <2>2, <2>3, <3>2, <4>1, ActsTyped DEF Stays
      <4>2. CASE ~UnderWay(t)
        <5>1. SetAppData(t) \/ \E a \in Accounts : OnSignIn(t, a)
          BY <3>2, <4>2 DEF Acts, Step, Fail, CheckLogin, TakePage, ReadFirstTime, ReadUserId,
             ReadDeviceId, UserData, SetUserId, SetLists, SaveUserId, SaveDeviceId,
             CallCreateProfile, ProfileCreated, ProfileRefused, At
        <5>2. \A q \in Tasks : ~UnderWay(q)
          BY <5>1, Zenon DEF SetAppData, OnSignIn, Begin
        <5>3. QED
          BY <2>3, <3>2, <5>2, ActsTyped DEF Stays
      <4>3. QED
        BY <4>1, <4>2
    <3>3. QED
      BY <1>2, <3>1, <3>2, NextSteps
  \* A handler there has not set the lists yet.
  <2>4. AtLists /\ ~AtLists' => \E t \in Tasks : SetLists(t)
    BY <1>2, AtListsStays
  <2>5. CASE userId' = userId /\ lists' = lists /\ \A t \in Tasks : ~SetUserId(t) /\ ~SetLists(t)
    <3>1. ASSUME NEW s \in Tasks, UnderWay(s)', tasks'[s].at = "lists"
          PROVE  Stays(s)
      BY <1>2, <2>5, <3>1, MovesStay, ActsTyped, AfterAct, NextSteps
    <3>2. ASSUME NEW s \in Tasks, UnderWay(s)', tasks'[s].at = "lists"
          PROVE  userId' \in {None, tasks'[s].account}
      BY <2>2, <2>5, <3>1, <3>2 DEF Stays
    <3>3. userId' # None /\ ~AtLists' => lists' = userId'
      BY <2>2, <2>4, <2>5
    <3>4. ui'.page = "home" /\ ui'.islogin => userId' # None
      BY <2>2, <2>5, Greets
    <3>5. QED
      BY <2>3, <3>2, <3>3, <3>4 DEF OneBuyer, UnderWay
  <2>6. CASE CheckLoginStatus
    <3>1. 1 \in 1..Len(checks) /\ Head(checks) = checks[1] /\ checks[1].page = "login"
      BY <2>6, TailTyped DEF CheckLoginStatus
    <3>2. ~(ui.page = "home" /\ ui.islogin)
      BY <3>1 DEF ChecksOfPage
    <3>3. userId' = None /\ ui' = ui
      BY <2>6 DEF CheckLoginStatus
    <3>4. QED
      BY <2>3, <3>2, <3>3 DEF OneBuyer, UnderWay
  <2>7. ASSUME NEW t \in Tasks, SetUserId(t) PROVE OneBuyer'
    <3>1. userId' = tasks[t].account /\ ui' = ui
      BY <2>7, <1>2, Zenon DEF SetUserId
    <3>2. tasks[t].account \in known /\ tasks[t].account # None
      BY <2>7, SessionAssumption DEF SetUserId, ProfileInv, TypeOK
    <3>3. UnderWay(t)' /\ tasks'[t].at = "lists" /\ tasks'[t].account = tasks[t].account
      BY <2>7, GoTyped DEF SetUserId, Goes, UnderWay, Idle, Task
    <3>4. \A s \in Tasks : UnderWay(s)' => s = t
      BY <2>3, <3>3
    <3>5. AtLists'
      BY <3>3 DEF AtLists, UnderWay
    <3>6. QED
      BY <2>3, <3>1, <3>2, <3>3, <3>4, <3>5 DEF OneBuyer, UnderWay
  <2>8. ASSUME NEW t \in Tasks, SetLists(t) PROVE OneBuyer'
    <3>1. userId' = userId /\ lists' = tasks[t].account /\ Ended(t)
      BY <2>8, EndAtTyped DEF SetLists, PageNames
    <3>2. userId \in {None, tasks[t].account}
      BY <2>2, <2>8 DEF SetLists
    <3>3. \A s \in Tasks : ~UnderWay(s)'
      BY <2>2, <2>8, <3>1, ActsTyped DEF Acts, Step, SetLists, Stays, Ended, UnderWay
    <3>4. ui'.page = "home" /\ ui'.islogin => userId' # None
      BY <2>2, <3>1, Greets
    <3>5. QED
      BY <3>1, <3>2, <3>3, <3>4 DEF OneBuyer, UnderWay
  <2>9. QED
    BY <1>2, <2>5, <2>6, <2>7, <2>8, ListsMoves, CountMoves
<1>3. QED
  BY <1>1, <1>2

LEMMA BuyerAlways == Spec => [](ProfileInv /\ OneBuyer)
<1>1. Init => ProfileInv /\ OneBuyer
  BY DEF Init, NewPage, ProfileInv, OneBuyer, UnderWay
<1>2. TypeOK /\ ChecksOfPage /\ ProfileInv /\ OneBuyer /\ [Next]_vars => ProfileInv' /\ OneBuyer'
  <2>1. TypeOK /\ ProfileInv /\ OneBuyer /\ UNCHANGED vars => ProfileInv' /\ OneBuyer'
    BY DEF vars, globalVars, histVars, ProfileInv, OneBuyer, AtLists, UnderWay
  <2>2. QED
    BY <2>1, ProfileStep, OneBuyerStep
<1>3. QED
  BY <1>1, <1>2, TypeCorrect, CountedAlways, PTL DEF Spec

\* The lists are of an account with a profile, and those of the buyer the home
\* page greets when no handler is under way, unless handlers overlapped or the
\* ids stored were of two accounts (login.dart and splash.dart, up to HomePage).
THEOREM ListsCorrect == Spec => []ListsOfBuyer
<1>1. ProfileInv /\ OneBuyer => ListsOfBuyer
  BY DEF ProfileInv, OneBuyer, ListsOfBuyer, AtLists
<1>2. QED
  BY <1>1, BuyerAlways, PTL

-----------------------------------------------------------------------------
(* The catalogue. *)

InList(t) == UnderWay(t) /\ tasks[t].at = "list"

\* The boot whose first page is the list's has added all pages before its next.
LoaderInv ==
    /\ loader \in Tasks /\ InList(loader) =>
         \A i \in 1..TotalPages : i < tasks[loader].n => i \in ToSet(catalogue.pages)
    /\ loaded => 1..TotalPages \subseteq ToSet(catalogue.pages)

Whole == catalogue = Listed(Pages(TotalPages))

\* What the list is while the only boot of a process is at an await.
BootList(t) ==
    /\ tasks[t].at = "app" => catalogue = NoList /\ tasks[t].n = 1
    /\ tasks[t].at = "list" =>
         catalogue = IF tasks[t].n = 1 THEN NoList ELSE Listed(Pages(tasks[t].n - 1))
    /\ tasks[t].at \notin {"app", "list"} => Whole

Boot(t) == UnderWay(t) /\ tasks[t].kind = "boot"

OneBoot ==
    /\ boots = 0 =>
         ui.page = "splash" /\ catalogue = NoList /\ \A t \in Tasks : ~UnderWay(t)
    /\ boots = 1 =>
         /\ \A s, t \in Tasks : Boot(s) /\ Boot(t) => s = t
         /\ \A t \in Tasks : UnderWay(t) /\ ~Boot(t) => ui.page # "splash"
         /\ ui.page # "splash" =>
              Whole /\ \A t \in Tasks : Boot(t) => tasks[t].at \notin {"app", "list"}
         /\ \A t \in Tasks : Boot(t) => BootList(t)

LEMMA AppendedSet ==
    ASSUME NEW q \in Seq(1..TotalPages), NEW x \in 1..TotalPages
    PROVE  ToSet(Append(q, x)) = ToSet(q) \cup {x}
<1>1. Len(q) \in Nat /\ Len(Append(q, x)) = Len(q) + 1 /\ Append(q, x)[Len(q) + 1] = x
      /\ \A i \in 1..Len(q) : Append(q, x)[i] = q[i]
  OBVIOUS
<1>2. \A i \in 1..(Len(q) + 1) : i \in 1..Len(q) \/ i = Len(q) + 1
  BY <1>1
<1>3. 1..Len(q) \subseteq 1..(Len(q) + 1) /\ Len(q) + 1 \in 1..(Len(q) + 1)
  BY <1>1
<1>4. ToSet(Append(q, x)) = {Append(q, x)[i] : i \in 1..(Len(q) + 1)}
  BY <1>1 DEF ToSet
<1>5. ToSet(q) = {q[i] : i \in 1..Len(q)}
  BY DEF ToSet
<1>6. QED
  BY <1>1, <1>2, <1>3, <1>4, <1>5

LEMMA PagesAppended ==
    /\ Pages(1) = <<1>>
    /\ \A n \in Nat \ {0, 1} : Append(Pages(n - 1), n) = Pages(n)
<1>1. Pages(1) = <<1>>
  BY DEF Pages
<1>2. ASSUME NEW n \in Nat \ {0, 1} PROVE Append(Pages(n - 1), n) = Pages(n)
  <2>1. n - 1 \in Nat
    OBVIOUS
  <2>2. Pages(n - 1) \in Seq(Nat) /\ Len(Pages(n - 1)) = n - 1
    BY <2>1 DEF Pages
  <2>3. Pages(n) \in Seq(Nat) /\ Len(Pages(n)) = n
    BY DEF Pages
  <2>4. Append(Pages(n - 1), n) \in Seq(Nat) /\ Len(Append(Pages(n - 1), n)) = n
    BY <2>2
  <2>5. ASSUME NEW i \in 1..n PROVE Append(Pages(n - 1), n)[i] = Pages(n)[i]
    <3>1. CASE i = n
      BY <2>1, <2>2, <3>1 DEF Pages
    <3>2. CASE i # n
      <4>1. i \in 1..(n - 1)
        BY <3>2
      <4>2. QED
        BY <2>2, <4>1 DEF Pages
    <3>3. QED
      BY <3>1, <3>2
  <2>6. QED
    BY <2>3, <2>4, <2>5
<1>3. QED
  BY <1>1, <1>2

\* What a step does to the catalogue and its histories.
LEMMA CatalogueMoves ==
    ASSUME TypeOK, Next
    PROVE  \/ catalogue' = catalogue /\ loader' = loader /\ loaded' = loaded
           \/ Death
           \/ \E t \in Tasks : Fail(t) \/ CheckLogin(t) \/ TakePage(t)
<1>1. CASE Moves
  BY <1>1, Zenon DEF Moves, Skip, ToLogin, SelectNotification, Retry, Dismiss, Offline,
     CheckLoginStatus, GetProfileImage, globalVars, histVars
<1>2. ASSUME NEW t \in Tasks, Acts(t), ~Fail(t), ~CheckLogin(t), ~TakePage(t)
      PROVE  catalogue' = catalogue /\ loader' = loader /\ loaded' = loaded
  BY <1>2, Zenon DEF Acts, Step, SetAppData, OnSignIn, ReadFirstTime, ReadUserId, ReadDeviceId,
     UserData, SetUserId, SetLists, SaveUserId, SaveDeviceId, CallCreateProfile, ProfileCreated,
     ProfileRefused, globalVars, histVars
<1>3. QED
  BY <1>1, <1>2, NextSteps

\* A handler at the list was there, or has just come to its first page.
LEMMA ToList ==
    ASSUME TypeOK, NEW t \in Tasks, Acts(t), InList(t)'
    PROVE  CheckLogin(t) \/ (TakePage(t) /\ ~End(t) /\ tasks[t].n # TotalPages)
<1>0. tasks \in [Tasks -> Task \cup {Idle}]
  BY DEF TypeOK
<1>1. ~End(t)
  BY <1>0 DEF End, InList, UnderWay
<1>2. \A p \in PageNames : ~EndAt(t, p)
  BY EndAtTyped DEF Ended, InList, UnderWay
<1>3. ASSUME UnderWay(t), NEW at \in {"seen", "user", "device", "credential", "profile", "id",
                                      "lists"}, Go(t, at)
      PROVE  FALSE
  BY <1>3, GoTyped DEF Goes, InList
<1>4. CASE UserData(t) \/ ProfileCreated(t) \/ SetUserId(t) \/ SaveUserId(t) \/ SaveDeviceId(t)
  BY <1>1, <1>3, <1>4 DEF UserData, ProfileCreated, SetUserId, SaveUserId, SaveDeviceId, At
<1>5. CASE SetAppData(t)
  BY <1>0, <1>5 DEF SetAppData, Begin, InList
<1>6. CASE \E a \in Accounts : OnSignIn(t, a)
  BY <1>0, <1>6 DEF OnSignIn, Begin, InList
<1>7. CASE Fail(t) \/ ProfileRefused(t)
  BY <1>1, <1>7 DEF Fail, ProfileRefused
<1>8. CASE SetLists(t) \/ ReadFirstTime(t) \/ ReadUserId(t)
  BY <1>1, <1>2, <1>3, <1>8 DEF SetLists, ReadFirstTime, ReadUserId, At, PageNames
<1>9. CASE ReadDeviceId(t) \/ CallCreateProfile(t)
  <2>1. tasks[t] \in Task
    BY <1>9, UnderWayTask DEF ReadDeviceId, CallCreateProfile, At
  <2>2. QED
    BY <1>0, <1>9, <2>1 DEF ReadDeviceId, CallCreateProfile, Task, InList
<1>10. CASE TakePage(t)
  BY <1>1, <1>3, <1>10 DEF TakePage, At, Turn
<1>11. QED
  BY <1>4, <1>5, <1>6, <1>7, <1>8, <1>9, <1>10 DEF Acts, Step

LEMMA LoaderStep == TypeOK /\ LoaderInv /\ Next => LoaderInv'
<1> SUFFICES ASSUME TypeOK, LoaderInv, Next PROVE LoaderInv'
  OBVIOUS
<1>0. catalogue.pages \in Seq(1..TotalPages) /\ tasks \in [Tasks -> Task \cup {Idle}]
  BY DEF TypeOK
<1>1. CASE Death
  BY <1>1, SessionAssumption DEF Death, LoaderInv
<1>2. ASSUME NEW t \in Tasks, CheckLogin(t) PROVE LoaderInv'
  BY <1>2, SessionAssumption DEF CheckLogin, LoaderInv
<1>3. ASSUME NEW t \in Tasks, Fail(t), loader' = None, loaded' = FALSE PROVE LoaderInv'
  BY <1>3, SessionAssumption DEF LoaderInv
<1>4. ASSUME NEW t \in Tasks, TakePage(t) PROVE LoaderInv'
  <2> DEFINE n == tasks[t].n
  <2>1. UnderWay(t) /\ InList(t) /\ tasks[t] \in Task /\ n \in 1..TotalPages
    BY <1>4, UnderWayTask DEF TakePage, At, Task, InList
  <2>2. \A s \in Tasks : s # t => Stays(s)
    BY <1>4, ActsTyped DEF Acts, Step
  <2>3. CASE End(t) /\ catalogue' = catalogue /\ loader' = loader /\ loaded' = loaded
    <3>1. ~InList(t)'
      BY <1>0, <2>3 DEF End, InList, UnderWay
    <3>2. QED
      BY <2>2, <2>3, <3>1 DEF LoaderInv, Stays, InList, UnderWay
  <2>4. CASE /\ Turn(t)
             /\ catalogue' = IF n = 1 THEN Listed(<<1>>) ELSE Listed(Append(catalogue.pages, n))
             /\ loader' = IF n = 1 THEN t ELSE loader
             /\ loaded' = ((loaded /\ n > 1) \/ (loader' = t /\ n = TotalPages))
    <3>1. n \in ToSet(catalogue'.pages)
          /\ (n # 1 => ToSet(catalogue.pages) \subseteq ToSet(catalogue'.pages))
      <4>1. CASE n = 1
        <5>1. catalogue'.pages = <<1>>
          BY <2>4, <4>1 DEF Listed
        <5>2. ToSet(<<1>>) = {1}
          BY DEF ToSet
        <5>3. QED
          BY <4>1, <5>1, <5>2
      <4>2. CASE n # 1
        <5>1. catalogue'.pages = Append(catalogue.pages, n)
          BY <2>4, <4>2 DEF Listed
        <5>2. ToSet(catalogue'.pages) = ToSet(catalogue.pages) \cup {n}
          <6>1. ToSet(Append(catalogue.pages, n)) = ToSet(catalogue.pages) \cup {n}
            BY <1>0, <2>1, AppendedSet
          <6>2. QED
            BY <5>1, <6>1
        <5>3. QED
          BY <5>2
      <4>3. QED
        BY <4>1, <4>2
    <3>2. InList(t)' => tasks'[t].n = n + 1
      <4>1. CASE Go(t, "seen")
        BY <2>1, <4>1, GoTyped DEF Goes, InList
      <4>2. CASE tasks' = [tasks EXCEPT ![t].n = @ + 1]
        BY <1>0, <2>1, <4>2 DEF Task
      <4>3. QED
        BY <2>4, <4>1, <4>2 DEF Turn
    <3>3. ASSUME loader' = t, NEW i \in 1..TotalPages, i <= n PROVE i \in ToSet(catalogue'.pages)
      <4>1. CASE i = n
        BY <3>1, <4>1
      <4>2. CASE i < n
        <5>1. n # 1 /\ loader = t
          BY <2>1, <2>4, <3>3, <4>2
        <5>2. i \in ToSet(catalogue.pages)
          BY <2>1, <4>2, <5>1 DEF LoaderInv
        <5>3. QED
          BY <3>1, <5>1, <5>2
      <4>3. QED
        BY <2>1, <3>3, <4>1, <4>2
    <3>4. ASSUME loader' \in Tasks, InList(loader)', NEW i \in 1..TotalPages,
                 i < tasks'[loader'].n
          PROVE  i \in ToSet(catalogue'.pages)
      <4>1. CASE loader' = t
        <5>1. i < n + 1
          BY <3>2, <3>4, <4>1 DEF InList, UnderWay
        <5>2. QED
          BY <2>1, <3>3, <4>1, <5>1
      <4>2. CASE loader' # t
        <5>1. n # 1 /\ loader' = loader
          BY <2>4, <4>2
        <5>2. Stays(loader)
          BY <2>2, <3>4, <4>2, <5>1
        <5>3. InList(loader) /\ i < tasks[loader].n
          BY <3>4, <5>1, <5>2 DEF Stays, InList, UnderWay
        <5>4. i \in ToSet(catalogue.pages)
          BY <3>4, <5>1, <5>3 DEF LoaderInv
        <5>5. QED
          BY <3>1, <5>1, <5>4
      <4>3. QED
        BY <4>1, <4>2
    <3>5. ASSUME loaded' PROVE 1..TotalPages \subseteq ToSet(catalogue'.pages)
      <4>1. CASE loaded /\ n > 1
        BY <3>1, <4>1 DEF LoaderInv
      <4>2. CASE loader' = t /\ n = TotalPages
        BY <3>3, <4>2
      <4>3. QED
        BY <2>4, <3>5, <4>1, <4>2
    <3>6. QED
      BY <3>4, <3>5, Zenon DEF LoaderInv, InList, UnderWay
  <2>5. QED
    BY <1>4, <2>3, <2>4 DEF TakePage
<1>5. CASE /\ catalogue' = catalogue /\ loader' = loader /\ loaded' = loaded /\ ~Death
           /\ \A t \in Tasks : ~CheckLogin(t) /\ ~TakePage(t)
  <2>1. ASSUME loader \in Tasks, InList(loader)' PROVE Stays(loader)
    BY <1>5, <2>1, ToList, MovesStay, ActsTyped, NextSteps
  <2>2. ASSUME loader \in Tasks, InList(loader)', NEW i \in 1..TotalPages, i < tasks'[loader].n
        PROVE  i \in ToSet(catalogue.pages)
    BY <1>5, <2>1, <2>2 DEF Stays, InList, LoaderInv, UnderWay
  <2>3. QED
    BY <1>5, <2>2 DEF LoaderInv, InList, UnderWay
<1>6. ASSUME NEW t \in Tasks, Fail(t), ~Death
      PROVE  (loader' = None /\ loaded' = FALSE)
             \/ (catalogue' = catalogue /\ loader' = loader /\ loaded' = loaded)
  BY <1>6, Zenon DEF Fail
<1>7. QED
  BY <1>1, <1>2, <1>3, <1>4, <1>5, <1>6, CatalogueMoves

\* The steps of a handler that leave the catalogue alone.
Rest(t) == \/ ReadFirstTime(t) \/ ReadUserId(t) \/ ReadDeviceId(t) \/ UserData(t) \/ SetUserId(t)
           \/ SetLists(t) \/ SaveUserId(t) \/ SaveDeviceId(t) \/ CallCreateProfile(t)
           \/ ProfileCreated(t) \/ ProfileRefused(t)

LEMMA RestMoves ==
    ASSUME TypeOK, NEW t \in Tasks, Rest(t)
    PROVE  /\ UnderWay(t) /\ tasks[t].at \notin {"app", "list"}
           /\ catalogue' = catalogue /\ boots' = boots
           /\ \/ ui'.page = ui.page
              \/ ui'.page # "splash" /\ Ended(t)
           /\ UnderWay(t)' => /\ tasks'[t].at \notin {"app", "list"}
                              /\ tasks'[t].kind = tasks[t].kind
<1>0. tasks \in [Tasks -> Task \cup {Idle}]
  BY DEF TypeOK
<1>1. UnderWay(t) /\ tasks[t].at \notin {"app", "list"}
  BY DEF Rest, ReadFirstTime, ReadUserId, ReadDeviceId, UserData, SetUserId, SetLists, SaveUserId,
     SaveDeviceId, CallCreateProfile, ProfileCreated, ProfileRefused, At
<1>2. catalogue' = catalogue /\ boots' = boots
  BY Zenon DEF Rest, ReadFirstTime, ReadUserId, ReadDeviceId, UserData, SetUserId, SetLists,
     SaveUserId, SaveDeviceId, CallCreateProfile, ProfileCreated, ProfileRefused, globalVars, histVars
<1>3. ui'.page = ui.page \/ (ui'.page # "splash" /\ Ended(t))
  <2>1. ASSUME NEW p \in {"login", "home"}, EndAt(t, p)
        PROVE  ui'.page = ui.page \/ (ui'.page # "splash" /\ Ended(t))
    <3>1. Show(p) => ui'.page = p
      BY DEF Show, NewPage
    <3>2. Ended(t) /\ (Show(p) \/ UNCHANGED ui)
      BY <2>1, EndAtTyped DEF PageNames
    <3>3. QED
      BY <3>1, <3>2
  <2>2. CASE ReadFirstTime(t) \/ ReadUserId(t) \/ SetLists(t)
    BY <2>1, <2>2 DEF ReadFirstTime, ReadUserId, SetLists
  <2>3. CASE SaveDeviceId(t) \/ ProfileCreated(t) \/ ProfileRefused(t)
    BY <2>3 DEF SaveDeviceId, ProfileCreated, ProfileRefused, TypeOK
  <2>4. CASE \/ ReadDeviceId(t) \/ UserData(t) \/ SetUserId(t) \/ SaveUserId(t)
             \/ CallCreateProfile(t)
    BY <2>4 DEF ReadDeviceId, UserData, SetUserId, SaveUserId, CallCreateProfile
  <2>5. QED
    BY <2>2, <2>3, <2>4 DEF Rest
<1>4. ASSUME UnderWay(t)'
      PROVE  tasks'[t].at \notin {"app", "list"} /\ tasks'[t].kind = tasks[t].kind
  <2>1. ~End(t)
    BY <1>0, <1>4 DEF End, UnderWay
  <2>2. \A p \in PageNames : ~EndAt(t, p)
    BY <1>4, EndAtTyped DEF Ended, UnderWay
  <2>3. ASSUME NEW at \in {"user", "device", "credential", "profile", "id", "lists"}, Go(t, at)
        PROVE  tasks'[t].at \notin {"app", "list"} /\ tasks'[t].kind = tasks[t].kind
    BY <1>1, <2>3, GoTyped DEF Goes
  <2>4. CASE ReadDeviceId(t) \/ CallCreateProfile(t)
    <3>1. tasks[t] \in Task
      BY <1>1, UnderWayTask
    <3>2. QED
      BY <1>0, <2>4, <3>1 DEF ReadDeviceId, CallCreateProfile, Task
  <2>5. CASE \/ ReadFirstTime(t) \/ ReadUserId(t) \/ UserData(t) \/ SetUserId(t)
             \/ SetLists(t) \/ SaveUserId(t) \/ SaveDeviceId(t)
             \/ ProfileCreated(t) \/ ProfileRefused(t)
    BY <2>1, <2>2, <2>3, <2>5 DEF ReadFirstTime, ReadUserId, UserData, SetUserId, SetLists,
       SaveUserId, SaveDeviceId, ProfileCreated, ProfileRefused, PageNames
  <2>6. QED
    BY <2>4, <2>5 DEF Rest
<1>5. QED
  BY <1>1, <1>2, <1>3, <1>4

LEMMA MovesBoot ==
    ASSUME TypeOK, Moves
    PROVE  /\ catalogue' = catalogue /\ boots' = boots
           /\ (ui'.page = "splash" <=> ui.page = "splash")
<1>1. catalogue' = catalogue /\ boots' = boots
  BY Zenon DEF Moves, Skip, ToLogin, SelectNotification, Retry, Dismiss, Offline, CheckLoginStatus,
     GetProfileImage, globalVars, histVars
<1>2. ui'.page = "splash" <=> ui.page = "splash"
  <2>1. \A p \in PageNames : Show(p) => ui'.page = p
    BY DEF Show, NewPage
  <2>2. CASE Skip \/ ToLogin \/ SelectNotification
    BY <2>1, <2>2 DEF Skip, ToLogin, SelectNotification, PageNames
  <2>3. CASE Retry \/ CheckLoginStatus
    BY <2>3 DEF Retry, CheckLoginStatus
  <2>4. CASE Dismiss \/ Offline \/ GetProfileImage
    BY <2>4 DEF Dismiss, Offline, GetProfileImage, TypeOK
  <2>5. QED
    BY <2>2, <2>3, <2>4 DEF Moves
<1>3. QED
  BY <1>1, <1>2

\* With handler t where it was or gone, and the list and the page as they were,
\* nothing changes for the boot.
LEMMA SameBoot ==
    ASSUME TypeOK, OneBoot, catalogue' = catalogue, boots' = boots,
           ui'.page = "splash" <=> ui.page = "splash",
           \A s \in Tasks : Stays(s) \/ Ended(s)
    PROVE  OneBoot'
<1>1. \A s \in Tasks : UnderWay(s)' => UnderWay(s) /\ Stays(s)
  BY DEF Stays, Ended, UnderWay
<1>2. \A s \in Tasks : UnderWay(s)' => (Boot(s)' <=> Boot(s))
  BY <1>1 DEF Boot, Stays, UnderWay
<1>3. ASSUME NEW s \in Tasks, Boot(s)', BootList(s) PROVE BootList(s)'
  BY <1>1, <1>3 DEF BootList, Boot, Stays, Whole, UnderWay
<1>4. CASE boots = 0
  BY <1>1, <1>4 DEF OneBoot, UnderWay
<1>5. CASE boots = 1
  <2>1. \A s, t \in Tasks : Boot(s)' /\ Boot(t)' => s = t
    BY <1>1, <1>2, <1>5 DEF OneBoot, Boot, UnderWay
  <2>2. \A t \in Tasks : UnderWay(t)' /\ ~Boot(t)' => ui'.page # "splash"
    BY <1>1, <1>2, <1>5 DEF OneBoot
  <2>3. ui'.page # "splash" =>
          Whole' /\ \A t \in Tasks : Boot(t)' => tasks'[t].at \notin {"app", "list"}
    BY <1>1, <1>2, <1>5 DEF OneBoot, Whole, Boot, Stays, UnderWay
  <2>4. \A t \in Tasks : Boot(t)' => BootList(t)'
    BY <1>1, <1>2, <1>3, <1>5 DEF OneBoot, Boot, UnderWay
  <2>5. QED
    BY <1>5, <2>1, <2>2, <2>3, <2>4 DEF OneBoot, Boot, UnderWay, BootList, Whole
<1>6. CASE boots \notin {0, 1}
  BY <1>6 DEF OneBoot
<1>7. QED
  BY <1>4, <1>5, <1>6

\* The only boot of a process goes on where its list is as it should be.
LEMMA BootGoes ==
    ASSUME TypeOK, OneBoot, boots = 1, boots' = 1, NEW t \in Tasks, Boot(t),
           tasks[t].at \in {"app", "list"}, ui'.page = ui.page,
           \A s \in Tasks : s # t => Stays(s),
           (Ended(t) /\ catalogue' = catalogue) \/ (Boot(t)' /\ BootList(t)')
    PROVE  OneBoot'
<1>1. ui.page = "splash" /\ \A s \in Tasks : UnderWay(s) => s = t
  BY DEF OneBoot
<1>2. \A s \in Tasks : UnderWay(s)' => s = t
  BY <1>1 DEF Stays
<1>3. CASE Ended(t)
  BY <1>1, <1>2, <1>3 DEF OneBoot, Ended, UnderWay, Boot
<1>4. CASE Boot(t)' /\ BootList(t)'
  <2>1. \A r, s \in Tasks : Boot(r)' /\ Boot(s)' => r = s
    BY <1>2 DEF Boot, UnderWay
  <2>2. \A s \in Tasks : UnderWay(s)' => Boot(s)' /\ BootList(s)'
    BY <1>2, <1>4
  <2>3. QED
    BY <1>1, <2>1, <2>2 DEF OneBoot, Boot, UnderWay, BootList, Whole
<1>5. QED
  BY <1>3, <1>4

LEMMA TakePageBoot ==
    ASSUME TypeOK, OneBoot, boots = 1, NEW t \in Tasks, TakePage(t)
    PROVE  OneBoot'
<1> DEFINE n == tasks[t].n
<1>0. tasks \in [Tasks -> Task \cup {Idle}]
  BY DEF TypeOK
<1>1. Boot(t) /\ tasks[t].at = "list" /\ tasks[t] \in Task /\ n \in 1..TotalPages
  BY UnderWayTask DEF TakePage, At, Boot, Task
<1>2. catalogue = IF n = 1 THEN NoList ELSE Listed(Pages(n - 1))
  BY <1>1 DEF OneBoot, BootList
<1>3. Turn(t) /\ catalogue' = IF n = 1 THEN Listed(<<1>>) ELSE Listed(Append(catalogue.pages, n))
  BY <1>1, <1>2 DEF TakePage, Listed
<1>4. catalogue' = Listed(Pages(n))
  <2>1. CASE n = 1
    BY <1>3, <2>1, PagesAppended
  <2>2. CASE n # 1
    <3>1. catalogue.pages = Pages(n - 1)
      BY <1>2, <2>2 DEF Listed
    <3>2. Append(Pages(n - 1), n) = Pages(n)
      <4>1. n \in Nat \ {0, 1}
        BY <1>1, <2>2, SessionAssumption
      <4> HIDE DEF n
      <4>2. QED
        BY <4>1, PagesAppended, Zenon
    <3>3. QED
      BY <1>3, <2>2, <3>1, <3>2
  <2>3. QED
    BY <2>1, <2>2
<1>5. Boot(t)' /\ BootList(t)'
  <2>1. CASE n = TotalPages
    <3>1. tasks'[t] \in Task /\ Goes(t, "seen")
      BY <1>1, <1>3, <2>1, GoTyped DEF Turn, Boot
    <3>2. Boot(t)'
      BY <1>1, <3>1 DEF Boot, Goes, UnderWay, Idle, Task
    <3>3. Whole'
      BY <1>4, <2>1 DEF Whole
    <3>4. QED
      BY <3>1, <3>2, <3>3 DEF BootList, Goes, Whole
  <2>2. CASE n # TotalPages
    <3>1. tasks' = [tasks EXCEPT ![t].n = @ + 1]
      BY <1>3, <2>2 DEF Turn
    <3>2. /\ tasks'[t] = [tasks[t] EXCEPT !.n = n + 1]
          /\ tasks'[t].at = "list" /\ tasks'[t].n = n + 1 /\ tasks'[t].kind = "boot"
      BY <1>0, <1>1, <3>1 DEF Boot, Task
    <3>3. Boot(t)'
      BY <3>2 DEF Boot, UnderWay, Idle
    <3>4. (n + 1) - 1 = n /\ n + 1 # 1
      BY <1>1, SessionAssumption
    <3>5. QED
      BY <1>4, <3>2, <3>3, <3>4 DEF BootList
  <2>3. QED
    BY <2>1, <2>2
<1>6. boots' = 1 /\ ui'.page = ui.page
  BY DEF TakePage
<1>7. \A s \in Tasks : s # t => Stays(s)
  BY ActsTyped DEF Acts, Step
<1>8. QED
  BY <1>1, <1>5, <1>6, <1>7, BootGoes

LEMMA RestBoot ==
    ASSUME TypeOK, OneBoot, boots = 1, NEW t \in Tasks, Rest(t)
    PROVE  OneBoot'
<1>1. /\ UnderWay(t) /\ tasks[t].at \notin {"app", "list"}
      /\ catalogue' = catalogue /\ boots' = boots
      /\ \/ ui'.page = ui.page
         \/ ui'.page # "splash" /\ Ended(t)
      /\ UnderWay(t)' => tasks'[t].at \notin {"app", "list"} /\ tasks'[t].kind = tasks[t].kind
  BY RestMoves
<1>2. \A s \in Tasks : s # t => Stays(s)
  BY ActsTyped DEF Acts, Step, Rest
\* The list is whole, and nobody fills it.
<1>3. Whole /\ \A s \in Tasks : Boot(s) => tasks[s].at \notin {"app", "list"}
  <2>1. CASE Boot(t)
    BY <1>1, <2>1 DEF OneBoot, BootList
  <2>2. CASE ~Boot(t)
    BY <1>1, <2>2 DEF OneBoot
  <2>3. QED
    BY <2>1, <2>2
<1>4. Whole'
  BY <1>1, <1>3 DEF Whole
<1>5. \A s \in Tasks : UnderWay(s)' => UnderWay(s) /\ (Boot(s)' <=> Boot(s))
                                       /\ (Boot(s)' => tasks'[s].at \notin {"app", "list"})
  BY <1>1, <1>2, <1>3 DEF Stays, Boot, UnderWay
<1>6. \A r, s \in Tasks : Boot(r)' /\ Boot(s)' => r = s
  BY <1>5 DEF OneBoot, Boot, UnderWay
<1>7. \A s \in Tasks : UnderWay(s)' /\ ~Boot(s)' => ui'.page # "splash"
  BY <1>1, <1>5 DEF OneBoot
<1>8. QED
  BY <1>1, <1>4, <1>5, <1>6, <1>7 DEF OneBoot, BootList, Boot, UnderWay, Whole

LEMMA OneBootStep == TypeOK /\ OneBoot /\ Next => OneBoot'
<1> SUFFICES ASSUME TypeOK, OneBoot, Next PROVE OneBoot'
  OBVIOUS
<1>0. tasks \in [Tasks -> Task \cup {Idle}] /\ boots \in 0..2
  BY DEF TypeOK
<1>1. CASE Death
  BY <1>1 DEF Death, NewPage, OneBoot, UnderWay
<1>2. CASE Moves
  BY <1>2, MovesBoot, MovesStay, SameBoot
<1>3. ASSUME NEW t \in Tasks, SetAppData(t) PROVE OneBoot'
  <2>1. CASE boots = 0
    <3>1. Begin(t, "boot", "app", None, Head(checks).alive) /\ catalogue' = catalogue /\ ui' = ui
          /\ boots' = 1
      <4>1. boots' = 1
        BY <1>3, <2>1 DEF SetAppData
      <4>2. QED
        BY <1>3, <4>1, Zenon DEF SetAppData, globalVars
    <3>2. tasks' = [tasks EXCEPT ![t] = [kind |-> "boot", at |-> "app", n |-> 1, account |-> None,
                                         alive |-> Head(checks).alive]]
      BY <3>1 DEF Begin
    <3>3. /\ tasks'[t].kind = "boot" /\ tasks'[t].at = "app" /\ tasks'[t].n = 1
          /\ \A s \in Tasks : s # t => tasks'[s] = Idle
      BY <1>0, <2>1, <3>2 DEF OneBoot, UnderWay
    <3>4. \A s \in Tasks : UnderWay(s)' => s = t
      BY <3>3 DEF UnderWay
    <3>5. QED
      BY <2>1, <3>1, <3>3, <3>4 DEF OneBoot, Boot, UnderWay, BootList
  <2>2. CASE boots # 0
    <3>1. boots' = 2
      BY <1>0, <1>3, <2>2 DEF SetAppData
    <3>2. QED
      BY <3>1 DEF OneBoot
  <2>3. QED
    BY <2>1, <2>2
<1>4. ASSUME NEW t \in Tasks, NEW a \in Accounts, OnSignIn(t, a) PROVE OneBoot'
  <2>1. /\ ui.page = "login" /\ ui' = ui /\ catalogue' = catalogue /\ boots' = boots
        /\ Begin(t, "login", "signin", a, TRUE)
    BY <1>4, Zenon DEF OnSignIn, globalVars
  <2>2. tasks'[t].kind = "login" /\ \A s \in Tasks : s # t => tasks'[s] = tasks[s]
    BY <1>0, <2>1 DEF Begin
  <2>3. \A s \in Tasks : Boot(s)' => Boot(s) /\ tasks'[s] = tasks[s]
    BY <2>2 DEF Boot, UnderWay
  <2>4. CASE boots = 1
    <3>1. Whole' /\ \A s \in Tasks : Boot(s)' => tasks'[s].at \notin {"app", "list"}
      BY <2>1, <2>3, <2>4 DEF OneBoot, Whole
    <3>2. \A r, s \in Tasks : Boot(r)' /\ Boot(s)' => r = s
      BY <2>3, <2>4 DEF OneBoot, Boot, UnderWay
    <3>3. QED
      BY <2>1, <2>4, <3>1, <3>2 DEF OneBoot, Boot, UnderWay, BootList, Whole
  <2>5. CASE boots # 1
    BY <2>1, <2>5 DEF OneBoot
  <2>6. QED
    BY <2>4, <2>5
<1>5. ASSUME NEW t \in Tasks, Step(t) PROVE OneBoot'
  <2>1. UnderWay(t) /\ boots' = boots
    BY <1>5, Zenon DEF Step, Fail, CheckLogin, TakePage, ReadFirstTime, ReadUserId, ReadDeviceId,
       UserData, SetUserId, SetLists, SaveUserId, SaveDeviceId, CallCreateProfile, ProfileCreated,
       ProfileRefused, At, histVars
  <2>2. \A s \in Tasks : s # t => Stays(s)
    BY <1>5, ActsTyped DEF Acts
  <2>3. CASE boots # 1
    BY <2>1, <2>3 DEF OneBoot
  <2>4. CASE boots = 1 /\ Fail(t)
    <3>1. Ended(t) /\ ui' = ui
      BY <1>0, <2>4 DEF Fail, End, Ended
    <3>2. catalogue' = catalogue
      BY <2>4 DEF Fail, At, OneBoot, Boot, BootList
    <3>3. QED
      BY <2>1, <2>2, <3>1, <3>2, SameBoot
  <2>5. CASE boots = 1 /\ CheckLogin(t)
    <3>1. Boot(t) /\ tasks[t].at = "app" /\ tasks[t].n = 1 /\ catalogue = NoList
      BY <2>5 DEF CheckLogin, At, Boot, OneBoot, BootList
    <3>2. catalogue' = NoList
      BY <2>5, <3>1 DEF CheckLogin, NoList
    <3>3. tasks'[t] \in Task /\ Goes(t, "list")
      BY <2>1, <2>5, GoTyped DEF CheckLogin
    <3>4. Boot(t)' /\ BootList(t)'
      BY <3>1, <3>2, <3>3 DEF Boot, BootList, Goes, UnderWay, Idle, Task
    <3>5. ui'.page = ui.page
      BY <2>5 DEF CheckLogin, TypeOK
    <3>6. QED
      BY <2>1, <2>2, <2>5, <3>1, <3>4, <3>5, BootGoes
  <2>6. CASE boots = 1 /\ TakePage(t)
    BY <2>6, TakePageBoot
  <2>7. CASE boots = 1 /\ Rest(t)
    BY <2>7, RestBoot
  <2>8. QED
    BY <1>5, <2>3, <2>4, <2>5, <2>6, <2>7 DEF Step, Rest
<1>6. QED
  BY <1>1, <1>2, <1>3, <1>4, <1>5, NextSteps DEF Acts

LEMMA CatalogueAlways == Spec => [](LoaderInv /\ OneBoot)
<1>1. Init => LoaderInv /\ OneBoot
  BY SessionAssumption DEF Init, NewPage, LoaderInv, OneBoot, UnderWay
<1>2. TypeOK /\ LoaderInv /\ OneBoot /\ [Next]_vars => LoaderInv' /\ OneBoot'
  <2>1. TypeOK /\ LoaderInv /\ OneBoot /\ UNCHANGED vars => LoaderInv' /\ OneBoot'
    BY DEF vars, globalVars, histVars, LoaderInv, OneBoot, InList, Boot, BootList, Whole, UnderWay
  <2>2. QED
    BY <2>1, LoaderStep, OneBootStep
<1>3. QED
  BY <1>1, <1>2, TypeCorrect, PTL DEF Spec

\* The only boot of a process leaves the splash page with every page of the
\* catalogue once and in order, and however boots interleave a list whose loader
\* came to the last page lacks none (checkLogin).
THEOREM CatalogueCorrect == Spec => []CatalogueWhole
<1>1. TypeOK /\ LoaderInv /\ OneBoot => CatalogueWhole
  BY DEF TypeOK, LoaderInv, OneBoot, CatalogueWhole, Whole
<1>2. QED
  BY <1>1, CatalogueAlways, TypeCorrect, PTL
===============================================================================
