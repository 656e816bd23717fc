-------------------------------- MODULE Session --------------------------------
(***************************************************************************)
(* Boot, login and logout: activity/splash.dart, activity/login.dart and   *)
(* what home.dart shows of it.  Boots and logins are handlers that go on   *)
(* when their page is gone; a second boot starts by a notification or by a *)
(* second Retry.  All fill the same global variables, of which the ids of  *)
(* the secure storage outlive the process.                                 *)
(*                                                                         *)
(* Pages: a handler of a page that is gone runs until it uses the          *)
(* navigator or setState, which then throws.                               *)
(***************************************************************************)
EXTENDS Integers, Sequences, SequencesExt

CONSTANTS
    Accounts, None,
    TotalPages,     \* totalPages of the catalogue
    Tasks,          \* identities of handlers; bounds those under way
    MaxChecks,      \* bound: connectivity checks under way
    MaxTaps,        \* bound: notifications tapped
    Reliable        \* whether every request succeeds and the process lives

ASSUME SessionAssumption ==
    /\ None \notin Accounts \cup Tasks
    /\ TotalPages \in Nat \ {0}
    /\ MaxChecks \in Nat \ {0} /\ MaxTaps \in Nat
    /\ Reliable \in BOOLEAN

VARIABLES
    stored,     \* USER_ID, DEVICEID and KEY_IS_FIRST_TIME in the secure storage
    known,      \* accounts the server has a profile of
    catalogue,  \* Productlist: its pages, in the order they were added
    userId,     \* user_id
    lists,      \* the account the cart, order, wish and address lists are of
    count,      \* whether the badge's count is a number
    ui,         \* the page in the navigator and its flags
    checks,     \* connectivity checks awaited, the oldest first
    tasks,      \* tasks[t]: a boot or a login
    taps,
    loader,     \* history: the boot whose first page is the list's
    loaded,     \* history: it went on to the last page
    boots,      \* history: boots of the process, 2 for more
    mixed       \* history: two handlers were under way at once, or the ids
                \* stored were of two accounts when one was taken for the buyer's

globalVars == <<catalogue, userId, lists, count>>
histVars == <<loader, loaded, boots, mixed>>
vars == <<stored, known, globalVars, ui, checks, tasks, taps, histVars>>

Ids == Accounts \cup {None}
NoList == [null |-> TRUE, pages |-> <<>>]
Listed(s) == [null |-> FALSE, pages |-> s]

Task == [kind : {"boot", "login"},
         at : {"app", "list", "seen", "user", "device", "data",
               "signin", "credential", "profile", "create", "id", "lists"},
         n : 1..TotalPages, account : Ids, alive : BOOLEAN]
Idle == [kind |-> "none"]
UnderWay(t) == tasks[t] # Idle

\* What a page's flags start with; registered: the notification callback is its.
NewPage(p) == [page |-> p, dialog |-> FALSE, shimmer |-> FALSE, islogin |-> FALSE,
               registered |-> FALSE]

TypeOK ==
    /\ stored \in [user : Ids, device : Ids, seen : BOOLEAN]
    /\ known \in SUBSET Accounts
    /\ catalogue \in [null : BOOLEAN, pages : Seq(1..TotalPages)]
    /\ userId \in Ids /\ lists \in Ids /\ count \in BOOLEAN
    /\ ui \in [page : {"splash", "login", "home"}, dialog : BOOLEAN, shimmer : BOOLEAN,
               islogin : BOOLEAN, registered : BOOLEAN]
    /\ checks \in Seq([page : {"splash", "login", "home"}, alive : BOOLEAN])
    /\ Len(checks) <= MaxChecks
    /\ tasks \in [Tasks -> Task \cup {Idle}]
    /\ taps \in 0..MaxTaps
    /\ loader \in Tasks \cup {None}
    /\ loaded \in BOOLEAN /\ boots \in 0..2 /\ mixed \in BOOLEAN

\* A process starts on the splash page, which checks the connection.  An earlier
\* login may have ended with either id or both saved and no profile made.
Init ==
    /\ stored \in [user : Ids, device : Ids, seen : BOOLEAN]
    /\ None \in {stored.user, stored.device} \/ stored.user = stored.device
    /\ {stored.user, stored.device} # {None} => stored.seen
    /\ known \in SUBSET Accounts
    /\ taps = 0
    /\ catalogue = NoList
    /\ userId = None /\ lists = None /\ count = FALSE
    /\ ui = NewPage("splash")
    /\ checks = <<[page |-> "splash", alive |-> TRUE]>>
    /\ tasks = [t \in Tasks |-> Idle]
    /\ loader = None /\ loaded = FALSE
    /\ boots = 0 /\ mixed = FALSE

-----------------------------------------------------------------------------
(* Pages. *)

\* pushAndRemoveUntil: handlers and checks lose their page, the new page checks
\* the connection.
Show(p) ==
    /\ Len(checks) < MaxChecks
    /\ ui' = NewPage(p)
    /\ checks' = Append([i \in 1..Len(checks) |-> [checks[i] EXCEPT !.alive = FALSE]],
                        [page |-> p, alive |-> TRUE])

Orphans == [t \in Tasks |-> IF UnderWay(t) THEN [tasks[t] EXCEPT !.alive = FALSE] ELSE Idle]

Skip ==
    /\ ui.page = "login" /\ ~ui.shimmer /\ ~ui.dialog
    /\ Show("home")
    /\ tasks' = Orphans
    /\ UNCHANGED <<stored, known, globalVars, taps, histVars>>

\* Logout, or whatever asks a buyer to log in.
ToLogin ==
    /\ ui.page = "home" /\ ~ui.dialog
    /\ Show("login")
    /\ tasks' = Orphans
    /\ UNCHANGED <<stored, known, globalVars, taps, histVars>>

\* onSelectNotification, of the splash page that registered it.
SelectNotification ==
    /\ ui.page = "splash" /\ ui.registered /\ taps < MaxTaps
    /\ taps' = taps + 1
    /\ Show("splash")
    /\ tasks' = Orphans
    /\ UNCHANGED <<stored, known, globalVars, histVars>>

\* The process ends and is started again; storage and server remain.
Death ==
    /\ ~Reliable
    /\ catalogue' = NoList
    /\ userId' = None /\ lists' = None /\ count' = FALSE
    /\ ui' = NewPage("splash")
    /\ checks' = <<[page |-> "splash", alive |-> TRUE]>>
    /\ tasks' = [t \in Tasks |-> Idle]
    /\ loader' = None /\ loaded' = FALSE
    /\ boots' = 0 /\ mixed' = FALSE
    /\ UNCHANGED <<stored, known, taps>>

-----------------------------------------------------------------------------
(* Connectivity checks. *)

\* A check of the page on top was started by its dialog's Retry.
Retry ==
    /\ ui.dialog /\ Len(checks) < MaxChecks
    /\ checks' = Append(checks, [page |-> ui.page, alive |-> TRUE])
    /\ UNCHANGED <<stored, known, globalVars, ui, tasks, taps, histVars>>

\* The back button on the dialog.
Dismiss ==
    /\ ui.dialog
    /\ ui' = [ui EXCEPT !.dialog = FALSE]
    /\ UNCHANGED <<stored, known, globalVars, checks, tasks, taps, histVars>>

Begin(t, kind, at, account, alive) ==
    /\ ~UnderWay(t)
    /\ tasks' = [tasks EXCEPT ![t] = [kind |-> kind, at |-> at, n |-> 1,
                                      account |-> account, alive |-> alive]]
    /\ mixed' = (mixed \/ \E s \in Tasks : UnderWay(s))

\* checkConnection without a connection.
Offline ==
    /\ ~Reliable
    /\ checks # <<>> /\ checks' = Tail(checks)
    /\ ui' = IF Head(checks).alive THEN [ui EXCEPT !.dialog = TRUE] ELSE ui
    /\ UNCHANGED <<stored, known, globalVars, tasks, taps, histVars>>

\* The splash page goes on with setAppData.
SetAppData(t) ==
    /\ checks # <<>> /\ Head(checks).page = "splash"
    /\ checks' = Tail(checks)
    /\ Begin(t, "boot", "app", None, Head(checks).alive)
    /\ boots' = IF boots = 2 THEN 2 ELSE boots + 1
    /\ UNCHANGED <<stored, known, globalVars, ui, taps, loader, loaded>>

\* The login page: the ids and what belongs to the account are forgotten, the
\* lists are not.
CheckLoginStatus ==
    /\ checks # <<>> /\ Head(checks).page = "login"
    /\ checks' = Tail(checks)
    /\ stored' = [stored EXCEPT !.user = None, !.device = None]
    /\ userId' = None /\ count' = FALSE
    /\ UNCHANGED <<known, catalogue, lists, ui, tasks, taps, histVars>>

\* The home page.
GetProfileImage ==
    /\ checks # <<>> /\ Head(checks).page = "home"
    /\ checks' = Tail(checks)
    /\ ui' = IF Head(checks).alive THEN [ui EXCEPT !.islogin = userId # None] ELSE ui
    /\ UNCHANGED <<stored, known, globalVars, tasks, taps, histVars>>

-----------------------------------------------------------------------------
(* Handlers. *)

At(t, kind, at) == UnderWay(t) /\ tasks[t].kind = kind /\ tasks[t].at = at

Go(t, at) == tasks' = [tasks EXCEPT ![t].at = at]
End(t) == tasks' = [tasks EXCEPT ![t] = Idle]

\* Handler t ends by showing page p, or by an exception if its own is gone.
EndAt(t, p) ==
    IF tasks[t].alive
    THEN Show(p) /\ tasks' = [Orphans EXCEPT ![t] = Idle]
    ELSE End(t) /\ UNCHANGED <<ui, checks>>

\* A handler ends without an effect: a null answer, an exception, "Something
\* went wrong!!".  A login that had hidden the buttons leaves them hidden.
Fail(t) ==
    /\ ~Reliable /\ UnderWay(t)
    /\ tasks[t].at \in {"app", "list", "data", "signin", "credential", "profile", "create"}
    /\ End(t)
    /\ \/ UNCHANGED <<catalogue, loader, loaded>>
       \/ /\ At(t, "boot", "list") /\ tasks[t].n = 1        \* the first page is null
          /\ catalogue' = NoList /\ loader' = None /\ loaded' = FALSE
    /\ UNCHANGED <<stored, known, userId, lists, count, ui, checks, taps, boots, mixed>>

\* The application data is there: the notification is scheduled, and checkLogin
\* starts, with an empty list.
CheckLogin(t) ==
    /\ At(t, "boot", "app")
    /\ ui' = [ui EXCEPT !.registered = tasks[t].alive]
    /\ catalogue' = [catalogue EXCEPT !.pages = <<>>]
    /\ loader' = None /\ loaded' = FALSE
    /\ Go(t, "list")
    /\ UNCHANGED <<stored, known, userId, lists, count, checks, taps, boots, mixed>>

\* Mutant: one page more than there are is asked for.
TurnPast(t) ==
    IF tasks[t].n > TotalPages THEN Go(t, "seen")
    ELSE tasks' = [tasks EXCEPT ![t].n = @ + 1]

Turn(t) ==
    IF tasks[t].n = TotalPages THEN Go(t, "seen")
    ELSE tasks' = [tasks EXCEPT ![t].n = @ + 1]

\* Mutant: every page is the new list.
TakePageReplaces(t) ==
    LET n == tasks[t].n
    IN  /\ At(t, "boot", "list")
        /\ catalogue' = Listed(<<n>>)
        /\ loader' = IF n = 1 THEN t ELSE loader
        /\ loaded' = ((loaded /\ n > 1) \/ (loader' = t /\ n = TotalPages))
        /\ Turn(t)
        /\ UNCHANGED <<stored, known, userId, lists, count, ui, checks, taps, boots, mixed>>

\* The first page is the new list; later ones are added to whatever list there
\* is by then.
TakePage(t) ==
    LET n == tasks[t].n
    IN  /\ At(t, "boot", "list")
        /\ IF n > 1 /\ catalogue.null
           THEN End(t) /\ UNCHANGED <<catalogue, loader, loaded>>
           ELSE /\ catalogue' = IF n = 1 THEN Listed(<<1>>)
                                ELSE Listed(Append(catalogue.pages, n))
                /\ loader' = IF n = 1 THEN t ELSE loader
                /\ loaded' = ((loaded /\ n > 1) \/ (loader' = t /\ n = TotalPages))
                /\ Turn(t)
        /\ UNCHANGED <<stored, known, userId, lists, count, ui, checks, taps, boots, mixed>>

\* KEY_IS_FIRST_TIME: a first start goes to the login page.
ReadFirstTime(t) ==
    /\ At(t, "boot", "seen")
    /\ IF stored.seen THEN Go(t, "user") /\ UNCHANGED <<stored, ui, checks>>
       ELSE stored' = [stored EXCEPT !.seen = TRUE] /\ EndAt(t, "login")
    /\ UNCHANGED <<known, globalVars, taps, histVars>>

\* Mutant: nothing is shown to who is not logged in.
ReadUserIdOnly(t) ==
    /\ At(t, "boot", "user")
    /\ IF stored.user = None THEN End(t) ELSE Go(t, "device")
    /\ UNCHANGED <<stored, known, globalVars, ui, checks, taps, histVars>>

\* USER_ID: nobody is logged in without one.
ReadUserId(t) ==
    /\ At(t, "boot", "user")
    /\ IF stored.user = None THEN EndAt(t, "home")
       ELSE Go(t, "device") /\ UNCHANGED <<ui, checks>>
    /\ UNCHANGED <<stored, known, globalVars, taps, histVars>>

\* DEVICEID: the account whose data is asked for.
ReadDeviceId(t) ==
    /\ At(t, "boot", "device")
    /\ tasks' = [tasks EXCEPT ![t].at = "data", ![t].account = stored.device]
    /\ UNCHANGED <<stored, known, globalVars, ui, checks, taps, histVars>>

\* getUserData; of an account without a profile it fails.
UserData(t) ==
    /\ At(t, "boot", "data")
    /\ IF tasks[t].account \in known THEN Go(t, "id") ELSE End(t)
    /\ UNCHANGED <<stored, known, globalVars, ui, checks, taps, histVars>>

\* USER_ID is read again, then three more keys.
SetUserId(t) ==
    /\ UnderWay(t) /\ tasks[t].at = "id"
    /\ userId' = stored.user
    /\ Go(t, "lists")
    /\ mixed' = (mixed \/ stored.user # tasks[t].account)
    /\ UNCHANGED <<stored, known, catalogue, lists, count, ui, checks, taps, loader, loaded, boots>>

\* Mutant: the badge is left for the home page to count.
SetListsUncounted(t) ==
    /\ UnderWay(t) /\ tasks[t].at = "lists"
    /\ lists' = tasks[t].account
    /\ EndAt(t, "home")
    /\ UNCHANGED <<stored, known, catalogue, userId, count, taps, histVars>>

\* Mutant: lists that are there already are kept.
SetListsOnce(t) ==
    /\ UnderWay(t) /\ tasks[t].at = "lists"
    /\ lists' = IF lists = None THEN tasks[t].account ELSE lists
    /\ count' = TRUE
    /\ EndAt(t, "home")
    /\ UNCHANGED <<stored, known, catalogue, userId, taps, histVars>>

\* The lists and the badge are the account's.
SetLists(t) ==
    /\ UnderWay(t) /\ tasks[t].at = "lists"
    /\ lists' = tasks[t].account
    /\ count' = TRUE
    /\ EndAt(t, "home")
    /\ UNCHANGED <<stored, known, catalogue, userId, taps, histVars>>

-----------------------------------------------------------------------------
(* Login. *)

\* A button of the login page: _handleSignIn, or Facebook's.
OnSignIn(t, a) ==
    /\ ui.page = "login" /\ ~ui.shimmer /\ ~ui.dialog
    /\ Begin(t, "login", "signin", a, TRUE)
    /\ UNCHANGED <<stored, known, globalVars, ui, checks, taps, loader, loaded, boots>>

\* The buyer has signed in: USER_ID is saved before the credential is checked,
\* but not for a buyer whom Google has signed in already.
SaveUserId(t) ==
    /\ At(t, "login", "signin")
    /\ stored' \in {stored, [stored EXCEPT !.user = tasks[t].account]}
    /\ Go(t, "credential")
    /\ UNCHANGED <<known, globalVars, ui, checks, taps, histVars>>

\* DEVICEID is saved; the buttons give way to the shimmer.
SaveDeviceId(t) ==
    /\ At(t, "login", "credential")
    /\ stored' = [stored EXCEPT !.device = tasks[t].account]
    /\ IF tasks[t].alive THEN ui' = [ui EXCEPT !.shimmer = TRUE] /\ Go(t, "profile")
       ELSE End(t) /\ UNCHANGED ui
    /\ UNCHANGED <<known, globalVars, checks, taps, histVars>>

\* callCreateProfile, up to the request.
CallCreateProfile(t) ==
    /\ At(t, "login", "profile")
    /\ tasks' = [tasks EXCEPT ![t].at = "create", ![t].account = stored.device]
    /\ UNCHANGED <<stored, known, globalVars, ui, checks, taps, histVars>>

\* The profile is made, or was there: the buttons are back before the lists are.
ProfileCreated(t) ==
    LET a == tasks[t].account
    IN  /\ At(t, "login", "create") /\ a # None
        /\ known' = known \cup {a}
        /\ IF tasks[t].alive THEN ui' = [ui EXCEPT !.shimmer = FALSE] /\ Go(t, "id")
           ELSE End(t) /\ UNCHANGED ui
        /\ UNCHANGED <<stored, globalVars, checks, taps, histVars>>

\* success is false, as it is without a DEVICEID.
ProfileRefused(t) ==
    /\ At(t, "login", "create") /\ (~Reliable \/ tasks[t].account = None)
    /\ ui' = IF tasks[t].alive THEN [ui EXCEPT !.shimmer = FALSE] ELSE ui
    /\ End(t)
    /\ UNCHANGED <<stored, known, globalVars, checks, taps, histVars>>

-----------------------------------------------------------------------------
Check ==
    \/ Offline \/ CheckLoginStatus \/ GetProfileImage
    \/ \E t \in Tasks : SetAppData(t)

\* A handler goes on.
Step(t) ==
    \/ Fail(t)
    \/ CheckLogin(t) \/ TakePage(t) \/ ReadFirstTime(t) \/ ReadUserId(t)
    \/ ReadDeviceId(t) \/ UserData(t) \/ SetUserId(t) \/ SetLists(t)
    \/ SaveUserId(t) \/ SaveDeviceId(t) \/ CallCreateProfile(t) \/ ProfileCreated(t)
    \/ ProfileRefused(t)

Next ==
    \/ Skip \/ ToLogin \/ SelectNotification \/ Death \/ Retry \/ Dismiss
    \/ Check
    \/ \E t \in Tasks : Step(t) \/ \E a \in Accounts : OnSignIn(t, a)

Spec == Init /\ [][Next]_vars

\* Storage, plugins and server answer.
Fairness == WF_vars(Check) /\ \A t \in Tasks : WF_vars(Step(t))

FairSpec == Spec /\ Fairness

-----------------------------------------------------------------------------
(* Properties. *)

Pages(n) == [i \in 1..n |-> i]

\* A boot that is the only one of its process leaves the splash page with every
\* page of the catalogue, in order and once; and however boots interleave, a list
\* whose loader came to the last page lacks none (checkLogin).
CatalogueWhole ==
    /\ boots <= 1 /\ ui.page # "splash" => catalogue = Listed(Pages(TotalPages))
    /\ loaded => 1..TotalPages \subseteq ToSet(catalogue.pages)

\* The home page counts the badge of a buyer who logged in, which throws if the
\* count is null; it is a number there unless a handler is about to set it.
BadgeCountable ==
    ui.page = "home" /\ ui.islogin /\ (\A t \in Tasks : UnderWay(t) => tasks[t].at # "lists")
        => count

\* The lists are of an account with a profile, and when no handler is under way
\* those of the buyer the home page greets, unless handlers overlapped or the ids
\* stored were of two accounts (login.dart and splash.dart, up to HomePage).
ListsOfBuyer ==
    /\ lists \in known \cup {None}
    /\ ui.page = "home" /\ ui.islogin /\ ~mixed /\ (\A t \in Tasks : ~UnderWay(t))
           => lists = userId

\* With every request answered a boot leaves the splash page, unless a login that
\* never made its profile left its USER_ID behind (checkLogin).
BootEnds ==
    ui.page = "splash" ~>
        ui.page # "splash" \/ (stored.user # None /\ stored.device \notin known)
=============================================================================
