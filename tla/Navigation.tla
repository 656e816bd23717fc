------------------------------ MODULE Navigation ------------------------------
(***************************************************************************)
(* The navigator: pages, the dialogs two connectivity guards put over them *)
(* and the drawer of the home page.                                        *)
(*                                                                         *)
(* The application's guard (main.dart) listens to connectivity events; the *)
(* guard of a root page (splash, login, home) checks when the page opens   *)
(* and when its dialog's Retry is tapped.  Each remembers in isOpenDialog  *)
(* whether it has a dialog open and pops whatever is on top if so.         *)
(* Pages are only pushed from the page on top, so dialogs lie above them.  *)
(***************************************************************************)
EXTENDS Integers, Sequences

CONSTANTS
    MaxPages,   \* bound: pages in the navigator
    MaxEvents,  \* bound: connectivity events on their way
    MaxChecks   \* bound: checks of one kind under way

ASSUME NavigationAssumption ==
    MaxPages \in Nat \ {0} /\ MaxEvents \in Nat /\ MaxChecks \in Nat \ {0}

VARIABLES
    root,           \* the page at the bottom
    nav,            \* pages, the home page's drawer, dialogs from the bottom up
    isOpenDialog,   \* the flags of the two guards
    events,         \* connectivity events on their way to the listener
    checks,         \* checks awaited, by the handler that awaits them
    settled,        \* from now on every check finds a connection and no VPN
    clean           \* history: no dialog was lost behind its guard's back

vars == <<root, nav, isOpenDialog, events, checks, settled, clean>>

Roots == {"splash", "login", "home"}
Guards == {"main", "page"}
Dialogs == {"connection", "vpn", "page"}

\* "listen": the listener's isVpnActive; "vpn": checkVpn's; "internet":
\* checkInternet's checkConnectivity; "page": checkConnection's.
Handlers == {"listen", "vpn", "internet", "page"}

Fresh == [pages |-> 1, drawer |-> "closed", dialogs |-> <<>>]
AllShut == [g \in Guards |-> FALSE]
FirstCheck == [h \in Handlers |-> IF h = "page" THEN 1 ELSE 0]

Nav == [pages : 0..MaxPages, drawer : {"closed", "open", "closing"}, dialogs : Seq(Dialogs)]

TypeOK ==
    /\ root \in Roots
    /\ nav \in Nav /\ Len(nav.dialogs) <= 2
    /\ isOpenDialog \in [Guards -> BOOLEAN]
    /\ events \in Seq({"none", "some"}) /\ Len(events) <= MaxEvents
    /\ checks \in [Handlers -> 0..MaxChecks]
    /\ settled \in BOOLEAN /\ clean \in BOOLEAN

Init ==
    /\ root = "splash" /\ nav = Fresh
    /\ isOpenDialog = AllShut
    /\ events = <<>> /\ checks = FirstCheck
    /\ settled = FALSE /\ clean = TRUE

-----------------------------------------------------------------------------
(* The navigator. *)

Covered == nav.dialogs # <<>>
Top == nav.dialogs[Len(nav.dialogs)]
OnPage == ~Covered /\ nav.drawer = "closed"

\* What Navigator.pop leaves of n: it takes the top route, or closes the
\* drawer of the home page on top.  With nothing left it throws.
Popped(n) ==
    IF n.dialogs # <<>>
    THEN [n EXCEPT !.dialogs = SubSeq(@, 1, Len(@) - 1)]
    ELSE IF n.drawer = "open"
    THEN [n EXCEPT !.drawer = "closing"]
    ELSE [n EXCEPT !.pages = @ - 1, !.drawer = "closed"]

Throws == ~Covered /\ nav.pages = 0

\* A page of the home page's tabs, or over them, pushes another.
Push ==
    /\ root = "home" /\ OnPage
    /\ nav.pages \in 1..(MaxPages - 1)
    /\ nav' = [nav EXCEPT !.pages = @ + 1]
    /\ UNCHANGED <<root, isOpenDialog, events, checks, settled, clean>>

Follows == {<<"splash", "splash">>, <<"splash", "login">>, <<"splash", "home">>,
            <<"login", "home">>, <<"home", "login">>, <<"home", "home">>}

\* pushAndRemoveUntil, of a tap or of a handler that waited: the dialogs go
\* too.  The new root page has a flag of its own and checks the connection;
\* checks of the old one end in an exception.
Replace(r) ==
    /\ nav.pages > 0
    /\ <<root, r>> \in Follows
    /\ root' = r
    /\ nav' = Fresh
    /\ isOpenDialog' = [isOpenDialog EXCEPT !["page"] = FALSE]
    /\ checks' = [checks EXCEPT !["page"] = 1]
    /\ clean' = (clean /\ ~isOpenDialog["main"])
    /\ UNCHANGED <<events, settled>>

\* The back button on a dialog, the drawer or a page over the root.
Back ==
    /\ Covered \/ nav.drawer = "open" \/ nav.pages > 1
    /\ nav' = Popped(nav)
    /\ clean' = (clean /\ ~Covered)
    /\ UNCHANGED <<root, isOpenDialog, events, checks, settled>>

\* The buyer leaves, by the back button or a dialog's "cancel", and starts anew.
Relaunch ==
    /\ IF Covered THEN Top # "vpn"
       ELSE nav.drawer # "open" /\ (nav.pages = 0 \/ (nav.pages = 1 /\ root # "splash"))
    /\ root' = "splash" /\ nav' = Fresh
    /\ isOpenDialog' = AllShut
    /\ events' = <<>> /\ checks' = FirstCheck
    /\ clean' = TRUE
    /\ UNCHANGED settled

-----------------------------------------------------------------------------
(* The drawer. *)

OpenDrawer ==
    /\ root = "home" /\ nav.pages = 1 /\ OnPage
    /\ nav' = [nav EXCEPT !.drawer = "open"]
    /\ UNCHANGED <<root, isOpenDialog, events, checks, settled, clean>>

\* The closing animation ends.
DrawerCloses ==
    /\ nav.drawer = "closing"
    /\ nav' = [nav EXCEPT !.drawer = "closed"]
    /\ UNCHANGED <<root, isOpenDialog, events, checks, settled, clean>>

\* An item of the drawer, which takes taps until it has closed.
OnSelectItem ==
    /\ ~Covered /\ nav.drawer # "closed"
    /\ nav' = Popped(nav)
    /\ UNCHANGED <<root, isOpenDialog, events, checks, settled, clean>>

-----------------------------------------------------------------------------
(* The guards. *)

Opened(n, d) == [n EXCEPT !.dialogs = Append(@, d)]

\* Mutant: the earlier dialog is left open.
ShowOver(g, d) ==
    /\ nav' = Opened(nav, d)
    /\ isOpenDialog' = [isOpenDialog EXCEPT ![g] = TRUE]

\* Guard g pops if it has a dialog open, shows dialog d and notes it.
Show(g, d) ==
    IF isOpenDialog[g] /\ Throws THEN UNCHANGED <<nav, isOpenDialog>>
    ELSE /\ nav' = Opened(IF isOpenDialog[g] THEN Popped(nav) ELSE nav, d)
         /\ isOpenDialog' = [isOpenDialog EXCEPT ![g] = TRUE]

\* Mutant: the flag is not reset.
CloseOnly(g) ==
    /\ nav' = IF isOpenDialog[g] /\ ~Throws THEN Popped(nav) ELSE nav
    /\ UNCHANGED isOpenDialog

\* Mutant: the flag is not tested.
CloseAny(g) ==
    /\ nav' = IF Throws THEN nav ELSE Popped(nav)
    /\ isOpenDialog' = [isOpenDialog EXCEPT ![g] = FALSE]

\* Guard g pops if it has a dialog open and notes that it has none.
Close(g) ==
    IF isOpenDialog[g] /\ Throws THEN UNCHANGED <<nav, isOpenDialog>>
    ELSE /\ nav' = IF isOpenDialog[g] THEN Popped(nav) ELSE nav
         /\ isOpenDialog' = [isOpenDialog EXCEPT ![g] = FALSE]

\* The system reports a change of the connection.
Report(e) ==
    /\ Len(events) < MaxEvents
    /\ settled => e = "some"
    /\ events' = Append(events, e)
    /\ UNCHANGED <<root, nav, isOpenDialog, checks, settled, clean>>

Settle ==
    /\ ~settled
    /\ settled' = TRUE
    /\ UNCHANGED <<root, nav, isOpenDialog, events, checks, clean>>

Await(h) ==
    /\ checks[h] < MaxChecks
    /\ checks' = [checks EXCEPT ![h] = @ + 1]

\* The listener of onConnectivityChanged.
CallInternet ==
    /\ events # <<>>
    /\ events' = Tail(events)
    /\ IF Head(events) = "none"
       THEN Show("main", "connection") /\ UNCHANGED checks
       ELSE Await("listen") /\ UNCHANGED <<nav, isOpenDialog>>
    /\ UNCHANGED <<root, settled, clean>>

\* Retry of the dialog on top.
Retry ==
    /\ Covered
    /\ Await(CASE Top = "connection" -> "internet" [] Top = "vpn" -> "vpn"
               [] Top = "page" -> "page")
    /\ UNCHANGED <<root, nav, isOpenDialog, events, settled, clean>>

\* A handler that awaited h goes on; 'bad' is what its check found: no
\* connection, or a VPN.
Resume(h, bad) ==
    /\ checks[h] > 0
    /\ settled => ~bad
    /\ UNCHANGED <<root, events, settled, clean>>

Ended(h) == checks' = [checks EXCEPT ![h] = @ - 1]

\* The listener again.
Listened(bad) ==
    /\ Resume("listen", bad)
    /\ Ended("listen")
    /\ IF bad THEN Show("main", "vpn") ELSE UNCHANGED <<nav, isOpenDialog>>

CheckVpn(bad) ==
    /\ Resume("vpn", bad)
    /\ Ended("vpn")
    /\ IF bad THEN Show("main", "vpn") ELSE Close("main")

\* Mutant: with a connection it is done.
CheckInternetOnly(bad) ==
    /\ Resume("internet", bad)
    /\ Ended("internet")
    /\ IF bad THEN Show("main", "connection") ELSE UNCHANGED <<nav, isOpenDialog>>

\* With a connection it goes on as checkVpn.
CheckInternet(bad) ==
    /\ Resume("internet", bad)
    /\ IF bad
       THEN Ended("internet") /\ Show("main", "connection")
       ELSE /\ checks["vpn"] < MaxChecks
            /\ checks' = [checks EXCEPT !["internet"] = @ - 1, !["vpn"] = @ + 1]
            /\ UNCHANGED <<nav, isOpenDialog>>

\* checkConnection of the root page, which shows a dialog and never closes it.
CheckConnection(bad) ==
    /\ Resume("page", bad)
    /\ Ended("page")
    /\ IF bad /\ nav.pages > 0 THEN Show("page", "page")
       ELSE UNCHANGED <<nav, isOpenDialog>>

Answer(h) == \E bad \in BOOLEAN :
    CASE h = "listen" -> Listened(bad)
      [] h = "vpn" -> CheckVpn(bad)
      [] h = "internet" -> CheckInternet(bad)
      [] h = "page" -> CheckConnection(bad)

-----------------------------------------------------------------------------
GuardStep == CallInternet \/ \E h \in Handlers : Answer(h)

Next ==
    \/ Push \/ \E r \in Roots : Replace(r)
    \/ Back \/ Relaunch
    \/ OpenDrawer \/ DrawerCloses \/ OnSelectItem
    \/ \E e \in {"none", "some"} : Report(e)
    \/ Settle \/ Retry
    \/ GuardStep

Spec == Init /\ [][Next]_vars

\* The platform answers every check.
Fairness == \A h \in Handlers : WF_vars(Answer(h))

FairSpec == Spec /\ Fairness

-----------------------------------------------------------------------------
(* Properties. *)

Flags == (IF isOpenDialog["main"] THEN 1 ELSE 0) + (IF isOpenDialog["page"] THEN 1 ELSE 0)

\* As long as no dialog went away by the back button or with its page, there are
\* as many dialogs as flags, however events, Retry taps and awaited checks of the
\* two guards interleave and whichever dialog a guard pops (main.dart, and
\* checkConnection of splash, login and home).
DialogsCounted == clean => Len(nav.dialogs) = Flags

\* Without a flag of the root page's guard every dialog is the application's.
DialogsOwned == ~isOpenDialog["page"] =>
    \A i \in 1..Len(nav.dialogs) : nav.dialogs[i] # "page"

\* Then a guard never pops a page or the drawer.
GuardsKeepPages ==
    [][GuardStep /\ clean => nav'.pages = nav.pages /\ nav'.drawer = nav.drawer]_vars

\* A Retry with a connection and no VPN ends in the guard having no dialog.
RetryCloses ==
    settled /\ clean /\ checks["internet"] + checks["vpn"] > 0
        ~> ~isOpenDialog["main"] \/ ~clean
=============================================================================
