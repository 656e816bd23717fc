------------------------------ MODULE Razorpay ------------------------------
(***************************************************************************)
(* The payment plugin as the application meets it: the Dart object         *)
(* (razorpay_flutter.dart, one per Placeorder page), the method channel    *)
(* and the Android delegate (RazorpayDelegate.java) that shows the payment *)
(* sheet and carries its result back.                                      *)
(*                                                                         *)
(* A page is named by a member of Sessions, a call of open by a member of  *)
(* Payments.  Calls wait in the channel in no particular order: the real   *)
(* channel is FIFO, so every real order is among those explored.           *)
(*                                                                         *)
(* The module is a set of actions; Checkout conjoins them with the page's  *)
(* own state.                                                              *)
(***************************************************************************)
EXTENDS Naturals

CONSTANTS
    Sessions,    \* Placeorder pages, each with its own Razorpay object
    Payments,    \* calls of Razorpay.open
    NoSession,
    NoPayment,
    NoReply

VARIABLES
    listening,     \* pages whose event emitter has its handlers
    sheet,         \* sheet[p]: how far the payment sheet of call p has come
    owner,         \* owner[p]: the page that called open
    pendingResult, \* delegate: the call whose Result object it will answer
    answered,      \* pendingResult.success was called already
    pendingReply,  \* delegate: a result nobody was there to take
    resyncs,       \* resyncs[s]: resync calls of page s still in the channel
    replies        \* results on their way to a page

pluginVars == <<listening, sheet, owner, pendingResult, answered,
                pendingReply, resyncs, replies>>

ReplyTypes == {"success", "error", "external_wallet"}

\* One result of a payment sheet.
Result == [payment : Payments, type : ReplyTypes]

\* A result addressed to the emitter of one page.
Reply == [session : Sessions, payment : Payments, type : ReplyTypes]

ASSUME RazorpayAssumption ==
    /\ NoSession \notin Sessions
    /\ NoPayment \notin Payments
    /\ NoReply \notin Result

\* "invoked": open was called, the sheet does not cover the screen yet;
\* "open": it does; a reply type: it is closed with that result; "lost": the
\* process died before it showed.
SheetState == {"unused", "invoked", "open", "lost"} \cup ReplyTypes

PluginTypeOK ==
    /\ listening \subseteq Sessions
    /\ sheet \in [Payments -> SheetState]
    /\ owner \in [Payments -> Sessions \cup {NoSession}]
    /\ pendingResult \in Payments \cup {NoPayment}
    /\ answered \in BOOLEAN
    /\ pendingReply \in Result \cup {NoReply}
    /\ resyncs \in [Sessions -> 0..3]
    /\ replies \subseteq Reply

PluginInit ==
    /\ listening = {}
    /\ sheet = [p \in Payments |-> "unused"]
    /\ owner = [p \in Payments |-> NoSession]
    /\ pendingResult = NoPayment
    /\ answered = FALSE
    /\ pendingReply = NoReply
    /\ resyncs = [s \in Sessions |-> 0]
    /\ replies = {}

\* No payment sheet hides the application's own widgets.
Uncovered == \A p \in Payments : sheet[p] # "open"

-----------------------------------------------------------------------------
(* The Dart object. *)

\* on, called for each of the three events: every call ends in _resync.
On(s) ==
    /\ listening' = listening \cup {s}
    /\ resyncs' = [resyncs EXCEPT ![s] = 3]
    /\ UNCHANGED <<sheet, owner, pendingResult, answered, pendingReply, replies>>

\* clear: the emitter forgets its handlers; calls in the channel go on.
Clear(s) ==
    /\ listening' = listening \ {s}
    /\ UNCHANGED <<sheet, owner, pendingResult, answered, pendingReply,
                   resyncs, replies>>

\* open up to its await: the call is in the channel.
Open(s, p) ==
    /\ sheet[p] = "unused"
    /\ sheet' = [sheet EXCEPT ![p] = "invoked"]
    /\ owner' = [owner EXCEPT ![p] = s]
    /\ UNCHANGED <<listening, pendingResult, answered, pendingReply,
                   resyncs, replies>>

\* _handleResult takes reply r; whether a handler runs is the emitter's matter.
HandleResult(r) ==
    /\ r \in replies
    /\ replies' = replies \ {r}
    /\ UNCHANGED <<sheet, owner, pendingResult, answered, pendingReply, resyncs>>

-----------------------------------------------------------------------------
(* The Android delegate. *)

\* Mutant: the call's Result object is not kept.
OpenUnregistered(p) ==
    /\ sheet[p] = "invoked"
    /\ sheet' = [sheet EXCEPT ![p] = "open"]
    /\ UNCHANGED <<listening, owner, pendingResult, answered, pendingReply, resyncs,
                   replies>>

\* The sheet is started and the latest Result object replaces any other.  The
\* page's widgets stay live until the sheet covers them, so taps still come in
\* between Open and this step.
OpenCheckout(p) ==
    /\ sheet[p] = "invoked"
    /\ sheet' = [sheet EXCEPT ![p] = "open"]
    /\ pendingResult' = p
    /\ answered' = FALSE
    /\ UNCHANGED <<listening, owner, pendingReply, resyncs, replies>>

\* The sheet of p closes with result t and sendReply passes it on: to the
\* page whose call is registered, which need not be the page of p, or, after
\* a process death, to pendingReply.
SendReply(p, t) ==
    /\ sheet[p] = "open"
    /\ sheet' = [sheet EXCEPT ![p] = t]
    /\ \/ /\ pendingResult # NoPayment
          /\ ~answered
          /\ answered' = TRUE
          /\ replies' = replies \cup
               {[session |-> owner[pendingResult], payment |-> p, type |-> t]}
          /\ pendingReply' = NoReply
       \/ /\ pendingResult = NoPayment
          /\ pendingReply' = [payment |-> p, type |-> t]
          /\ UNCHANGED <<answered, replies>>
    /\ UNCHANGED <<listening, owner, pendingResult, resyncs>>

\* sendReply would answer the same Result object a second time, which the
\* engine refuses with an exception that ends the process.
AnswersTwice(p) ==
    /\ sheet[p] = "open"
    /\ pendingResult # NoPayment
    /\ answered

\* Mutant: the stored result is handed out and kept.
ResyncKeeps(s) ==
    /\ resyncs[s] > 0
    /\ resyncs' = [resyncs EXCEPT ![s] = @ - 1]
    /\ pendingReply # NoReply
    /\ replies' = replies \cup {[session |-> s, payment |-> pendingReply.payment,
                                  type |-> pendingReply.type]}
    /\ UNCHANGED <<listening, sheet, owner, pendingResult, answered, pendingReply>>

\* resync hands the stored result to the page that asks first, and forgets it.
Resync(s) ==
    /\ resyncs[s] > 0
    /\ resyncs' = [resyncs EXCEPT ![s] = @ - 1]
    /\ replies' = IF pendingReply = NoReply THEN replies
                  ELSE replies \cup {[session |-> s,
                                      payment |-> pendingReply.payment,
                                      type    |-> pendingReply.type]}
    /\ pendingReply' = NoReply
    /\ UNCHANGED <<listening, sheet, owner, pendingResult, answered>>

\* The process ends: Dart objects, the channel and the delegate are gone.  A
\* sheet on the screen is restored with the task and can still finish; those
\* in "closed" end with the process.
PluginRestart(closed) ==
    /\ listening' = {}
    /\ sheet' = [p \in Payments |->
                   IF p \in closed \/ sheet[p] = "invoked" THEN "lost"
                   ELSE sheet[p]]
    /\ pendingResult' = NoPayment
    /\ answered' = FALSE
    /\ pendingReply' = NoReply
    /\ resyncs' = [s \in Sessions |-> 0]
    /\ replies' = {}
    /\ UNCHANGED owner
=============================================================================
