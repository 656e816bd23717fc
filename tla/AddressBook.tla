----------------------------- MODULE AddressBook -----------------------------
(***************************************************************************)
(* The address list of the application, constantAddressDataResponse: the   *)
(* Account page (fragments/Account.dart) that adds and edits addresses,    *)
(* and the address panel of the Placeorder page that shows and picks one.  *)
(*                                                                         *)
(* Both pages can be in the navigator: Placeorder is pushed over the       *)
(* Account tab, whose answers keep replacing the list under it.            *)
(*                                                                         *)
(* Of the seven text fields, "fullname" stands for the five that both      *)
(* requests read alike, "city" for the two (city, state) they do not.      *)
(***************************************************************************)
EXTENDS Naturals, Sequences, FiniteSets

CONSTANTS
    Pages, NoPage,  \* Account pages, one State object each
    Texts,          \* what a buyer may type
    Empty,          \* the text of an untouched field
    MaxAddresses,   \* bound: addresses on the server
    MaxUpdates      \* bound: edits sent

ASSUME AddressBookAssumption ==
    /\ NoPage \notin Pages
    /\ Empty \notin Texts
    /\ MaxAddresses \in Nat /\ MaxUpdates \in Nat

VARIABLES
    account,    \* the Account page in the navigator
    view,       \* view[p]: the State object of Account page p
    book,       \* constantAddressDataResponse
    saved,      \* the server's addresses of this account
    requests,   \* address requests that have not ended
    panel,      \* the address panel of the Placeorder page on top
    updates     \* history: edits sent

vars == <<account, view, book, saved, requests, panel, updates>>

Fields == {"fullname", "city"}
Text == Texts \cup {Empty}
Form == [Fields -> Text]
Blank == [f \in Fields |-> Empty]

NoId == 0  \* valueselect without an address
Id == 1..MaxAddresses

Address == [addressId : Id, text : Form]
Books == {b \in UNION {[1..n -> Address] : n \in 0..MaxAddresses} :
            \A i, j \in DOMAIN b : b[i].addressId = b[j].addressId => i = j}

View == [isAddressAdd : BOOLEAN, isEdit : BOOLEAN, isLottieeffect : BOOLEAN,
         add : Form, edit : Form, addressid : Id \cup {NoId}]

NewView == [isAddressAdd |-> FALSE, isEdit |-> FALSE, isLottieeffect |-> FALSE,
            add |-> Blank, edit |-> Blank, addressid |-> NoId]

\* "storage": the handler awaits the device id; "sent": on its way; "answered":
\* the answer, the server's list at that time, is on its way.
Request == [page : Pages, kind : {"add", "update"}, at : {"storage", "sent", "answered"},
            text : Form, id : Id \cup {NoId}, answer : Books]

Panel == [open : BOOLEAN, valueselect : Id \cup {NoId}, selectposition : 1..MaxAddresses+1]

TypeOK ==
    /\ account \in Pages \cup {NoPage}
    /\ view \in [Pages -> View]
    /\ book \in Books
    /\ saved \in Books
    /\ requests \subseteq Request
    /\ panel \in Panel
    /\ updates \in 0..MaxUpdates

NoPanel == [open |-> FALSE, valueselect |-> NoId, selectposition |-> 1]

\* Boot: the list is the server's.
Init ==
    /\ account = NoPage
    /\ view = [p \in Pages |-> NewView]
    /\ \E b \in {b \in Books : Len(b) <= 1} :
         /\ \A i \in DOMAIN b : /\ b[i].addressId = i
                                 /\ Empty \notin {b[i].text[f] : f \in Fields}
         /\ book = b /\ saved = b
    /\ requests = {}
    /\ panel = NoPanel
    /\ updates = 0

-----------------------------------------------------------------------------
(* The Account page. *)

\* The account tab is selected: a new State object.
OpenAccount(p) ==
    /\ account = NoPage /\ ~panel.open
    /\ view[p] = NewView /\ \A r \in requests : r.page # p
    /\ account' = p
    /\ UNCHANGED <<view, book, saved, requests, panel, updates>>

\* Another tab; handlers of the old State object go on.
LeaveAccount ==
    /\ account # NoPage /\ ~panel.open
    /\ account' = NoPage
    /\ UNCHANGED <<view, book, saved, requests, panel, updates>>

\* The page's body can be used.
CanTap(p) == account = p /\ ~panel.open /\ ~view[p].isLottieeffect

AddFormShown(p) == CanTap(p) /\ view[p].isAddressAdd
EditFormShown(p) == CanTap(p) /\ ~view[p].isAddressAdd /\ view[p].isEdit /\ book # <<>>
ListShown(p) == CanTap(p) /\ ~view[p].isAddressAdd /\ ~view[p].isEdit

\* The "Add" button.
Add(p) ==
    /\ CanTap(p)
    /\ view' = [view EXCEPT ![p].isAddressAdd = TRUE, ![p].isEdit = FALSE]
    /\ UNCHANGED <<account, book, saved, requests, panel, updates>>

\* "Edit" of the address at index i.
Edit(p, i) ==
    /\ ListShown(p) /\ i \in DOMAIN book
    /\ view' = [view EXCEPT ![p].isEdit = TRUE, ![p].edit = book[i].text,
                            ![p].addressid = book[i].addressId]
    /\ UNCHANGED <<account, book, saved, requests, panel, updates>>

\* Typing into the form on screen.
TypeText(p, f, x) ==
    /\ \/ AddFormShown(p) /\ view' = [view EXCEPT ![p].add[f] = x]
       \/ EditFormShown(p) /\ view' = [view EXCEPT ![p].edit[f] = x]
    /\ UNCHANGED <<account, book, saved, requests, panel, updates>>

\* No field is empty, or a toast asks for it.
Complete(form) == \A f \in Fields : form[f] # Empty

Start(p, kind) ==
    requests' = requests \cup {[page |-> p, kind |-> kind, at |-> "storage",
                                text |-> Blank, id |-> NoId, answer |-> <<>>]}

\* Mutant: the spinner is left to the handler, which never turns it on.
ApplyAddNoSpinner(p) ==
    /\ AddFormShown(p) /\ Complete(view[p].add)
    /\ view' = [view EXCEPT ![p].isAddressAdd = FALSE]
    /\ Start(p, "add")
    /\ UNCHANGED <<account, book, saved, panel, updates>>

\* "Apply", up to the await in Addaddress.
ApplyAdd(p) ==
    /\ AddFormShown(p) /\ Complete(view[p].add)
    /\ view' = [view EXCEPT ![p].isAddressAdd = FALSE, ![p].isLottieeffect = TRUE]
    /\ Start(p, "add")
    /\ UNCHANGED <<account, book, saved, panel, updates>>

\* Mutant: the edit form closes without the spinner.
ApplyEditNoSpinner(p) ==
    /\ updates < MaxUpdates
    /\ EditFormShown(p) /\ Complete(view[p].edit)
    /\ view' = [view EXCEPT ![p].isEdit = FALSE, ![p].isAddressAdd = FALSE]
    /\ Start(p, "update")
    /\ updates' = updates + 1
    /\ UNCHANGED <<account, book, saved, panel>>

\* "Applay", up to the await in UpdateAddaddress.
ApplyEdit(p) ==
    /\ updates < MaxUpdates
    /\ EditFormShown(p) /\ Complete(view[p].edit)
    /\ view' = [view EXCEPT ![p].isEdit = FALSE, ![p].isAddressAdd = FALSE,
                            ![p].isLottieeffect = TRUE]
    /\ Start(p, "update")
    /\ updates' = updates + 1
    /\ UNCHANGED <<account, book, saved, panel>>

\* The texts a request carries: those of its form, but for the city, which
\* both handlers take from the controllers of the add form.
Body(v, kind) ==
    [fullname |-> IF kind = "add" THEN v.add["fullname"] ELSE v.edit["fullname"],
     city     |-> v.add["city"]]

\* The device id arrived: the texts are read now.
Send(r) ==
    /\ r.at = "storage"
    /\ LET v == view[r.page]
       IN  requests' = (requests \ {r}) \cup
             {[r EXCEPT !.at = "sent", !.text = Body(v, r.kind),
                        !.id = IF r.kind = "update" THEN v.addressid ELSE NoId]}
    /\ UNCHANGED <<account, view, book, saved, panel, updates>>

\* The server: a new address goes to the end, an edited one stays in place, and
\* the answer is the whole list.
Serve(r) ==
    /\ r.at = "sent"
    /\ \/ /\ r.kind = "add" /\ Len(saved) < MaxAddresses
          /\ saved' = Append(saved, [addressId |-> Len(saved) + 1, text |-> r.text])
       \/ /\ r.kind = "update"
          /\ saved' = [i \in DOMAIN saved |->
                         IF saved[i].addressId = r.id
                         THEN [saved[i] EXCEPT !.text = r.text] ELSE saved[i]]
    /\ requests' = (requests \ {r}) \cup {[r EXCEPT !.at = "answered", !.answer = saved']}
    /\ UNCHANGED <<account, view, book, panel, updates>>

\* Mutant: the old addresses stay in front of the answer.
ReplyAppends(r) ==
    /\ r.at = "answered"
    /\ book' = book \o r.answer
    /\ view' = [view EXCEPT ![r.page].isLottieeffect = FALSE]
    /\ requests' = requests \ {r}
    /\ UNCHANGED <<account, saved, panel, updates>>

\* An answer replaces the list, also when its page is gone.
Reply(r) ==
    /\ r.at = "answered"
    /\ book' = IF r.answer # <<>> THEN r.answer ELSE book
    /\ view' = [view EXCEPT ![r.page].isLottieeffect = FALSE]
    /\ requests' = requests \ {r}
    /\ UNCHANGED <<account, saved, panel, updates>>

\* No answer, or none with a list: the handler ends in an exception and the
\* spinner stays.
Throws(r) ==
    /\ r.at # "storage"
    /\ requests' = requests \ {r}
    /\ UNCHANGED <<account, view, book, saved, panel, updates>>

-----------------------------------------------------------------------------
(* The address panel of Placeorder. *)

\* The page is pushed: its fields start with the first address.
OpenPanel ==
    /\ ~panel.open
    /\ panel' = [open |-> TRUE,
                 valueselect |-> IF book = <<>> THEN NoId ELSE book[1].addressId,
                 selectposition |-> 1]
    /\ UNCHANGED <<account, view, book, saved, requests, updates>>

\* Mutant: the drop-down picks an id and leaves the index.
SelectAddressId(i) ==
    /\ panel.open /\ i \in DOMAIN book
    /\ panel' = [panel EXCEPT !.valueselect = book[i].addressId]
    /\ UNCHANGED <<account, view, book, saved, requests, updates>>

\* The drop-down picks an id and looks up its index.
SelectAddress(i) ==
    /\ panel.open /\ i \in DOMAIN book
    /\ panel' = [panel EXCEPT !.valueselect = book[i].addressId, !.selectposition = i]
    /\ UNCHANGED <<account, view, book, saved, requests, updates>>

\* The page is left, back to what is under it.
ClosePanel ==
    /\ panel.open
    /\ panel' = NoPanel
    /\ UNCHANGED <<account, view, book, saved, requests, updates>>

\* "Add" in the panel if it is empty, "Edit" if not: every page goes, the account
\* tab opens.
PanelAdd(p) ==
    /\ panel.open
    /\ view[p] = NewView /\ p # account /\ \A r \in requests : r.page # p
    /\ panel' = NoPanel
    /\ account' = p
    /\ UNCHANGED <<view, book, saved, requests, updates>>

-----------------------------------------------------------------------------
AccountStep(p) ==
    \/ OpenAccount(p)
    \/ Add(p)
    \/ \E i \in 1..MaxAddresses : Edit(p, i)
    \/ \E f \in Fields, x \in Text : TypeText(p, f, x)
    \/ ApplyAdd(p)
    \/ ApplyEdit(p)

RequestStep(r) == Send(r) \/ Serve(r) \/ Reply(r) \/ Throws(r)

PanelStep ==
    \/ OpenPanel
    \/ \E i \in 1..MaxAddresses : SelectAddress(i)
    \/ ClosePanel
    \/ \E p \in Pages : PanelAdd(p)

Next ==
    \/ \E p \in Pages : AccountStep(p)
    \/ LeaveAccount
    \/ \E r \in requests : RequestStep(r)
    \/ PanelStep

Spec == Init /\ [][Next]_vars

-----------------------------------------------------------------------------
\* A request that is under way hides the body of its page, and is the only one
\* of its page: the texts it has yet to read cannot change, nor can a second
\* tap send them again.
SpinnerCoversRequest ==
    /\ \A r \in requests : view[r.page].isLottieeffect
    /\ \A r, u \in requests : r.page = u.page => r = u

\* The toasts keep their word for a new address: although the texts are read
\* after an await, none the server gets is empty.
AddedComplete ==
    \A r \in requests : r.kind = "add" /\ r.at # "storage" => Complete(r.text)

\* "Enter your City..!!" of the edit form: an edited address reaches the server
\* with a city.
EditedHasCity ==
    \A r \in requests : r.kind = "update" /\ r.at # "storage" => r.text["city"] # Empty

\* The list may be behind the server but keeps its order and invents nothing,
\* in whatever order requests are served and answers come in.
BookIsPrefix ==
    /\ Len(book) <= Len(saved)
    /\ \A i \in DOMAIN book : book[i].addressId = saved[i].addressId

\* The address Placeorder shows, found by its index in a list that changes
\* under the page, is the one whose id the order will carry.
ShownIsSent ==
    panel.open /\ panel.valueselect # NoId /\ panel.selectposition \in DOMAIN book
      => book[panel.selectposition].addressId = panel.valueselect
=============================================================================
