-------------------------- MODULE AddressBookProofs --------------------------
(***************************************************************************)
(* Theorems about AddressBook, for any pages, texts and bounds: it is well *)
(* typed, the spinner covers the one request of its page, no address is    *)
(* added with an empty field, the list is the server's or an older one,    *)
(* and the address shown is the one that will be sent.                     *)
(***************************************************************************)
EXTENDS AddressBook, SequenceTheorems, TLAPS

\* Addresses are numbered in the order of the list.
Numbered(b) == \A i \in DOMAIN b : b[i].addressId = i

\* An answer is what the server's list was.
Answered(r) ==
    r.at = "answered" => Numbered(r.answer) /\ Len(r.answer) <= Len(saved)

BooksInv ==
    /\ Numbered(book) /\ Numbered(saved)
    /\ Len(book) <= Len(saved)
    /\ \A r \in requests : Answered(r)

\* The id of the panel is the number its index stands for.
PanelInv == panel.valueselect # NoId => panel.selectposition = panel.valueselect

TypeInv == TypeOK /\ BooksInv

-----------------------------------------------------------------------------
(* Lists of addresses. *)

LEMMA BookShape ==
    ASSUME NEW b \in Books
    PROVE  /\ b \in Seq(Address)
           /\ Len(b) \in 0..MaxAddresses
           /\ DOMAIN b = 1..Len(b)
           /\ \A i \in DOMAIN b : b[i] \in Address
<1>1. PICK n \in 0..MaxAddresses : b \in [1..n -> Address]
  BY DEF Books
<1>2. n \in Nat
  BY <1>1, AddressBookAssumption
<1>3. Len(b) = n /\ b \in Seq(Address)
  BY <1>1, <1>2
<1>4. QED
  BY <1>1, <1>3

LEMMA NumberedBook ==
    ASSUME NEW n \in 0..MaxAddresses, NEW b \in [1..n -> Address], Numbered(b)
    PROVE  b \in Books
BY DEF Books, Numbered

\* A new address goes to the end and takes the next number.
LEMMA AppendNumbered ==
    ASSUME NEW b \in Books, Numbered(b), Len(b) < MaxAddresses, NEW x \in Form,
           NEW c, c = Append(b, [addressId |-> Len(b) + 1, text |-> x])
    PROVE  c \in Books /\ Numbered(c) /\ Len(c) = Len(b) + 1
<1> DEFINE a == [addressId |-> Len(b) + 1, text |-> x]
<1>1. b \in Seq(Address) /\ Len(b) \in 0..MaxAddresses /\ DOMAIN b = 1..Len(b)
  BY BookShape
<1>2. Len(b) + 1 \in 1..MaxAddresses
  BY <1>1, AddressBookAssumption
<1>3. a \in Address
  BY <1>2 DEF Address, Id
<1>4. /\ c \in Seq(Address) /\ Len(c) = Len(b) + 1
      /\ c[Len(b) + 1] = a
      /\ \A i \in 1..Len(b) : c[i] = b[i]
  BY <1>1, <1>3
<1> HIDE DEF a
<1>5. DOMAIN c = 1..Len(b) + 1 /\ c \in [1..Len(b) + 1 -> Address]
  BY <1>4, LenProperties
<1>6. Numbered(c)
  <2> SUFFICES ASSUME NEW i \in 1..Len(b) + 1 PROVE c[i].addressId = i
    BY <1>5 DEF Numbered
  <2>1. CASE i = Len(b) + 1
    BY <2>1, <1>4 DEF a
  <2>2. CASE i \in 1..Len(b)
    BY <2>2, <1>1, <1>4 DEF Numbered
  <2>3. QED
    BY <2>1, <2>2, <1>1
<1>7. c \in Books
  <2>1. Len(b) + 1 \in 0..MaxAddresses
    BY <1>2, AddressBookAssumption
  <2>2. QED
    BY <2>1, <1>5, <1>6, NumberedBook
<1>8. QED
  BY <1>4, <1>6, <1>7

\* An edit keeps number and place of every address.
LEMMA EditNumbered ==
    ASSUME NEW b \in Books, Numbered(b), NEW c \in [DOMAIN b -> Address],
           \A i \in DOMAIN b : c[i].addressId = b[i].addressId
    PROVE  c \in Books /\ Numbered(c) /\ Len(c) = Len(b)
<1>1. Len(b) \in 0..MaxAddresses /\ DOMAIN b = 1..Len(b)
  BY BookShape
<1>2. c \in [1..Len(b) -> Address] /\ Len(c) = Len(b)
  BY <1>1
<1>3. Numbered(c)
  BY <1>1, <1>2 DEF Numbered
<1>4. QED
  BY <1>1, <1>2, <1>3, NumberedBook

-----------------------------------------------------------------------------
(* Types. *)

LEMMA FormTyped ==
    /\ Blank \in Form
    /\ NewView \in View
    /\ \A v \in View : \A kind \in {"add", "update"} : Body(v, kind) \in Form
<1>1. Blank \in Form
  BY DEF Blank, Form, Text
<1>2. NewView \in View
  BY <1>1 DEF NewView, View
<1>3. ASSUME NEW v \in View, NEW kind \in {"add", "update"} PROVE Body(v, kind) \in Form
  <2>1. v.add \in [Fields -> Text] /\ v.edit \in [Fields -> Text]
    BY DEF View, Form
  <2>2. v.add["fullname"] \in Text /\ v.edit["fullname"] \in Text /\ v.add["city"] \in Text
    BY <2>1 DEF Fields
  <2>3. QED
    BY <2>2 DEF Body, Form, Fields
<1>4. QED
  BY <1>1, <1>2, <1>3

LEMMA EmptyBook == <<>> \in Books
<1>1. <<>> \in [1..0 -> Address] /\ Numbered(<<>>)
  BY DEF Numbered
<1>2. 0 \in 0..MaxAddresses
  BY AddressBookAssumption
<1>3. QED
  BY <1>1, <1>2, NumberedBook

LEMMA InitTyped == Init => TypeInv /\ PanelInv
<1> SUFFICES ASSUME Init PROVE TypeInv /\ PanelInv
  OBVIOUS
<1>1. PICK b \in Books :
        /\ Len(b) <= 1
        /\ \A i \in DOMAIN b : b[i].addressId = i
        /\ book = b /\ saved = b
  BY DEF Init
<1>2. Len(b) \in Nat
  BY <1>1, BookShape, AddressBookAssumption
<1>3. BooksInv
  BY <1>1, <1>2 DEF Init, BooksInv, Numbered
<1>4. panel \in Panel /\ updates \in 0..MaxUpdates
  BY AddressBookAssumption DEF Init, NoPanel, Panel
<1>5. TypeOK
  BY <1>1, <1>4, FormTyped DEF Init, TypeOK
<1>6. QED
  BY <1>3, <1>5 DEF TypeInv, PanelInv, Init, NoPanel

-----------------------------------------------------------------------------
\* A step that changes no list and no answer.
LEMMA SameBooks ==
    ASSUME TypeInv, UNCHANGED <<book, saved>>,
           \A r \in requests' : r \in requests \/ r.at # "answered"
    PROVE  BooksInv'
BY DEF TypeInv, BooksInv, Numbered, Answered

LEMMA StartTyped ==
    ASSUME TypeOK, NEW p \in Pages, NEW kind \in {"add", "update"}, Start(p, kind)
    PROVE  /\ requests' \subseteq Request
           /\ \A r \in requests' : r \in requests \/ (r.page = p /\ r.at = "storage")
<1>1. [page |-> p, kind |-> kind, at |-> "storage",
       text |-> Blank, id |-> NoId, answer |-> <<>>] \in Request
  BY FormTyped, EmptyBook DEF Request
<1>2. QED
  BY <1>1 DEF Start, TypeOK

LEMMA AccountTyped ==
    ASSUME TypeInv, NEW p \in Pages, AccountStep(p) PROVE TypeInv'
<1> USE DEF TypeInv
<1>1. TypeOK /\ view[p] \in View
  BY DEF TypeOK
<1>2. CASE OpenAccount(p)
  <2>1. TypeOK'
    BY <1>1, <1>2 DEF OpenAccount, TypeOK
  <2>2. QED
    BY <1>2, <2>1, SameBooks DEF OpenAccount
<1>3. CASE Add(p)
  <2>1. [view[p] EXCEPT !.isAddressAdd = TRUE, !.isEdit = FALSE] \in View
    BY <1>1 DEF View
  <2>2. view' \in [Pages -> View]
    BY <1>1, <1>3, <2>1 DEF Add, TypeOK
  <2>3. TypeOK'
    BY <1>1, <1>3, <2>2 DEF Add, TypeOK
  <2>4. QED
    BY <1>3, <2>3, SameBooks DEF Add
<1>4. ASSUME NEW i \in 1..MaxAddresses, Edit(p, i) PROVE TypeInv'
  <2>1. book[i].text \in Form /\ book[i].addressId \in Id
    <3>1. book \in Seq(Address) /\ i \in 1..Len(book)
      BY <1>1, <1>4, BookShape DEF Edit, TypeOK
    <3>2. book[i] \in Address
      BY <3>1
    <3>3. QED
      BY <3>2 DEF Address
  <2>2. [view[p] EXCEPT !.isEdit = TRUE, !.edit = book[i].text,
                        !.addressid = book[i].addressId] \in View
    BY <1>1, <2>1 DEF View
  <2>3. view' \in [Pages -> View]
    BY <1>1, <1>4, <2>2 DEF Edit, TypeOK
  <2>4. TypeOK'
    BY <1>1, <1>4, <2>3 DEF Edit, TypeOK
  <2>5. QED
    BY <1>4, <2>4, SameBooks DEF Edit
<1>5. ASSUME NEW f \in Fields, NEW x \in Text, TypeText(p, f, x) PROVE TypeInv'
  <2>1. view[p].add \in Form /\ view[p].edit \in Form
    BY <1>1 DEF View
  <2>2. [view[p].add EXCEPT ![f] = x] \in Form /\ [view[p].edit EXCEPT ![f] = x] \in Form
    BY <2>1 DEF Form
  <2>3. /\ [view[p] EXCEPT !.add = [view[p].add EXCEPT ![f] = x]] \in View
        /\ [view[p] EXCEPT !.edit = [view[p].edit EXCEPT ![f] = x]] \in View
    BY <1>1, <2>2 DEF View
  <2>4. view' \in [Pages -> View]
    BY <1>1, <1>5, <2>3 DEF TypeText, TypeOK
  <2>5. TypeOK'
    BY <1>1, <1>5, <2>4 DEF TypeText, TypeOK
  <2>6. QED
    BY <1>5, <2>5, SameBooks DEF TypeText
<1>6. CASE ApplyAdd(p)
  <2>1. [view[p] EXCEPT !.isAddressAdd = FALSE, !.isLottieeffect = TRUE] \in View
    BY <1>1 DEF View
  <2>2. view' \in [Pages -> View]
    BY <1>1, <1>6, <2>1 DEF ApplyAdd, TypeOK
  <2>3. TypeOK'
    BY <1>1, <1>6, <2>2, StartTyped DEF ApplyAdd, TypeOK
  <2>4. QED
    BY <1>1, <1>6, <2>3, StartTyped, SameBooks DEF ApplyAdd
<1>7. CASE ApplyEdit(p)
  <2>1. [view[p] EXCEPT !.isEdit = FALSE, !.isAddressAdd = FALSE,
                        !.isLottieeffect = TRUE] \in View
    BY <1>1 DEF View
  <2>2. view' \in [Pages -> View]
    BY <1>1, <1>7, <2>1 DEF ApplyEdit, TypeOK
  <2>3. updates' \in 0..MaxUpdates
    BY <1>1, <1>7, AddressBookAssumption DEF ApplyEdit, TypeOK
  <2>4. TypeOK'
    BY <1>1, <1>7, <2>2, <2>3, StartTyped DEF ApplyEdit, TypeOK
  <2>5. QED
    BY <1>1, <1>7, <2>4, StartTyped, SameBooks DEF ApplyEdit
<1>8. QED
  BY <1>2, <1>3, <1>4, <1>5, <1>6, <1>7 DEF AccountStep

LEMMA SendTyped ==
    ASSUME TypeInv, NEW r \in requests, Send(r) PROVE TypeInv'
<1>1. TypeOK /\ r \in Request /\ view[r.page] \in View
  BY DEF TypeInv, TypeOK, Request
<1> DEFINE u == [r EXCEPT !.at = "sent", !.text = Body(view[r.page], r.kind),
                   !.id = IF r.kind = "update" THEN view[r.page].addressid ELSE NoId]
<1>2. Body(view[r.page], r.kind) \in Form
  BY <1>1, FormTyped DEF Request
<1>3. u \in Request /\ u.at = "sent"
  BY <1>1, <1>2 DEF Request, View
<1>4. requests' = (requests \ {r}) \cup {u}
  BY DEF Send
<1> HIDE DEF u
<1>5. TypeOK'
  BY <1>1, <1>3, <1>4 DEF Send, TypeOK
<1>6. QED
  BY <1>3, <1>4, <1>5, SameBooks DEF Send, TypeInv

LEMMA ServeTyped ==
    ASSUME TypeInv, NEW r \in requests, Serve(r) PROVE TypeInv'
<1>1. TypeOK /\ r \in Request /\ r.text \in Form
  BY DEF TypeInv, TypeOK, Request
<1>2. saved \in Books /\ Numbered(saved) /\ Len(saved) \in Nat /\ Len(book) \in Nat
  BY <1>1, BookShape, AddressBookAssumption DEF TypeInv, BooksInv, TypeOK
<1>3. saved' \in Books /\ Numbered(saved') /\ Len(saved) <= Len(saved')
  <2>1. CASE r.kind = "add"
    <3>1. /\ Len(saved) < MaxAddresses
          /\ saved' = Append(saved, [addressId |-> Len(saved) + 1, text |-> r.text])
      BY <2>1 DEF Serve
    <3>2. saved' \in Books /\ Numbered(saved') /\ Len(saved') = Len(saved) + 1
      BY <1>1, <1>2, <3>1, AppendNumbered
    <3>3. QED
      BY <1>2, <3>2
  <2>2. CASE r.kind = "update"
    <3>1. saved' = [i \in DOMAIN saved |->
                      IF saved[i].addressId = r.id
                      THEN [saved[i] EXCEPT !.text = r.text] ELSE saved[i]]
      BY <2>2 DEF Serve
    <3>2. \A i \in DOMAIN saved : saved[i] \in Address
      BY <1>2, BookShape
    <3>3. \A i \in DOMAIN saved :
            saved'[i] \in Address /\ saved'[i].addressId = saved[i].addressId
      BY <1>1, <3>1, <3>2 DEF Address
    <3>4. saved' \in [DOMAIN saved -> Address]
      BY <3>1, <3>3
    <3>5. saved' \in Books /\ Numbered(saved') /\ Len(saved') = Len(saved)
      BY <1>2, <3>3, <3>4, EditNumbered
    <3>6. QED
      BY <1>2, <3>5
  <2>3. QED
    BY <2>1, <2>2 DEF Serve
<1>4. Len(saved') \in Nat
  BY <1>3, BookShape, AddressBookAssumption
<1> DEFINE u == [r EXCEPT !.at = "answered", !.answer = saved']
<1>5. u \in Request /\ u.answer = saved'
  BY <1>1, <1>3 DEF Request
<1>6. requests' = (requests \ {r}) \cup {u}
  BY DEF Serve
<1> HIDE DEF u
<1>7. TypeOK'
  BY <1>1, <1>3, <1>5, <1>6 DEF Serve, TypeOK
<1>8. \A q \in requests' :
        q.at = "answered" => Numbered(q.answer) /\ Len(q.answer) <= Len(saved')
  <2>1. Numbered(u.answer) /\ Len(u.answer) <= Len(saved')
    BY <1>3, <1>4, <1>5
  <2>2. ASSUME NEW q \in requests, q.at = "answered"
        PROVE  Numbered(q.answer) /\ Len(q.answer) <= Len(saved')
    <3>1. q.answer \in Books
      BY <1>1 DEF TypeOK, Request
    <3>2. Len(q.answer) \in Nat
      BY <3>1, BookShape, AddressBookAssumption
    <3>3. QED
      BY <2>2, <1>2, <1>3, <1>4, <3>2 DEF Answered, TypeInv, BooksInv
  <2>3. QED
    BY <1>6, <2>1, <2>2
<1>9. BooksInv'
  BY <1>2, <1>3, <1>4, <1>8 DEF TypeInv, BooksInv, Serve, Answered
<1>10. QED
  BY <1>7, <1>9 DEF TypeInv

LEMMA ReplyTyped ==
    ASSUME TypeInv, NEW r \in requests, Reply(r) PROVE TypeInv'
<1>1. TypeOK /\ r \in Request /\ view[r.page] \in View
  BY DEF TypeInv, TypeOK, Request
<1>2. [view[r.page] EXCEPT !.isLottieeffect = FALSE] \in View
  BY <1>1 DEF View
<1>3. view' \in [Pages -> View]
  BY <1>1, <1>2 DEF Reply, TypeOK
<1>4. r.answer \in Books
  BY <1>1 DEF Request
<1>5. TypeOK'
  BY <1>1, <1>3, <1>4 DEF Reply, TypeOK
<1>6. Numbered(r.answer) /\ Len(r.answer) <= Len(saved)
  BY DEF TypeInv, BooksInv, Answered, Reply
<1>7. BooksInv'
  BY <1>6 DEF TypeInv, BooksInv, Answered, Reply, Numbered
<1>8. QED
  BY <1>5, <1>7 DEF TypeInv

LEMMA ThrowsTyped ==
    ASSUME TypeInv, NEW r \in requests, Throws(r) PROVE TypeInv'
BY SameBooks DEF Throws, TypeInv, TypeOK

LEMMA PanelTyped == ASSUME TypeInv, PanelStep PROVE TypeInv'
<1>1. TypeOK /\ MaxAddresses \in Nat
  BY AddressBookAssumption DEF TypeInv
<1>2. \A i \in 1..MaxAddresses : i \in DOMAIN book => book[i].addressId \in Id
  <2>1. \A i \in DOMAIN book : book[i] \in Address
    BY <1>1, BookShape DEF TypeOK
  <2>2. QED
    BY <2>1 DEF Address
<1>3. NoPanel \in Panel
  BY <1>1 DEF NoPanel, Panel
<1>4. CASE OpenPanel
  <2>1. book # <<>> => 1 \in DOMAIN book /\ 1 \in 1..MaxAddresses
    <3>1. Len(book) \in 0..MaxAddresses /\ DOMAIN book = 1..Len(book) /\ book \in Seq(Address)
      BY <1>1, BookShape DEF TypeOK
    <3>2. book # <<>> => Len(book) # 0
      BY <3>1
    <3>3. QED
      BY <1>1, <3>1, <3>2
  <2>2. panel' \in Panel
    BY <1>1, <1>2, <1>4, <2>1 DEF OpenPanel, Panel
  <2>3. TypeOK'
    BY <1>1, <1>4, <2>2 DEF OpenPanel, TypeOK
  <2>4. QED
    BY <1>4, <2>3, SameBooks DEF OpenPanel, TypeInv
<1>5. ASSUME NEW i \in 1..MaxAddresses, SelectAddress(i) PROVE TypeInv'
  <2>1. panel \in Panel /\ book[i].addressId \in Id /\ i \in 1..MaxAddresses+1
    BY <1>1, <1>2, <1>5 DEF TypeOK, SelectAddress
  <2>2. panel' \in Panel
    BY <1>5, <2>1 DEF SelectAddress, Panel
  <2>3. TypeOK'
    BY <1>1, <1>5, <2>2 DEF SelectAddress, TypeOK
  <2>4. QED
    BY <1>5, <2>3, SameBooks DEF SelectAddress, TypeInv
<1>6. CASE ClosePanel
  BY <1>1, <1>3, <1>6, SameBooks DEF ClosePanel, TypeInv, TypeOK
<1>7. ASSUME NEW p \in Pages, PanelAdd(p) PROVE TypeInv'
  BY <1>1, <1>3, <1>7, SameBooks DEF PanelAdd, TypeInv, TypeOK
<1>8. QED
  BY <1>4, <1>5, <1>6, <1>7 DEF PanelStep

LEMMA TypeStep == TypeInv /\ [Next]_vars => TypeInv'
<1> SUFFICES ASSUME TypeInv, [Next]_vars PROVE TypeInv'
  OBVIOUS
<1>1. CASE UNCHANGED vars
  BY <1>1, SameBooks DEF vars, TypeInv, TypeOK
<1>2. CASE LeaveAccount
  BY <1>2, SameBooks DEF LeaveAccount, TypeInv, TypeOK
<1>3. ASSUME NEW r \in requests, RequestStep(r) PROVE TypeInv'
  BY <1>3, SendTyped, ServeTyped, ReplyTyped, ThrowsTyped DEF RequestStep
<1>4. QED
  BY <1>1, <1>2, <1>3, AccountTyped, PanelTyped DEF Next

\* Every reachable state of AddressBook is well typed: no list of addresses
\* names one twice or outgrows the server, whatever the order of answers.
THEOREM TypeCorrect == Spec => []TypeOK
<1>1. Init => TypeInv
  BY InitTyped
<1>2. TypeInv => TypeOK
  BY DEF TypeInv
<1>3. QED
  BY <1>1, <1>2, TypeStep, PTL DEF Spec

\* Requests of different Account pages are served, and their answers taken, in
\* any order: the list the application shows keeps the server's order.
THEOREM PrefixCorrect == Spec => []BookIsPrefix
<1>1. TypeInv => BookIsPrefix
  <2> SUFFICES ASSUME TypeInv PROVE BookIsPrefix
    OBVIOUS
  <2>1. /\ DOMAIN book = 1..Len(book) /\ Len(book) \in 0..MaxAddresses
        /\ DOMAIN saved = 1..Len(saved) /\ Len(saved) \in 0..MaxAddresses
    BY BookShape DEF TypeInv, TypeOK
  <2>2. Numbered(book) /\ Numbered(saved) /\ Len(book) <= Len(saved)
    BY DEF TypeInv, BooksInv
  <2>3. DOMAIN book \subseteq DOMAIN saved
    BY <2>1, <2>2, AddressBookAssumption
  <2>4. QED
    BY <2>2, <2>3 DEF BookIsPrefix, Numbered
<1>2. Init => TypeInv
  BY InitTyped
<1>3. QED
  BY <1>1, <1>2, TypeStep, PTL DEF Spec

-----------------------------------------------------------------------------
(* The address panel. *)

LEMMA PanelStepInv == TypeInv /\ PanelInv /\ [Next]_vars => PanelInv'
<1> SUFFICES ASSUME TypeInv, PanelInv, [Next]_vars PROVE PanelInv'
  OBVIOUS
<1>1. Numbered(book) /\ book \in Books /\ panel \in Panel
  BY DEF TypeInv, TypeOK, BooksInv
<1>2. CASE panel' = panel
  BY <1>2 DEF PanelInv
<1>3. CASE OpenPanel
  <2>1. book # <<>> => 1 \in DOMAIN book
    <3>1. Len(book) \in 0..MaxAddresses /\ DOMAIN book = 1..Len(book) /\ book \in Seq(Address)
      BY <1>1, BookShape
    <3>2. book # <<>> => Len(book) # 0
      BY <3>1
    <3>3. QED
      BY <3>1, <3>2, AddressBookAssumption
  <2>2. book # <<>> => book[1].addressId = 1
    BY <1>1, <2>1 DEF Numbered
  <2>3. QED
    BY <1>3, <2>2 DEF OpenPanel, PanelInv
<1>4. ASSUME NEW i \in 1..MaxAddresses, SelectAddress(i) PROVE PanelInv'
  BY <1>1, <1>4 DEF SelectAddress, Panel, PanelInv, Numbered
<1>5. CASE panel' = NoPanel
  BY <1>5 DEF PanelInv, NoPanel
<1>6. CASE PanelStep
  BY <1>3, <1>4, <1>5, <1>6 DEF PanelStep, ClosePanel, PanelAdd
<1>7. ASSUME NEW p \in Pages, AccountStep(p) PROVE panel' = panel
  BY <1>7 DEF AccountStep, OpenAccount, Add, Edit, TypeText, ApplyAdd, ApplyEdit
<1>8. ASSUME NEW r \in requests, RequestStep(r) PROVE panel' = panel
  BY <1>8 DEF RequestStep, Send, Serve, Reply, Throws
<1>9. QED
  BY <1>2, <1>6, <1>7, <1>8 DEF Next, LeaveAccount, vars

\* The panel keeps an id and an index into a list that answers replace under
\* it; both name the same address as long as the list is long enough.
THEOREM ShownCorrect == Spec => []ShownIsSent
<1>1. TypeInv /\ PanelInv => ShownIsSent
  BY DEF TypeInv, BooksInv, PanelInv, ShownIsSent, Numbered
<1>2. Init => TypeInv /\ PanelInv
  BY InitTyped
<1>3. QED
  BY <1>1, <1>2, TypeStep, PanelStepInv, PTL DEF Spec

-----------------------------------------------------------------------------
(* The spinner, and what a new address carries. *)

\* Until the texts are read they stay complete on the page.
AddedInv ==
    \A r \in requests : r.kind = "add" =>
        Complete(IF r.at = "storage" THEN view[r.page].add ELSE r.text)

CoverInv == SpinnerCoversRequest /\ AddedInv

\* Nothing of a page that can be used has been sent and not answered.
LEMMA TappableIsIdle ==
    ASSUME SpinnerCoversRequest, NEW p \in Pages, CanTap(p)
    PROVE  \A r \in requests : r.page # p
BY DEF SpinnerCoversRequest, CanTap

LEMMA AccountCover ==
    ASSUME TypeOK, CoverInv, NEW p \in Pages, AccountStep(p) PROVE CoverInv'
<1>1. view \in [Pages -> View] /\ view[p] \in View /\ \A r \in requests : r.page \in Pages
  BY DEF TypeOK, Request
<1>2. \A q \in Pages : q # p => view'[q] = view[q]
  BY <1>1 DEF AccountStep, OpenAccount, Add, Edit, TypeText, ApplyAdd, ApplyEdit
<1>3. CASE OpenAccount(p)
  BY <1>3 DEF OpenAccount, CoverInv, SpinnerCoversRequest, AddedInv
<1>4. CASE requests' = requests /\ CanTap(p)
  <2>1. \A r \in requests : view'[r.page] = view[r.page]
    BY <1>1, <1>2, <1>4, TappableIsIdle DEF CoverInv
  <2>2. QED
    BY <1>4, <2>1 DEF CoverInv, SpinnerCoversRequest, AddedInv
<1>5. ASSUME NEW kind \in {"add", "update"}, Start(p, kind), CanTap(p),
             view'[p].isLottieeffect,
             kind = "add" => Complete(view'[p].add)
      PROVE  CoverInv'
  <2> DEFINE u == [page |-> p, kind |-> kind, at |-> "storage",
                   text |-> Blank, id |-> NoId, answer |-> <<>>]
  <2>1. requests' = requests \cup {u}
    BY <1>5 DEF Start
  <2>2. u.page = p /\ u.kind = kind /\ u.at = "storage"
    OBVIOUS
  <2> HIDE DEF u
  <2>3. \A r \in requests : r.page # p /\ view'[r.page] = view[r.page]
    BY <1>1, <1>2, <1>5, TappableIsIdle DEF CoverInv
  <2>4. SpinnerCoversRequest'
    BY <1>5, <2>1, <2>2, <2>3 DEF CoverInv, SpinnerCoversRequest
  <2>5. AddedInv'
    BY <1>5, <2>1, <2>2, <2>3 DEF CoverInv, AddedInv
  <2>6. QED
    BY <2>4, <2>5 DEF CoverInv
<1>6. CASE ApplyAdd(p)
  <2>1. view'[p].isLottieeffect /\ view'[p].add = view[p].add
    BY <1>1, <1>6 DEF ApplyAdd, View
  <2>2. QED
    BY <1>5, <1>6, <2>1 DEF ApplyAdd, AddFormShown
<1>7. CASE ApplyEdit(p)
  <2>1. view'[p].isLottieeffect
    BY <1>1, <1>7 DEF ApplyEdit, View
  <2>2. QED
    BY <1>5, <1>7, <2>1 DEF ApplyEdit, EditFormShown
<1>8. QED
  BY <1>3, <1>4, <1>6, <1>7
  DEF AccountStep, Add, Edit, TypeText, ListShown, AddFormShown, EditFormShown

LEMMA RequestCover ==
    ASSUME TypeOK, CoverInv, NEW r \in requests, RequestStep(r) PROVE CoverInv'
<1>1. /\ view \in [Pages -> View] /\ r \in Request /\ view[r.page] \in View
      /\ \A q \in requests : q.page \in Pages
  BY DEF TypeOK, Request
<1>2. \A q \in requests \ {r} : q.page # r.page
  BY DEF CoverInv, SpinnerCoversRequest
<1>3. CASE requests' = requests \ {r} /\ \A q \in requests \ {r} : view'[q.page] = view[q.page]
  BY <1>3 DEF CoverInv, SpinnerCoversRequest, AddedInv
<1>4. ASSUME NEW u, requests' = (requests \ {r}) \cup {u}, view' = view,
             u.page = r.page, u.kind = r.kind,
             u.kind = "add" => u.at # "storage" /\ Complete(u.text)
      PROVE  CoverInv'
  BY <1>2, <1>4 DEF CoverInv, SpinnerCoversRequest, AddedInv
<1>5. CASE Send(r)
  <2> DEFINE u == [r EXCEPT !.at = "sent", !.text = Body(view[r.page], r.kind),
                     !.id = IF r.kind = "update" THEN view[r.page].addressid ELSE NoId]
  <2>1. /\ u.page = r.page /\ u.kind = r.kind /\ u.at = "sent"
        /\ u.text = Body(view[r.page], r.kind)
    BY <1>1 DEF Request
  <2>2. requests' = (requests \ {r}) \cup {u} /\ view' = view /\ r.at = "storage"
    BY <1>5 DEF Send
  <2> HIDE DEF u
  <2>3. r.kind = "add" => Complete(Body(view[r.page], r.kind))
    <3>1. ASSUME r.kind = "add" PROVE Complete(view[r.page].add)
      BY <2>2, <3>1 DEF CoverInv, AddedInv
    <3>2. QED
      BY <3>1 DEF Complete, Body, Fields
  <2>4. QED
    BY <1>4, <2>1, <2>2, <2>3
<1>6. CASE Serve(r)
  <2> DEFINE u == [r EXCEPT !.at = "answered", !.answer = saved']
  <2>1. u.page = r.page /\ u.kind = r.kind /\ u.at = "answered" /\ u.text = r.text
    BY <1>1 DEF Request
  <2>2. requests' = (requests \ {r}) \cup {u} /\ view' = view /\ r.at = "sent"
    BY <1>6 DEF Serve
  <2> HIDE DEF u
  <2>3. r.kind = "add" => Complete(r.text)
    BY <2>2 DEF CoverInv, AddedInv
  <2>4. QED
    BY <1>4, <2>1, <2>2, <2>3
<1>7. CASE Reply(r)
  BY <1>1, <1>2, <1>3, <1>7 DEF Reply
<1>8. CASE Throws(r)
  BY <1>3, <1>8 DEF Throws
<1>9. QED
  BY <1>5, <1>6, <1>7, <1>8 DEF RequestStep

LEMMA CoverStep == TypeOK /\ CoverInv /\ [Next]_vars => CoverInv'
<1> SUFFICES ASSUME TypeOK, CoverInv, [Next]_vars PROVE CoverInv'
  OBVIOUS
<1>1. CASE UNCHANGED <<view, requests>>
  BY <1>1 DEF CoverInv, SpinnerCoversRequest, AddedInv
<1>2. CASE PanelStep
  BY <1>1, <1>2 DEF PanelStep, OpenPanel, SelectAddress, ClosePanel, PanelAdd
<1>3. QED
  BY <1>1, <1>2, AccountCover, RequestCover DEF Next, LeaveAccount, vars

LEMMA CoverInit == Init => CoverInv
BY DEF Init, CoverInv, SpinnerCoversRequest, AddedInv

\* A page cannot be used while its handler waits: neither a second tap nor
\* typing reaches the forms, on whatever pages other handlers wait.
THEOREM SpinnerCorrect == Spec => []SpinnerCoversRequest
<1>1. CoverInv => SpinnerCoversRequest
  BY DEF CoverInv
<1>2. QED
  BY <1>1, CoverInit, CoverStep, TypeCorrect, PTL DEF Spec

\* The texts of a new address, read after the await, are those the fields were
\* checked with: none is empty.
THEOREM AddedCorrect == Spec => []AddedComplete
<1>1. CoverInv => AddedComplete
  BY DEF CoverInv, AddedInv, AddedComplete
<1>2. QED
  BY <1>1, CoverInit, CoverStep, TypeCorrect, PTL DEF Spec
=============================================================================
