# Verification of the shop client

TLA+ models, model-checking runs and proofs about the Flutter client in this
repository (`lib/`), an online shop for lehengas: catalogue, cart, wishlist,
address book, checkout with cash on delivery or a Razorpay payment sheet.
The program has no tests and no written requirements, so every definition is
taken from the code and every property from what the code evidently tries to
guarantee, or from what it tells the buyer.

## The system

One Dart isolate runs all of it. Code between two `await`s is one atomic step;
taps, HTTP answers, answers of the storage plugin and payment results interleave
in between. Pages keep their own `State`; what they share are global variables
of `constants/constant.dart`. Handlers outlive their pages: a `setState` after
`dispose` runs its closure and then throws (in a release build), so an answer
that comes late still changes the globals.

| component | source | state | operations | hard behaviour | correct when |
|---|---|---|---|---|---|
| checkout page | `fragments/Placeorder.dart` | products, payment kind, three totals, chosen address, animation flag | counters, removal, payment kind, address, Continue, three payment handlers, dispose | totals cached over shared Cart objects; requests built after an await; results for pages that left | what is charged, limited, listed and billed agree; one order per intent |
| payment plugin | `razorpay_flutter.dart`, `RazorpayDelegate.java` | handlers, one Result object, one stored reply | on, clear, open, resync, sendReply | process death with a sheet up; Result object replaced or answered twice | a result is used once, by a page entitled to it |
| cart page, app bar | `fragments/Cart.dart`, `common/appbar.dart` | global cart list, total, count badge, spinner | counters, removal, Place Order | answers replace the list in any order, some never come | list, total and badge follow the server |
| account page, address book | `fragments/Account.dart` | two forms, spinner, global address list | Add, Edit, Apply of each form | forms read after an await; answers of pages that are gone | what is sent is what was checked and shown |
| product page | `fragments/Product_detail.dart` | colour, heart, incart | Buy now, add to cart, wishlist, related product | flags computed once, lists replaced under it | heart and colour are what a request says |
| boot, login | `activity/splash.dart`, `activity/login.dart` | stored ids, all global lists | paging of the catalogue, login kinds, notification tap | a failing step, two boots at once, account switch | home is reached with the data of one account |
| home, drawer | `activity/home.dart` | tab, login flag | tab change, logout | logout while requests are under way | nothing of the old account stays |
| connectivity guard | `main.dart`, `common/check_connection_alert_dialog.dart` | `isOpenDialog` here and in three pages, navigator stack | connectivity events, Retry | flag read after awaits, pop of whatever is on top | dialogs open and close in pairs |
| catalogue | `fragments/CreateyourStyle.dart` | choices, highlighted tiles, shown products | category, search, filter, sort, cancel, refresh | stages that start again, tiles that outlive the page | shown products fit the choices left |
| wishlist page | `fragments/Wishlistdata.dart` | global wishlist, spinner | remove | late answers | list follows the server |
| services | `services/apis.dart`, `services/secure_storage.dart` | none | one HTTP request per call; key-value storage | any order, null on other statuses, exceptions | |

Order history, notification list and policy pages render data and keep no state
of interest; response models convert JSON field by field.

## Modules

| module | models | with |
|---|---|---|
| `Razorpay` | the plugin: Dart object per page, method channel, Android delegate | actions conjoined by `Checkout` |
| `Checkout` | the Placeorder page and all that reaches into it | EXTENDS `Razorpay` |
| `CheckoutProperties` | what checkout promises, and the mapping to `PaymentLife` | EXTENDS `Checkout`, INSTANCE `PaymentLife` |
| `PaymentLife` | what becomes of a payment and its result | |
| `MCCheckout` | prices, symmetry and view for TLC | EXTENDS `CheckoutProperties` |
| `CheckoutProofs` | inductive invariants and theorems | EXTENDS `CheckoutProperties`, TLAPS |
| `CheckoutOrderProofs` | what an order lists, charges and carries; the refinement of `PaymentLife` | EXTENDS `CheckoutProofs` |
| `AddressBook` | Account page, address requests, address panel of Placeorder | |
| `MCAddressBook` | symmetry for TLC | EXTENDS `AddressBook` |
| `AddressBookProofs` | forms, list and panel | EXTENDS `AddressBook`, TLAPS |
| `Catalogue` | the shop tab: categories, search, filter, sort, refresh | |
| `MCCatalogue` | a catalogue of three products | EXTENDS `Catalogue` |
| `CatalogueProofs` | what Submit shows | EXTENDS `Catalogue`, TLAPS |
| `CartCopy` | what the application's copy of the cart promises | |
| `CartSync` | the server's cart, the list, the badge; requests of the cart, Placeorder and product pages | INSTANCE `CartCopy` |
| `MCCartSync` | rates, symmetry and view for TLC | EXTENDS `CartSync` |
| `CartSyncProofs` | invariants, and the refinement of `CartCopy` | EXTENDS `CartSync`, TLAPS |
| `Navigation` | the navigator, dialogs of two connectivity guards, the drawer | |
| `MCNavigation` | for TLC | EXTENDS `Navigation` |
| `NavigationProofs` | flags and dialogs | EXTENDS `Navigation`, TLAPS |
| `Wishlist` | heart and colours of the product page, wishlist page | |
| `MCWishlist` | symmetry for TLC | EXTENDS `Wishlist` |
| `WishlistProofs` | heart, colour and bins | EXTENDS `Wishlist`, TLAPS |
| `Session` | boot, login, logout, second boots, what outlives a process | |
| `MCSession` | symmetry for TLC | EXTENDS `Session` |
| `SessionProofs` | badge, lists and catalogue | EXTENDS `Session`, TLAPS |

### Checkout: state and actions

* `page[s]` is the `State` of Placeorder page `s`; a page is used once. `lines` is
  `products`, `bill` the three totals, `cod` is `selecedCODPayment`.
* `pcount[b][l]` is the heap of Cart objects. A batch `b` is the set of objects one
  answer created; the global list `cart` and any page opened from it name the same
  batch, which is how the model keeps the aliasing of `products.addAll(tempProducts)`.
  A new answer uses a batch nobody refers to (`Fresh`).
* `tasks` are order handlers between their first await and their end, at `"storage"`
  (device id awaited) or `"posted"`. `Request(t)` is what the handler would send if its
  await ended now; since that may be in any state, a property of `Request(t)` in every
  state is a property of every request sent.
* A task and an order keep their `handler`, `HandlerOf` the result: cash on delivery, payment, wallet. What the server is told is
  `PaymentType`, 0 or 1, and `Transaction`, the payment named in `payment_transaction_id`. A picked wallet is posted with
  payment type 1 like a payment; only its transaction, the wallet's name, is none. Properties of orders are stated over these two.
* `sheet`, `owner`, `pendingResult`, `answered`, `pendingReply`, `resyncs`, `replies`
  are the plugin's. Calls and results travel in sets: more orders than the real FIFO
  channel has, so nothing is missed.
* One action per handler. A tap needs its page in the navigator, no sheet over it and,
  for the body, no animation. `Restart` is the death of the process: pages, handlers and
  the delegate are gone, a sheet on the screen survives and can still report.
* `orders`, `charged`, `touched`, `restarts` are history.

`PaymentLife` is the abstract specification of a payment: it is asked for once, its sheet closes once, and the result, if
there is one, waits, is taken and is ordered, or is lost. It knows no pages, channel or delegate. `Checkout` implements it with
`unused`, `asked` read off `sheet`, `waiting <- Waiting` (results in the channel or in `pendingReply`), `taken <- Claimed` (handlers at
`"storage"`) and `ordered <- OrderedFor`. A handler which took a result never gives it back, and only the end of the process loses it; a
waiting result is lost when nobody listens or when a sheet that closes replaces it in the delegate.

### AddressBook: state and actions

`view[p]` is the `State` of Account page `p` with both forms, `book` the global list,
`saved` the server's, `requests` the handlers at `"storage"`, `"sent"` or `"answered"`,
`panel` the id and the index the Placeorder page keeps. `"fullname"` stands for the five
fields both handlers read from their own form, `"city"` for city and state.

### Catalogue: state and actions

`filter` holds the list shown and the choices; its two last fields are the highlighted
tiles of `constantAppDataResponse`, which outlive the page (`Reopen`). The four sort flags are one
value, as each handler that sets one clears the others; likewise the three panel flags. `Submit`
is the composition of the code's stages in its order; each either filters the list or, on an empty
one, starts again from `Productlist` with its own set of resets. `List.sort` is not stable, so
a sorted list is any arrangement in order. `Filtered` is the
`forEach` every filter consists of, as a recursive function so that it can be proved about. A product is a name; prices are whole numbers.

### CartSync: state and actions

* `list` and `pcount` are the Cart objects of `constantcartDataResponse`: a batch is what one answer created,
  as in `Checkout`. `server` is the cart of the `cart` endpoint.
* A request is `"storage"` (device id awaited; a counter reads its object when this ends), `"sent"`, `"answered"`.
  `Serve` changes the server's cart and puts the whole of it in the answer. Answers overtake each other, and
  requests are served in any order. `Fail` is a null answer or an exception, at any stage.
* `Reply` is `removecartlist`, `counter`, `Counter`, `removecartlistitem` and `addcartlist` alike: the list is replaced, and each
  sets of badge, total and spinner what its code sets. A page that is gone is a `view` no step reads.
* `latest`, `current`, `straight`, `astray` are history; the properties say what they are conditions of.

`CartCopy` is the abstract specification: a server that answers with its cart, a copy that takes
whole answers, each at most once, and taps of one. `CartSync` implements it with `copy <- Cart`, the
quantities of the list, and `answers <- Answers`, the answers on their way.

### Navigation: state and actions

`nav` is the navigator: pages, the home page's drawer, dialogs on top. `isOpenDialog` are the flags of `main.dart`
and of the root page. `checks` counts the handlers at each `await`; between two awaits a guard pops and shows in one
step (`Show`, `Close`). `Replace` is `pushAndRemoveUntil`, which may come from a handler that waited, and takes
dialogs away; the dialogs a guard lost so, or by the back button, end `clean`. `settled` is a
connection that stays.

### Wishlist: state and actions

`page` is the product page on top, with the flags `getDate` computes; `tab` the wishlist page, `shown` the list it was
built from, `list` the global one. `selected` are the colour tiles, which are global data. Requests are
as in `CartSync`; the server lists a set in any order. `order`, `orderly`, `astray` are history.

### Session: state and actions

`tasks` are boots (`setAppData`, `checkLogin`) and logins (`onGoogleSignIn`, `callCreateProfile`), each at the
await it is at: pages of the catalogue, keys of the storage, the profile, and `"id"`, `"lists"` which
both end with. A handler whose page is gone goes on until it uses the navigator or `setState` (`alive`). `stored` and `known`
survive `Death`. A second boot comes from a second Retry or a tapped notification.
`Init` includes what an earlier, aborted login leaves stored.

## Runs

| run | instance | shows |
|---|---|---|
| `cod` | 2 pages, 2 lines, quantities to 2, 4 batches, 1 open cart request | totals, limit, listing and typing, no order of nothing, with shared objects and late answers |
| `mixed` | 1 page, 1 line, 1 sheet, both payment kinds, edits, cart requests, fair | one COD order per page; the sheet charges what is billed; a success or a wallet a page took is posted |
| `resync` | 2 pages, 2 sheets, 1 process death, prepaid | a result is used once, the transaction an order names tells how its sheet closed, an address is always there, paid orders only on pages that opened a sheet; refines `PaymentLife`; fires the double answer |
| `address_book` | 2 Account pages, 3 addresses, 1 edit | forms, list and panel |
| `catalogue` | 3 products, 2 fabrics, 1 colour, 4 slider positions | what Submit shows fits the choices it leaves |
| `catalogue_color` | the same | finding: a colour filter finds nothing |
| `address_edit` | 1 page | finding: the edit request carries the add form's city |
| `cart_sync` | 1 line, 2 cart pages, Placeorder, 4 batches, 2 requests at once, failures | list, total, badge; refines `CartCopy` |
| `navigation` | 2 pages, 2 events, 2 checks of each kind, fair | flags, dialogs and pages; Retry closes the dialog |
| `wishlist` | 2 products, 1 colour, 2 product pages, 2 wishlist pages, 2 requests at once | hearts and bins |
| `session` | 2 accounts, catalogue of 2 pages, 2 handlers at once, failures, deaths, no notification | what the home page shows |
| `session_boot` | 1 account, 2 handlers at once, 1 notification, fair | the splash page is left |

Bounds. Two pages are needed to share objects and to receive each other's results; a
third adds no new relation, as only one page is mounted at a time and every property
relates at most two. Four batches are one per page, one for the list and one for an answer. Prices
are chosen so that one of each line is under the COD limit and three pieces are over it, and so
that truncation to rupees loses paise. `MaxQty` 2 gives the counter both limits.
`MaxCalls`, `MaxRestarts`, `MaxUpdates`, `MaxRefreshes` bound requests, deaths, edits and delayed refreshes; the second-answer
crash is not bounded by `MaxRestarts` but by the sheets.

In every attribute a stage tests two of the three products agree and the third differs; one price lies on the
slider's first lower position, the other on its first upper one. One colour is enough, as the
page compares it with nothing but none.

Two requests at once are what overtaking needs; in `CartSync` and `Wishlist` only the number under way is
bounded, so behaviours have any length. One cart line and one colour are what TLC can do beside two pages; the
theorems about both modules hold for any number. A second cart or
product page is one whose earlier requests are still under way. In `Navigation` the bound of two checks of each kind
lets Retry be tapped again while its check is awaited and lets two handlers find the same flag. In `Session` two
handlers are a boot beside a boot or a login, two accounts a change of buyer, two catalogue pages one that follows the first.

Pages, payments and batches are symmetric: nothing orders or names them; so are requests, products, colours, accounts
and handlers. The views hide
records of pages no step reads again, quantities of Cart objects nothing refers to, the
order of the history of requests, which no invariant tells apart, and in `CartSync` the fields of a request its stage
has used. Runs with liveness use neither.

Fairness. `Checkout`'s `FairSpec` assumes of the environment only that the storage plugin answers reads
(it has one worker thread and no cancellation), unless the process ends. `Session`'s assumes that every
request is answered (`Reliable`), in any order: an HTTP request of this code has no
timeout and no retry, so with less a boot need not end. `Navigation`'s assumes that the
platform answers checks. Nothing is assumed of buyers and the sheet.

Deadlock is checked in every run but `session_boot`, where a boot that stops at its toast leaves nothing
to do: there the process lives and nobody taps.

The server is known only by its answers. Assumed: it handles a request at once and answers with the whole list; an update
of an absent line does nothing; an addition sets quantity 1; an order empties the cart; a profile without a
device id is refused. A product has one colour in the cart, as Placeorder's requests name none. Storage and
connectivity answer in order on their own channels. Items of the drawer take taps while it closes.

## Proofs

`CheckoutProofs` proves, for any number of pages, payments, lines, batches and any prices:

* `TypeCorrect`: `TypeOK`. Inductive invariant `TypeInv`: `TypeOK`, the owners of sheets are
  known (`OwnersKnown`), and at most one page is mounted, the one on top (`OneOnTop`).
  The last is what makes taps of two pages exclude each other; it is the theorem `OnePage`.
* `TotalsCorrect`: `TotalsMatchProducts`, inductive relative to `TypeInv`: handlers recompute,
  the cart page's counters need a screen no page is on, and answers write to fresh objects.
* `CodOnce`, `CodLimit`: from `CodInv`. A page with a COD handler or order is `Shut`: opened, and showing the
  animation while it is mounted. Only `OrderReply` turns the animation off, and it leaves
  the page in the same step; so no tap reaches a shut page, its total cannot change
  and no second handler starts.
* `ResultOnce`, `TransactionPaid`: from `PayInv`. A closed sheet never changes; its result is in one
  place only, the delegate, the channel, a handler or an order, and moves on from each;
  what a handler or an order says of its payment is what that sheet said (`TransactionIsPaid`): success for an order that names
  a payment, a wallet for one of payment type 1 that names none. That payment type 1 alone means paid is false (see "Not guaranteed by the code").

`CheckoutOrderProofs` adds what an order says, for the same constants:

* `BilledCorrect`: `OrderBilledAsListed`, from `TotalsMatchProducts`, as a bill depends on the lines listed and their quantities only, and from
  `FilledInv`: the lines of a page that was opened are never empty, as removal asks for two.
* `ChargedCorrect`: `ChargedAsBilled`. `ChargedInv`: as long as a payment is not `touched`, what was charged is the
  amount its page shows; every tap that changes that amount touches the payments of the page.
* `AddressCorrect`: `OrderHasAddress`. `AddressInv`: a page that opened a sheet, or has a result or a handler, has an address chosen. A page
  handed the result of an earlier process never passed its own guard; but that process had an address, so the page opens with one.
* `OpenerCorrect`: `PaidOrderFromOpener`. `PaidInv`: without a restart the plugin stores no reply, and its Result object is that of a page
  which opened a sheet; so are results, their handlers and their orders.
* `LifeRefines`: `IsPaymentLife`, from `PayInv`, which makes every step move one result at most. Continue with Prepaid is `Ask`,
  `SendReply` is `Close`, `HandlePaid` is `Take`, `PostOrder` of a paid order is `PostOrder`, a result nobody listens for is `Drop`, a restart is
  `ProcessEnds`. `Resync` stutters, since a result waits in the delegate as in the channel, and so does all else.
  `Close` is the step that needs most: the new result and the one it may replace are of different payments, and no other waits for either.

`AddressBookProofs`, for any number of pages and addresses:

* `TypeCorrect`, `PrefixCorrect`: addresses are `Numbered` by their place on the server, which only appends or edits in
  place, and every answer was the server's list when it was made (`BooksInv`), so any two lists agree where both have entries.
* `ShownCorrect`: `PanelInv`, the id of the panel is its index, for the same reason.
* `SpinnerCorrect`, `AddedCorrect`: `CoverInv`. A tap needs the spinner down and puts it up; so the fields keep the texts that were
  checked until the handler reads them.

`CatalogueProofs`, for any catalogue, prices, colours, fabrics, searches and categories:

* `FilteredRange`, `FilteredOnce`, `FilteredOrder`: what `Filtered` returns for every list. The library's induction theorems take an operator,
  which the provers cannot instantiate; `NatSetInduction` states induction for a set of numbers, from
  the fact that `<` is well founded, and `AddsExists` builds the function the recursion defines. `FilteredPlaces` then
  gives the strictly increasing places of `list` the result is read from.
* `ColorTile`: `ColorHighlighted`. The invariant `Alike` adds the shape of the choices; every stage of Submit keeps it, and so do the resets.
* `TypeCorrect`, `ShownOnceCorrect`: from `CatInv`, `TypeOK` with a `Good` record: the list is of products, each once. A stage
  that appends all products does so only after it found the list empty or cleared it.
* `SubmitSoundCorrect`, `SubmitSortedCorrect`, `SubmitCompleteCorrect`: Submit is followed stage by stage. Each stage leaves the record as it is,
  narrows the list to what it asks for, or starts again and drops the choices of the stages before it that the new list
  does not follow (`SortCases` to `FabricCases`); so what an earlier stage established still holds at the end, or its choice is gone.

`CartSyncProofs`, for any number of lines, pages, batches and requests, any rates, with and without failures:

* `TypeCorrect`: `TypeOK`, with the shape of every request under way.
* `CurrentCorrect`: `CurrentIsServers`. Inductive invariant: `server` is what the request handled last answered, as long
  as it has not been taken; while `current` holds the list differs from the server only in lines a counter is under way
  for, in the current batch. Every tap begins such a request, every answer that is not the last resets `current`.
* `Refines`: `IsCartCopy`. Init maps to Init; `Serve` is `Handle`, `Reply` and a successful `OrderReply` are
  `Take`, `Fail` is `Lose`, a counter is `Tap` or, on an object no list refers to any more, a stutter, and all else stutters.
  `TakeList` makes the copy equal to the answer because an answer is a cart of `Carts` and an order's is empty.
* `TotalCorrect`: `TotalMatchesList`. A page's total is the list's unless `astray` or one of its counters is under way; an
  answer to the page sets both from the same cart.
* `BadgeCorrect`: `BadgeCountsList`, from the list, the badge and the one answer that can be on its way.

`NavigationProofs`, for any bounds: `TypeCorrect` and `CountCorrect` are proved together, as `Len(nav.dialogs) <= 2`
rests on there being at most as many dialogs as flags; `PagesKept` follows, since a guard whose flag is set finds a
dialog to pop; `OwnersCorrect` needs that only a `"page"` check shows that dialog and that flag goes only with the page.

`WishlistProofs`, for any products, colours, pages and requests: `TypeCorrect` (the requests under way
are `order`'s entries, each once), `ColorCorrect`, `BinCorrect` (from `RowsShown`: the rows are the list's unless `astray`),
and `TapCorrect`. The invariant of the last is `Linked`: while `orderly`, requests are answered in the order of their taps,
the newest names the item and says what the heart shows, and with none under way list and server are what the newest left.

`SessionProofs`, for any accounts, pages of the catalogue, handlers and checks under way, with failures, deaths and taps:

* `TypeCorrect`: every step moves one handler or none; the others stay where they are but for their page (`Stays`).
* `BadgeCorrect`: `BadgeCountable`. Only the login page's check forgets count and id. `ChecksOfPage`: checks end in the order they
  began, so on a later page those of the login page are over before its own; none is left when the home page greets.
  `CountedInv`: while there is an id the count is a number or a handler is about to make it one.
* `ListsCorrect`: `ListsOfBuyer`. `ProfileInv`: a handler past the profile has an account with one. `OneBuyer`: unless `mixed`, the id is that of
  the only handler about to set the lists, and of the lists when it is gone.
* `CatalogueCorrect`: `CatalogueWhole`. `OneBoot`: what the list is at every await of a process's only boot; `LoaderInv`: the boot whose first
  page is the list's has added every page before its next, whatever others add in between.

`OnePage`, `OwnersCorrect` and `ColorCorrect` state what no run checks (`OneOnTop`, `DialogsOwned`, `ColorShown`).

The assumptions are the named `ASSUME`s of `Razorpay`, `Checkout`, `AddressBook`, `Catalogue`, `CartSync`, `Navigation`, `Wishlist` and `Session`; TLC evaluates them on every run.

Only model-checked: the liveness properties `AcceptedIsOrdered`, `RetryCloses` and `BootEnds`, as fairness is out of this prover's reach. Every
invariant, action property and refinement the passing runs check is also a theorem.

## Findings

`CreateyourStyle.dart:156`: a colour filter compares the product's list of colours with a name, so it finds nothing,
and the page says "We didn't find product in this category..".

`Account.dart:1061-1062`: the edit handler sends the city and state of the add form. The edit
form insists on both ("Enter your City..!!"), then sends empty texts, or those of an address typed earlier.

## Not guaranteed by the code

Met while modelling, and the reason some properties carry a condition:

* A page edited after Continue and before the sheet covers it orders other lines than it charged.
* A handler waiting on storage whose page was left sends quantities the cart page changed meanwhile.
* A payment success after `dispose` reaches nobody: paid, no order.
* The handler of a picked wallet posts its order with payment type 1 (`Placeorder.dart:1304`), as the success handler does (`:1244`), though
  the plugin's README says "The payment was successful." of the success event only. So an order can be posted as paid without a sheet that
  reported success. The wallet's name takes the place of the payment's id, and that is all that tells the two apart.
* With two sheets open, results go to the page that opened the later one.
* A lost answer to an order leaves the animation up; a new page can order the same again.
* With "Relevance" ticked, Submit drops every filter chosen with it.
* A fabric whose box was cleared still filters; one whose stage started again filters with no box ticked.
* An upper price that starts again from all products compares with the lower one.
* After Submit or a refresh the highlighted category need not be the one shown.
* An address list may shrink, or show old texts again, when answers of two address requests change places.
* A wishlist answer overtaken by a later one puts back the list before it; `TapTakesEffect` is stated while none was.

* `_onSelectItem` (`home.dart:100`) pops whatever is on top to "close the drawer": an item tapped again while the drawer slides out pops the home page.
* A page replaced while the application's dialog is up, or the back button on it, leaves the flag: the next loss of connection pops a page.
* With dialogs of both guards a dialog of `main.dart` can be left whose Retry never closes it. A connection that returns closes no dialog; only Retry does.
* The heart of a new product page says whether the last entry of the wishlist is its product: `return` in `forEach` leaves the closure. So does `incart`.
* A heart tapped before the device id is read sends an empty one. After a related product took over the page, heart and colour are the old product's.
* The wishlist page under a product page is not built again when that page changes the list: a bin removes another entry, or throws.
* The ids are stored before the profile is made. A login that ends between (no birthday, `login.dart:194`; a lost answer; a process death)
  makes every later boot stop on the splash page with a toast.
* Two boots at once (Retry tapped twice, a notification) add catalogue pages twice, or clear the list the home page shows.
* The login buttons return before count and lists are set; with Skip between, the home page compares a null count and throws.
* After logout the lists of the old account stay until another login.
* A cart answer that never comes leaves the cart page's spinner up. Orders and Placeorder's removals leave the badge as it was.

## Not modelled

* `incart`, which only chooses the product page's buttons, and sharing.
* Google and Facebook sign-in apart: they differ in the order of their storage writes, and in one `catch`. A login of a buyer Google has
  signed in already saves no USER_ID (`login.dart:115`); that is a choice of `SaveUserId`.
* In `CartSync`, cart requests of Placeorder pages opened by "Buy now". Such a page shows a new Cart object of no list; what its requests
  do to list, badge and server is what those of a page with a stale batch do, which is modelled. `Checkout` models these pages.
* Order history, notification page and policy pages: they render data.
* JSON and the response models; the plugins under `ios/.symlinks` other than the payment plugin, the pods and the platform runners, which are
  third-party or generated, though they are most of the repository's lines. The map therefore covers `lib/` and the payment plugin.

## What is left

A second line in `cart_sync` and a second colour in `wishlist`, which the theorems cover and TLC does not; the iOS delegate of the
payment plugin, which is a second implementation of what `Razorpay` models.
