# A verification of gameshop

gameshop is the server of a shop for games, gift cards and Steam balance: a
FastAPI application over PostgreSQL and Redis, with scripts that fetch the
sales of Xbox and PlayStation stores. This directory holds TLA+ modules that
model its stateful parts and its calculations, TLC configurations that check
them on small instances, and proofs, checked by TLAPS, of theorems for every
instance.

Paths of the code are relative to the repository, whose Python sources are
under `src/`; `PROJECT.json` maps every definition to the lines it models.

## The system

| Component | State | Operations | Talks to |
| --- | --- | --- | --- |
| Ordering (`orders/domain/services.py`) | rows of `base_order` and its three categories | place an in-app, top-up or gift order; administrator updates, deletes; list | NSGifts (creates a Steam order), payment system (creates a bill), catalogue, fee in Redis |
| Payments (`payments/`) | status and `bill_id` of the row | webhook of the payment system | NSGifts (pays), Telegram, mail, rows of Ordering |
| Unit of work (`core/uow.py`, `gateways/db`) | one transaction per use | commit, or roll back on any exception | PostgreSQL |
| Sales update (`products/domain/services.py`, `scripts/sales`) | a flag, a date and a list of unprocessed ids in Redis | start an update; parse and save; update in chunks; resume | the parsers, catalogue, notifications |
| Catalogue (`products/`, `core/tasks.py`) | products, discounts with `deal_until` | create, change, delete, save parsed sales; two background jobs; list | prices, orders that refer to products |
| Exchange rates and prices (`gateways/currency_converter`) | rates in Redis, prices per region in PostgreSQL | set a rate and scale the prices; convert a parsed price; change prices | catalogue |
| Pricing (`products/domain/services.py`, `products/models.py`) | none | price of a parsed game, discount, totals, bill | rates, orders |
| Cart, wishlist, sessions (`shopping/`) | hashes and sets per user, one JSON document per session, in Redis | add, remove, set quantity, list, copy at sign-in | catalogue, accounts |
| Accounts (`users/`) | users, activation and reset tokens | sign up, activate, resend, sign in, reset password, change name and e-mail | mail, session copy |
| Response cache (`core/api/caching.py`) | responses in Redis with a time to live | get or compute, validate by ETag | any GET handler |
| Admin notifications (`core/api/sse`) | one queue | put, stream | sales update |
| Errors (`core/exception_mappers.py`, `gateways/db/exceptions.py`) | none | error of the driver, of a service, answer | every handler |
| Mail (`mailing/`) | one SMTP connection | send, in a task of its own | payments, accounts |
| News, wiring, migrations | none that interacts | | |

What makes these parts hard is listed, line by line, under `hazards` in
`PROJECT.json`. In short:

* *Payments* keeps a transaction open while it pays NSGifts and writes to
  Telegram. The payment system repeats notifications; handlers of the same
  order overlap; an exception after the purchase rolls the row back.
* *Ordering* creates things outside (a Steam order, a bill) before the
  transaction that records them has been committed.
* *The sales update* spreads one job over a handler, a background task, a child
  process and a resumable list, each of which may die alone; its outcome goes
  through a queue to whichever page takes it first.
* *The catalogue* is written by scripts, by two loops and by administrators, each
  many rows at a time and in an order of its own; a rate is written in Redis and
  its prices in PostgreSQL.
* *Carts, accounts and the cache* read and write Redis or PostgreSQL in several
  commands, between which other requests run.

## Modules

| Module | What it is | Code |
| --- | --- | --- |
| `OrderStore` | rows of `base_order`, the row lock and the uncommitted image of a webhook's transaction | `orders/repositories.py`, `core/uow.py` |
| `Ordering` | placing and administering an order | `OrdersService`, `orders/handlers.py` |
| `Payments` | the webhook handler, one action per `await`, and the mail task | `PaymentsService.process_payment`, `payments/handlers.py`, `NSGiftsAPIClient` |
| `Checkout` | the two over one table, with the buyer, the payment system and crashes; all properties | |
| `OrderLifecycle` | what the shop promises about an order; `Checkout` implements it | |
| `Chunks` | `chunkify`, on positions | `core/utils/helpers.py` |
| `SalesUpdate` | the flag, the task, the scripts and their list, the pages that listen | `ProductsService.update_sales`, `scripts/sales/*.py`, `SalesParser`, `core/api/sse/handlers.py` |
| `Accounts` | users and their tokens, one action per statement of a unit of work | `UsersService`, `users/repositories.py` |
| `Shopping` | the four managers, `SessionCopier` and sessions, one action per Redis command | `ShoppingService`, `shopping/repositories.py`, `shopping/sessions.py` |
| `CartContract` | what the shop promises about carts; `Shopping` implements it | |
| `Catalogue` | rows of `product`, their locks, whoever writes them | `ProductsService`, `ProductsRepository`, `BackgroundJobs`, `SalesParser` |
| `Rates` | exchange rates and the prices computed from them, over `Catalogue` | `CurrencyConverter`, `PricesRepository` |
| `ResponseCache` | the decorator `cache()`, for one key | `core/api/caching.py` |
| `Storefront` | the three together | `products/handlers.py`, `main.py` |
| `Pricing` | operators: tables, rounding, discounts, totals | `XboxPriceCalculator`, `Product`, `RegionalPrice`, order totals |
| `Listing` | operators: what a page of products or of orders holds | `filter_paginated_list`, `list_orders`, `core/api/pagination.py` |
| `Errors` | operators: which answer an error ends in | `core/exception_mappers.py`, `gateways/db/exceptions.py`, the `except` clauses of the services |
| `CheckoutProofs`, `ChunksProofs`, `SalesProofs`, `AccountsProofs`, `CacheProofs`, `StorefrontProofs`, `ShoppingProofs`, `CalculationProofs` | the theorems | |
| `Samples` | `Pricing`, `Listing` and `Errors` over bounded inputs | |
| `MCCheckout`, `MCSalesUpdate`, `MCAccounts`, `MCShopping`, `MCStorefront` | definitions of small instances | |

### Orders and payments

An order is its id. Its row is a status and a `bill_id`; `ABSENT` and
`DELETED` both mean that there is no row, and are two values only because the
properties tell an order never committed from one deleted. `stage[o]` is how far
the request that places `o` has come, and `reserved` and `billed` say what the
outside holds because of it. A notification `w` is a pair of an order and a
tag, so several notifications of one order are several handlers; `pc[w]` is
where its handler stands:

    received -> marked -> (charged ->) fulfilled -> notifying -> settling -> answered

`marked` is after `UPDATE ... WHERE status = 'PENDING'`, which takes the row lock
(`lock`) and leaves an image only its transaction sees (`tx`). `charged` is after
NSGifts accepted a payment and before its answer arrived. The exits are `ignored`
(not a success), `refused` (row not PENDING), `failed`, `asserted` (see the
findings) and `crashed`.

Three decisions of the model:

* Transactions run at READ COMMITTED, the default. Only the webhook's waits for
  anything between its first write and its end, so only its lock and image are
  state; other units of work are one step, guarded by the lock being free. The
  step in which a blocked `UPDATE` gets the lock re-reads the status, as
  PostgreSQL does.
* A call that fails may have taken effect (`SteamFails` from `charged`,
  `ReserveFails`, `CreateBillFails`).
* Which product, price or deposit made an order fail is one action,
  `RejectOrder`: nothing was created anywhere yet.

`Faults` names the kinds of failure an instance allows; a run without some
kind checks what holds in its absence.

### Sales update

`task[r]` follows the handler and the background task of request `r`,
`script[w]` the child process or an operator's `update_parsed`. The list of
unprocessed ids is a set, `saved`, since a script takes the order of ids from the
table and not from Redis; that query asks for no order, so `Order` chooses any.
`DEL` and `LPUSH` are two steps. `todo[w]` and `at[w]` are the ids a script works on
and the chunk it has come to. `writer` and `torn` are history: who wrote `saved`
last, and whether that was a `DEL` whose `LPUSH` is still missing.

The web server and the scripts fail separately: `Crash` takes the tasks, the queue
of messages and the open pages, and leaves flags and scripts; `Kill` takes a script.

A page `b` is one `GET /stream`. Its consumer waits (`open`), takes the head of the one
queue of the process, and is suspended while the event is written to the page; when
the page is closed it is cancelled where it is, with the message it holds. `seen` and
`missed` are history.

### Accounts

Each request of a client is an id, and what it may create (a user, a token) bears
the same id; `uid` is the user that a request, or the token it issued, is about. A
request goes through the statements of its method:

    signup            begun -> inserted ------------> committed -> done
    resend            begun -> found -> deleting -> deleted -> committed -> done
    reset             begun -> found ---------------> committed -> done
    activate,password begun -> found -> updated -> deleting -> deleted -> done
    change            begun -> updated -> done

`committed` to `done` is the mail, which may get lost. A sign-up whose e-mail is taken
becomes a resend, as in the code. Isolation is READ COMMITTED: what an open transaction
wrote is in no variable, since nobody else sees it; that its locks, and its entry in the
unique index of `email`, make others wait is in the guards, derived from `pc`. A `DELETE`
is two steps, because it keeps the rows it picked (`sees`) while it waits for another
`DELETE`, and does not see a token committed meanwhile. `older` is history.

An INSERT of a token waits only for an UPDATE that writes a key of the user's row, a column
with a unique index (`HoldsKey`), and makes only such an UPDATE wait. `Sets` names the columns
each UPDATE writes: none is a key, so nobody waits there, and saving a token and committing it
are one step.

`update_user` (`change`) is about the name only. When the request has an e-mail too, the name
is committed and then `email_verification` fails, which is no method of `EmailTemplates`: no
signed token is ever mailed, so `update_email_confirm` is a method that always refuses, and no
e-mail changes. Neither is in the model.

### Carts, wishlists and sessions

A cart is a function from products to quantities or `Absent`, for a user (a hash) as for
a session (`$.cart` of its document). A user's wishlist is a set, a session's a sequence,
because the code appends to it, asks for an index and pops it. `life[s]` tells a document
that has not been created, one without an expiry yet, one that has one, and one that is
gone; the client keeps its cookie for as long as it likes. Each step is one command to
Redis or one query of the products in stock; the commands of a `gather` come in any
order. `raced` is history: sessions whose wishlist was changed between two commands of
another request, the one overlap for which the code has no answer. `owed` is what a
sign-in found and nobody has removed since.

### The catalogue and what is in front of it

Of a row only what decides its fate is kept: whether it was parsed, whether it has a
discount, and whether its deal has no end, is running or is over. A transaction that
writes several rows takes them one by one (`todo`), and what it has taken is its `image`:
rows nobody else can write until it ends. A script takes a row with each statement, in
the order of the items; a loop takes all rows of its single statement in any order and
looks at its condition again when it gets one it has waited for, as PostgreSQL does. A
circle of waits ends when one of them fails (`Abort`); if that is a loop, its task is over
(`LoopDies`) until the server is restarted.

Prices are logarithms, so that to multiply with a rate is to add it: proportions are all
that `set_exchange_rate` is about, and the model needs no fractions. `worth` is what a
price was worth in its currency when it was set. `skewed` is history: products whose
price was converted or scaled while a change of the rate was half way between Redis and
PostgreSQL, or after one that failed there or was to another currency.

`ResponseCache` has a clock. `GET` and `TTL` are sent together and answered in any order;
a request takes `MaxDelay` at most. What a client has got it may show `until` its
`max-age` is over. A 304 has no `Cache-Control`, and so renews the response that the client
has: the `max-age` which came with it counts again from now (`Show`). An answer is `stretched`
when its `max-age` is not its own, after a 304 or when `GET` and `TTL` met different
responses. ETags are hashes that differ after a restart of the process; the model allows a
304 then too. A request with `no-store` reads and stores nothing and is no step. Nothing that changes a product removes or replaces a stored response:
only the time to live does, which is why no action of `Storefront` touches `entry`.

### Calculations

`Pricing`, `Listing` and `Errors` have no state. A decimal is an integer of a unit its
definition names (roubles, kopecks, cents) or a fraction of two integers, with the
rounding of Python's `round` (half to even) and of `Decimal.quantize(ROUND_HALF_UP)` as
different operators, because the code uses one for bills and the other for prices.
`Listing` says which results the database may give to a query whose order has ties.
`Errors` has the except clauses of each method of a service as data.

## Runs

| Run | Instance | Question |
| --- | --- | --- |
| `checkout_safety` | one gift order, four notifications, every fault | can repetition, failure or a crash corrupt a row, spend without a payment, buy twice, or mail too early? does it implement `OrderLifecycle`? |
| `checkout_live` | a top-up with two notifications, an in-app order without e-mail with one; Telegram may fail | do handlers end, and is a payment reported while another is processed still settled? |
| `failure_recorded` | one top-up, NSGifts may fail | is FAILED recorded? (no) |
| `user_loaded` | one in-app order of a user without e-mail | does the assertion in `client_email` hold? (no) |
| `sales_safety` | two requests for one platform, one resumed script, three products in chunks of two, every fault | who owns the flag, what does the date mean, what does a stopped script leave? |
| `sales_live` | three requests over two flags, two pages, scripts killed | is the flag freed, does the outcome of every request reach a page? |
| `sales_forgotten` | one request, up to five products in chunks of two | are all products processed? (no) |
| `sales_exclusive` | two requests | does the assertion in `update_sales` hold? (no) |
| `accounts_safety` | five requests of any kind, two addresses, failures at any statement | can a user be left without a token, an old token keep working, requests wait in a circle, a token vanish or serve another purpose? |
| `shopping_safety` | three requests of any kind, one user, one session, two products; expiry and crashes | do overlapping additions, removals and sign-ins keep what a cart promises, and the session's list exact? what outlives a session? also evaluates `Samples` |
| `storefront` | three products, two scripts, an administrator, two rates being set, two readers, both loops, one restart, in six casts | do an administrator's products and running deals survive, do prices follow the rate, how old is what a client shows, do expired products go? |
| `cleanup_stops` | the catalogue alone, two products, one script, one administrator | do expired products go, whatever orders refer to? (no) |

**Bounds.** Orders interact only through the process, and a crash is the only
thing that takes them all, so one order with many notifications is the hard case.
Two handlers can overlap; a third and a fourth let one retry after a rollback, and
one arrive after an administrator has reopened the order. A gift order passes
through every stage of a Steam order and has an unbounded call; the in-app
branch and the two kinds at once are in `checkout_live`. Tags are
interchangeable, hence the symmetry of the safety run; the live run has none.
No counter of these modules is unbounded. Requests and notifications are finite sets
and each is sent once, so a retry is another member of the set; the runs set
`CHECK_DEADLOCK FALSE` because they run out.

Three products in chunks of two are one full chunk and a rest, with which
`chunkify` is right (`ShortIsCovered`); two full chunks and more are the subject of
`sales_forgotten`. Products are interchangeable (`AnyProduct`). In `sales_live` scripts
find nothing new, for the products do not matter to flags and messages; three requests
are two that meet at one flag and one for all platforms, and of two pages one may stay
open while the other comes and goes. The server lives in that run: after a crash flag
and message are lost for good (see `FlagIsOwned`, which says whose the flag then is).

Five requests on accounts are the sign-up and four that meet at one user, or two sign-ups
and three requests between them; requests and addresses are symmetric.

Three requests on carts are one that is between two commands and two that change what it
has read, such as a sign-in between an addition and a removal. One session and one user
suffice, as no command touches two of either.

A behaviour of `storefront` has a cast: three or four actors, and one or two products, that
meet. Two scripts and the loops meet at rows, of two Xbox products too, where they can
deadlock and the loop die of it; a script, an administrator and up to two changes of
the rate meet at prices; two readers and a writer meet at the cache. An actor outside the
cast does nothing, which bounds the state space without forbidding any overlap of two or
three. The clock runs to `MaxTime`, three times the time to live, with requests of one tick at
most: long enough for a response to be stored, read late in its life, renewed by a 304 and
shown to its end. The constraint `Focus` of `MCStorefront` leaves out what a cast with readers
does after an edit that deletes nothing, for responses say only which products there are;
casts without readers, the only ones with loops and so with liveness, are not cut.
`MaxRestarts` bounds restarts. Deals start, end and are renewed without a bound.
Casts without a loop end; hence `CHECK_DEADLOCK FALSE`. `cleanup_stops` checks deadlock.

`Samples` compares the tables of the calculators with the percents that
`test_price_calculator.py` expects, and evaluates each operator on every input of a range that
crosses all limits and ties, beside an independent definition where there is one (the
nearest integer, the list that pages put together make).

**Fairness.** The event loop runs a coroutine that can go on. Calls through the
shared `AsyncClient()` end within httpx's default of five seconds
(`core/ioc.py:90`), with an answer or an exception; PostgreSQL hands a free row lock to
a waiter. So `checkout_live` has weak fairness of each placing request and each
handler, but not of the call to NSGifts for a gift, whose timeout is `None`
(`gateways/steam/client.py:154`): `WebhookEnds` and `PaymentSettles` leave gift orders out
for that reason. The buyer, administrators and the payment system owe nothing.
In `sales_live` the tasks, the scripts and the consumers of open pages have weak fairness
and nobody else; a script may also be killed at any step, and a page need not be opened
nor stay open: `OutcomeIsSeen` asks for one that does. In `storefront` the loops and the
scripts have weak fairness, since both sleep for a bounded time and PostgreSQL ends
every circle of waits; administrators, clients and the clock owe nothing.

**Findings.** The five violation runs:

* `failure_recorded`: after an NSGifts error the handler writes FAILED and raises
  `ServiceError` inside the unit of work, which rolls the write back. The comment
  at `payments/domain/services.py:125` says the exception is caught inside so that the
  transaction can be used for it.
* `user_loaded`: `client_email` of an in-app order without an e-mail of its own
  needs the user, which `UPDATE ... RETURNING` did not load. The webhook fails
  every time; the paid order stays PENDING.
* `sales_forgotten`: `chunkify` advances by one item instead of one chunk from the
  second full chunk on, and the caller removes whole chunks from the saved
  list. With `UPDATE_CHUNK_SIZE` 200 this needs 400 new products.
* `sales_exclusive`: the flag is checked in the handler and set in a background task.
* `cleanup_stops`: the daily `DELETE` is one statement for all expired products. One of
  them in an order makes it fail (`ondelete="RESTRICT"`), nothing catches the error, and
  the task of the loop is over: no expired product goes until the server is restarted,
  and then only until the same product is found again.

Met while modelling, without a run because the code alone shows them:

* `PostgresExceptionsMapper.map_and_init` calls `super().map`, so
  `OperationRestrictedByRefError` is never raised and deleting a product that an order
  refers to is answered 500 instead of 403 (`ReferencedIsUnknown` in `Samples`).
  `ActionForbiddenError` has no status: a payment that is notified twice is answered 500.
* `save_parsed_products` tells every calculator of `with_gp`, which only the one for the
  United States takes. A discount of 100 is a division by zero there and in `create_product`.
* Where a price passes a limit of the tables for the United States and Turkey, a dearer
  game becomes cheaper than a less dear one was (`UsPriceMayFall`).
* `price_ordering` of a list of products only decides between products of one
  transaction, and shows a product once for each region. A list of orders has no order
  among those of one time, so that its pages may repeat one and leave out another
  (`PagesMayRepeat`), and counts 0 beyond the last page (`NothingBeyond`).
* An in-app order is charged the discounted price after the deal is over; a gift is not.
* A later sale of a product updates its discount and not the stored base price.
* Setting the rate to another currency scales the prices in roubles as well.
* A change of the e-mail alone leaves `update_user` no column to update
  (`users/repositories.py:45`), and the request fails with a DatabaseError.
* A change of the name and the e-mail commits the name and then fails with AttributeError,
  answered 500: `users/domain/services.py:247` calls `email_verification`, which
  `users/domain/interfaces.py:18` declares, but `EmailTemplates` has only `email_change`
  (`mailing/templates/templates.py:40`). So no e-mail can be changed at all.
* The two commands that read the cache may find a response and then no key, and announce a
  `max-age` of -2 (`core/api/caching.py:82`), which makes the client ask again.
* `update_user` asks for `"photo_url" in dto.model_fields_set`, but the field is `photo`.

Some hazards no property can catch, because what goes wrong is what the code does and no
document or test says otherwise; the models contain them, and the properties show that they
are the only exceptions. A crash leaves the flag of a sales update set (`FlagIsOwned`); a
change of a session's wishlist between two commands of a request spoils it
(`WishlistIsExact`); two changes of a rate at a time, or one that fails half way, leave prices
at another rate (`PricesFollowRate`); a failure after NSGifts made a Steam order leaves it
there; signing in overwrites quantities. They are in `PROJECT.json` with a note.

## Proofs

`CheckoutProofs` proves, for any sets of orders and notifications and any faults,
the type invariant, the eight safety properties of `checkout_safety` and the
refinement of `OrderLifecycle`. The assumptions are `StoreAssumption` (an order has one
category, a notification is about an order) and `NoEmailAssumption` (the Steam forms
demand an e-mail).

The properties are not inductive as they stand. `BoughtOnce`, for instance, says
that of two handlers that paid NSGifts one has failed or crashed, or the order
was reopened. For a handler that is about to pay, this needs that no other
handler that has paid is still fine: one that is answered would have left the row
settled (`AnsweredIsSettled`), while the row is PENDING as long as a handler holds
it (`PendingUntilSettled`); one that is still open would hold the same lock. That a
handler which paid is in one of these stages is `ChargeFollowsPc`. `BillIsBacked` needs
to know what an open transaction will commit (`OpenImage`) and that success
notifications follow a payment (`SuccessIsPaid`). `PaidIsOnRecord` rests on
`RowFollowsStage`: the link is returned after the commit. `IInv` is the conjunction of all
of these. The proof that a step preserves it has a lemma per group of actions
that disturb the same parts: placing an order, administration, handler steps outside
a transaction, inside one, those that end one, and the outside world.

The refinement maps the status of the row, the orders NSGifts was paid for, and
the orders with a bill to the abstract variables. Placing and handler steps are
stutters except `CommitOrder` (Place), `SteamCharges` (Buy), `Settle` (Complete) and the
administrator's two; each needs a part of `IInv` for its abstract guard.

Two findings are shown by TLC as something that may happen; the theorems say that it always
does. `FailureIsNeverRecorded`: no step but an administrator's makes a row FAILED.
`OrdersWithoutEmailFail`: the assertion in `client_email` fails for no other order, and no
handler of such an order gets beyond it, so no payment for it is ever recorded
(`EmailDecides`, inductive beside `IInv`). `RequestsAdvance` and `LocksHaveHolders` are what of
`WebhookEnds` and `PlacementEnds` can be proved: every step takes a request nearer its end,
and whoever waits for a row waits for a handler that is still at work.

`SalesProofs` proves all four invariants of `sales_safety` for any requests, retries, flags,
pages and faults and any finite set of products. `FlagIsOwned`: scripts never
write a flag, and a task in its `try` stays there until it has deleted its flag.
`Resumable` and `DateIsEarned` are theorems under the assumption `FewIds`, that there are
fewer products than two full chunks, without which `sales_forgotten` refutes the former.
The invariant behind both is `WorkerInv`: a script at chunk k has looked at the first k - 1
or k chunks, depending on where it stands, and one that has not begun is not the writer of
the key. `ChunkIsSlice` says what the first two chunks are; `RestIsLeft` that what is not
looked at is in the slice the script pushes; what other scripts look at meanwhile only
makes less of it.

`AccountsProofs` proves all six properties of `accounts_safety` for any requests and
addresses. But for `NoCircleOfWaits`, none is inductive alone. A commit removes what its `DELETE` picked, so one has to
know that everything picked was committed for the same user and scope (`PicksFit`) and that
everything older is either picked or gone (`OlderIsPicked`), whoever else deleted in
the meantime. `InactiveHasToken` then holds since a commit that removes an activation token
activates the user or brings a new one. `PresentedFits` carries the scope test of
`get_by_hash` to the commit, by which time the token itself may be gone. `NoCircleOfWaits`
needs no invariant but an order of the stages (`Level`): one that holds nothing waits for
the row or the address of a user, one that holds the row at most for tokens, and one that holds
tokens would wait only for an UPDATE of a key, of which there is none (`NoKeyIsWritten`); so a
wait always leads upwards (`WaitsUpwards`). Were the row read FOR UPDATE, as the run's mutant
has it, resending and activation would wait for each other.

`CacheProofs` proves how old a response can be, for any readers, time to live and duration
of a request. `CInv` follows a response from its computation to the client: when it was
read, when it will expire in Redis and what `TTL` said of which response; that no `max-age` is
longer than the time to live (`MaxAgeIsTtl`) bounds what a 304 can add, however often it is
repeated: two times to live and two requests (`AgesAreBounded`). `RInv` adds when its products
were last in the catalogue.

`StorefrontProofs` proves what remains of the safety properties of `storefront`, for any
products, scripts, requests and casts. That every behaviour of `Storefront` is one of
`Catalogue` is a theorem of its own. `RowsInv` says that no row is held twice, that a sweep holds
only rows which match and that an administrator's row is one in every image.
`PriceInv` is about rates: a change that is half way has seen the rate the prices are at
(`Carried`, `HalfWay`), two half way at a time skew every price (`OneHalfWay`), and what a
script has converted and not saved is for products without a price (`QuotesAreNew`).

`ShoppingProofs` proves the type invariant, the properties of `shopping_safety` and the
refinement of `CartContract`, for any requests, users, sessions and products. Two assumptions
are on the constants: `ShoppingAssumption` and `NoRequestAssumption`, that the value of a
request which nobody has sent is not a request. `IInv` needs three parts beside the
properties:

* `RequestsFit`: what a request holds at each stage fits it. Between two commands on the
  list of a session it is about that session, whose document exists or has gone; at "pop"
  it has a position; only a sign-in copies, and it copies from a session to a user.
  `WishlistIsExact` needs it: otherwise a pop could be at a position nobody looked up.
* `StockLookedAt`: an item about to be created or appended, and every item of a wishlist a
  copier carries, has been in stock. `OnlyStocked` needs it.
* `NothingIsLost`: what a sign-in owes is still in the session, or read and not written
  yet, or in the user's cart or wishlist. `SignInIsComplete` is about one step, the last of a
  sign-in; this part says why every overlapping request leaves it true.

The lemmas follow what a step does to the stores rather than which action it is: steps that
only read (`ReadStepKeeps`), that write one cart (`PutKeeps`), that change a list
(`ListStepKeeps`), that copy a session (`SignInStepKeeps`), and the actions under them. Lists
need lemmas of their own: `Append` adds one product (`AppendToList`), `ArrIndex` is 0 or the
first position of the product (`FoundInList`), and a pop at that position takes this product
and no other out of a list without repetition (`RemoveFromList`).

In the refinement, creating an item and adding to one are Add; deleting it is Remove; the
updates are Set; an answer about a wishlist is Wish; the load of the cart is Merge and the end
of a sign-in SignedIn; a refusal is Refuse; the expiry of a session is Forget. Every other
step, such as the check of the stock or a creation that finds the item there, is a stutter.

`ItemsStay` goes beyond the contract: only a request to remove an item takes it out of a cart or of
a user's wishlist, or the end of the session whose cart it is.

`ChunksProofs` settles `chunkify`: every item is in a chunk when there are fewer than
two full chunks (`ShortIsCovered`), and the last item is in none when there are two
or more and a chunk has at least two items (`LastItemIsDropped`). Both rest on what
`divmod` returns.

`CalculationProofs` proves, for all prices and all lists, what `Samples`
shows for some: markups that fall, prices that fall by 5/22 at most where a limit is passed, charges
and bills as near to the price shown as rounding allows, pages that hold each record once.

Only model-checked: the liveness properties (`WebhookEnds`, `PaymentSettles`, `PlacementEnds`,
`FlagIsFreed`, `OutcomeIsSeen`, `ExpiredGoesHere`), which are out of the prover's reach, and
`Errors`, a finite table that `Samples` evaluates completely.

## Plan

1. *Done*: orders and payments, the sales update, accounts and tokens, shopping, the
   catalogue with rates and cache, notifications, pricing, listing and errors; all safety
   properties that the runs check, and both refinements, proved.
2. Mail: the one SMTP connection that concurrent mails share.

## Not modelled

Migrations, seeds, deployment, routing and dependency injection, authentication with
NSGifts: see the notes in `PROJECT.json`. News is one statement per request; only
the answers to its errors are in `Errors`. Within the modelled parts: contents of mails and
messages, names, descriptions, categories and photos, the SMTP connection that mails
share, and the exhaustion of the connection pool. Redis is taken to answer, except for
the cache, which expects it not to, and for the rates. Of the accounts, time: the code stores
the expiry of a token and never looks at it. Nor is `update_email_confirm` modelled, since no
token that it accepts is ever sent. Were it reachable, its UPDATE would write a key, and two
confirmations that swap addresses could wait for each other's index entry: `NoCircleOfWaits`
would have to be asked again. Requests on accounts
end because they do not wait in a circle; that a DELETE takes rows in the order of the table
is taken from PostgreSQL. In the sales update, products deleted between two
chunks and the concurrent run of two platforms by one script are left out.
Listings of carts and wishlists change nothing and are left out. In `Rates`, amounts are
proportions: rounding of a scaled price is not modelled.
