# A TLA+ model of the krcrackers shop server

This directory specifies the server in `src/src` (Go, package
`github.com/thaletto/krcrackers-go/src`): a shop that takes orders, keeps
accounts and address books, shows a catalogue, and sends order notifications. It holds TLA+
modules that model the server's components, TLC configurations that check them
on small instances, and proofs of the most important results for instances of
every size. Where the text says *the code*, the reference is the Go source and
the SQL files of `src/src/migrations`; docs and tests are quoted only where the
code does something else.

## 1. The system

One process serves HTTP (`main.go`, or `cmd/lambda`), over one of two database
adapters chosen at start: SQLite in a file, or Cloudflare D1 over its HTTP API.
Each request runs in a goroutine of its own and calls service methods, which
call repositories, which send SQL statements. Order and product services
publish events on an in-process bus; the notification subscriber turns order
events into WhatsApp messages. Two commands run as processes of their own:
`migrate up|down` changes the schema, and `dump` copies the D1 database into a
script for a local one.

| component | state | operations | talks to | what is hard |
|---|---|---|---|---|
| Orders (`services/orders`) | tables `orders`, `order_items` | Create, Checkout, Get, List, Update, Delete, Cancel, UpdateStatus, InvoiceView, AssignInvoiceNumber, DashboardStats | adapter; catalogue, accounts, addresses, uploads; bus | checks outside the transaction they guard, ids given out again, events after the commit, two adapters with different transactions |
| Checkout intake (`orders/service.go`, `adapters`, `services/uploads`) | objects in a bucket | priceBasket, upload, shopper and address lookups | catalogue, accounts, addresses, bucket | answers of four instants end up in one order |
| SQLite adapter (`database/sqlite.go`) | one file, WAL | Query, Execute, Begin/Commit/Rollback, row accessors | | a statement may fail when another transaction holds the lock |
| D1 adapter (`database/d1.go`) | remote database; the INSERTs a transaction saw | the same | HTTP | every statement takes effect alone, replies get lost, Rollback is a list of compensating deletes; parameters are strings, answers JSON |
| Customers (`services/customers`) | table `customer_addresses` | Create/Update/SetDefault/DeleteAddress, reads | adapter; accounts | "the default" is a property of several rows with no constraint behind it |
| Accounts (`services/auth`) | tables `users`, `refresh_tokens` | Register, Login, LoginWithGoogle, Refresh, Logout, UpdateProfile | adapter; key cache | check-then-act without transactions, rotation of tokens, rows of an older format |
| Cookies, access tokens, guards (`apis/auth`, `auth/jwt.go`) | a browser's two cookies | the auth handlers, the middleware | accounts | a role is as old as the token it is in; answers arrive in any order |
| Key cache (`auth/google.go`) | Google's signing keys, time of fetch | fetchJWKS, VerifyGoogleIDToken | HTTP | fetching under the write lock, keys that rotate |
| Catalogue (`services/products`) | table `products` and its full-text index | Create, Update, Delete, List, Search | adapter; bus | an index kept by triggers, ids given out again |
| Invoices (`services/invoices`) | `orders.invoice_number` | GeneratePDF | orders | three statements without a transaction; a number derived from an id that is reused |
| Event bus (`eventbus`) | handlers, bounded queue, workers (16 unless told otherwise) | Publish, Subscribe | | full queue, goroutines, handlers that hang, nothing persisted |
| Notifications (`services/notifications`) | none | one handler per order event, sendTemplate | bus; WhatsApp | runs under the context of a request that is over |
| Migrations (`migrations`) | the schema, table `schema_migrations` | Up, Down, GetStatus | adapter | cut short half-way, gaps, several commands at once; hand-written scanners of SQL text |
| Dump (`database/dump.go`, `devdb`) | the script, the database loaded from it | Tables, Rows, Export | D1 | paging without a snapshot, triggers left out |
| Handlers (`apis`) | none | decoding, guards, status codes | services | which error becomes which status, after what was already written |

What makes each part correct, in a line:

* Orders: an order has the lines its total was computed from or the failure is
  the adapter's to answer for; it moves along pending, confirmed, shipped,
  delivered, cancelled as documented; a change of it is announced once; it
  answers only to its owner and to administrators; what is read of it is whole.
* Intake: an order is priced from one catalogue, keeps its screenshot and, from
  the insert on, its products, and goes to its own shopper's address.
* Addresses: at most one default, not lost behind the customer's back.
* Accounts: a revoked token stays revoked, a token is rotated into at most one
  unless two refreshes find it at once, a Google subject stays with one account; a
  withdrawn role and an ended session do not outlive an access token; the two
  cookies belong together.
* Key cache: a published key is found, a withdrawn one expires, nobody waits
  for ever.
* Catalogue: a search finds what is stored, whatever was stored before.
* Bus and notifications: every subscribed handler gets every event once, and
  publishing never waits.
* Migrations: the record says what the schema is, the schema is what the next
  file expects, and a file is cut at the semicolons SQLite reads as such.
* Dump: no row twice, none missing that stayed, and a search index that fits.
* Adapters: both answer a stored value alike.
* Handlers: a 4xx changed nothing but what is named, so that the request can be
  corrected and sent again.

## 2. Modules

```
OrderTables        tables, scope, lifecycle table, SQL statements as operators
  Orders           service methods outside their transactions; the properties
    OrdersSQLite   + transactions that are one step          MCOrdersSQLite
      OrderDocuments + List, Get and invoices read beside it MCOrderDocuments
    OrdersD1       + one step per statement, compensation    MCOrdersD1
OrderLifecycle     what an order's life may be (abstract)
RowValues          a value on its way through both adapters  MCOrdersD1
Addresses          address book on both adapters
Catalogue          products and their full-text index
  Intake           Checkout and Create up to the insert (with Addresses)
  Dump             the export and the database loaded from it
    Storefront     all four together                         MCStorefront
Accounts           accounts and sessions                     MCAccounts
Gateway            cookies, access tokens, guards            MCAccounts
Answers            the status of every handler               MCAccounts
KeyCache           Google's signing keys                     MCKeyCache
EventBus           the bus
  Notifications    the bus as the server uses it             MCNotifications
Migrations         the runner
MigrationScript    the six SQL files as data                 MCMigrations
SqlText            splitStatements, substituteNulls          MCMigrations
Sections           parseSections                             MCMigrations

OrderTablesProofs  lemmas on the statements, shared by both adapters
  OrdersSQLiteProofs types, lines, headers, lifecycle, events, answers, invoices
  OrdersD1Proofs     lines and lifecycle on D1, values on both adapters
StorefrontProofs   address book, intake, search, dump
AccountsProofs     tokens, links, cookies, roles, statuses
MigrationsProofs   the runner, the scanners of SQL text, the sections of a file
KeyCacheProofs     EventBusProofs
```

**Orders.** A request is a record that walks through the program counters of
its method: `select` (the query in front of the transaction of Delete and
Cancel), `tx` (the transaction), `header` and `lines` (the two queries of a
re-read), `publish`. `Start` accepts any method with any actor and any id a
client may know. Between any two steps the other requests may run: that is
what `net/http` gives. `ReadFails`, `TransactionFails` and `Restart` end a
request with an error after any step. Rows carry only what properties tell
apart: owner, status, whether `verified_at` is set, the basket the total was
computed from, and for a line its order, basket and place. `serial` numbers
the orders ever placed; it is no column, it is there because ids are given out
again (`INTEGER PRIMARY KEY` without AUTOINCREMENT gives max + 1, `NextIds`).
`owed`, `sent` and `dropped` are histories: what committed changes owe, what
was published, and what a fault cost.

*OrdersSQLite* makes a transaction one step (`InsertOrder`, `ReplaceOrder`,
`RemoveOrder`, `MoveOrder`). This is what the adapter gives: WAL, one writer,
and a deferred transaction that read before another one wrote is refused when
it writes itself. There is no busy timeout, so any transaction may fail, which
`TransactionFails` covers. Queries outside a transaction see the last commit.

*OrdersD1* splits the same transactions into statements. `undo` is the list of
INSERTs `d1Tx` saw; `StatementFails` fails before or after taking effect (the
lost reply), `LineRefused` leads into `Compensate`, which deletes newest first
and may itself fail, the context of the request being gone. `faulted` remembers
that something failed.

*OrderDocuments* adds readers: List and Get read headers, then the lines of one
header after the other; an invoice reads a header and its lines and numbers the
order in a third statement. `touched` remembers which ids were written since a
reader read its headers.

**Intake.** A cart walks through what Create and Checkout ask before the insert,
one question a step: `price` (one query for all ids of the basket), `upload`,
`shopper`, `address`, `insert`. Products have serials as orders have, and `seen`
remembers every catalogue there was while a basket waited for its prices,
`removed` the ids that were deleted from the catalogue since: an insert keeps
them as `gone`, because a line is stored under the id it was priced by, whatever
that id stands for by then, as long as the catalogue has it. The
bucket is a function from keys to uploads; a key is the clock in nanoseconds,
taken to differ between two uploads.

**Catalogue, Dump, Storefront.** A write of a product is one statement with its
triggers inside it; the index is a set of word and id pairs, since the virtual
table stores no text of its own. `Dump` reads page after page by LIMIT and OFFSET
while the catalogue changes and writes the script, one INSERT statement a page;
`LoadRows` executes one of them on the empty file, `RebuildIndex` the statement
they are followed by, and `CreateLocally` is what a developer then does. `Storefront`
lets administrators, shoppers and the dump meet over one database.

**Addresses** has both adapters in one module: `atomic` is chosen initially,
`Transaction` is the SQLite step, `ClearStatement` and `WriteStatement` the D1
steps. Ids are AUTOINCREMENT there, hence `last`.

**Accounts** has no transactions on either adapter. A token is its number, a
row remembers whether it is stored verbatim (issued before tokens were hashed)
or as a digest; the clock is a choice: any token may be found expired. A
refresh that finds its token gone at the delete issues a pair all the same, of
the session the token was of; `doubled` remembers the sessions of which two
refreshes had found one token before either deleted it.

**Gateway** is the same tokens seen from the browser: a jar of two cookies with
what they say, requests that carry the jar as it was, answers that arrive in any
order or not at all, roles that change by hand, a clock in quarters of an hour.
A route is its pattern, and `Guard` says which middleware it is registered under.
**Answers** has one record for each handler: what kind of call its service makes on
which row, which errors it returns, and the switch that turns them into statuses.
`rows` is the order, the product, the address, the account and the refresh token
that the calls in flight name. A call walks through the steps at which it may end:
what it reads first (`Reads`, in which a checkout uploads its screenshot and a
refresh brings the row of its token to the form the others have), what it looks up
then (`LooksUp`: a checkout's shopper and address, the account of a token), the
removal of a token that has run out (`Expires`), the write, where each kind
(`Inserts`, `Registers`, `Deletes`, `MovesOn`, `Changes`, `Numbers`) has its own
answer to a row that came or went meanwhile, the tokens a sign-in stores
(`StoresToken`), and the re-read. A reply remembers what its request has `changed`
so far: the row, an object in the bucket, a token that was issued, the stored form
of a token.

**KeyCache** has the read lock's look, the write lock held over fetch and store,
the second look under it, and the expiry when a key is missing. Google publishes
and withdraws keys meanwhile; `seenAt` remembers when each was last published.

**EventBus / Notifications.** A job is an event and a handler. `Publish` reads
the handler list; `Hand` is one round of its loop, the non-blocking send or the
goroutine; `Take` and `Return` are the worker's loop. `Notifications` adds the
request whose context a job carries, the handler's send, and restarts, after
which `main` subscribes again before it serves (`Ready`).

**Migrations / MigrationScript.** A statement is what it creates, drops and
needs; the six files are given as lists of such statements. A command plans
from the record it read when it started: `todo` is the set of versions it has
still to do, `Current` the lowest of them. On SQLite a version is one step,
record included; on D1 every statement is, and the record comes last.
The creation of the version table is part of `Start`. Of the rows of the shop
only that is kept which may refuse a statement: `rows` are the objects that hold
some to trip over, `bars` says of a statement which of them are in its way, and
servers write and delete such rows at any time (`Serve`). With foreign keys on, a
table is not dropped while rows elsewhere reference its own, and a unique index is
neither built over rows that are alike nor broken by an UPDATE. `Obstacles` says
which objects an instance lets hold such rows. What a dropped object
takes with it (`Takes`) is SQLite's: a table its indexes, triggers and added
columns. `UpsCreate` and `DownsUndo` say how the files are written, as far as
results rest on it; `MigrationsAssumption` states them of `Script`, and TLC
evaluates it on the six.

**SqlText** feeds one character after the other to two scanners of the code and
to a tokenizer of SQLite's rules beside them, so that every text of any length
is covered by the product of their finite states. **Sections** feeds
`parseSections` one line after the other; a statement is the lines from .. to it is
written on, and `Parsed` is what the function returns of the file read so far.
**RowValues** follows one value from the parameter through the
column's affinity, both adapters' encodings and a dump back to the accessors.

`PROJECT.json` maps every definition to the lines it stands for.

## 3. Runs

All passing runs check every reachable state of their instance. Where a module
chooses a `mix` when a behaviour begins, each mix is explored to its bounds
without the product of all of them: the parts in different mixes share no state
a property relates.

| run | mixes and instance |
|---|---|
| `orders_sqlite` | *lines*: 2 requests that create, edit, delete and read, 2 shoppers, admin, guest, baskets of 1 and 2 lines; *events*: 2 requests that check out, cancel, delete, move; *documents*: a reader (pages of 2, single orders, invoices) beside a writer. 2 orders, failures and restarts, 1 fault that costs an event |
| `orders_d1` | *alone*: one request at a time, every fault at every statement; *race*: 2 requests, statements interleaved, no faults; *values*: every column type, 10 values, both adapters and a dump. 2 orders |
| `storefront` | *book*: 2 requests, 2 customers, 3 addresses, both adapters; *shop*: an intake and a second after it, 3 edits of the catalogue, search pages of 1 and 2, baskets of up to 2, an address that may go; *dump*: pages of one row beside 3 edits |
| `notifications` | 2 publishers, 2 workers, queue of 1, 2 handlers one of which may hang, 2 events, restarts |
| `migrations` | *runner*: the six real files, 2 commands, new database and one with a gap, both adapters, any number of cut-short commands, rows that refuse the index of 0003 or 0004, the UPDATE of 0004's Down or a DROP of 0001's; *text*: every SQL text, up to 2 placeholders; *file*: every file of up to 5 lines |
| `accounts` | *people*: 2 sign-ins, 2 addresses, 2 subjects; *tokens*: 2 of sign-in, refresh, sign-out, an old row and 2 new tokens, failures; *roles*: one request at a time, 2 accounts, clock of 3 quarters; *cookies*: 2 requests of a browser; *answers*: 2 requests to any of the handlers, refresh and logout included, on one row |
| `signin` | 2 sign-ins, 2 keys that rotate, a clock that passes the life of the cache once |

Why these bounds. Every hazard in `PROJECT.json` concerns two actors, one of
whom acts on what the other has changed; two requests produce all such
schedules, and because a request returns to idle, a third and fourth follow in
the same behaviour. Two orders are what it takes to give an id out again; three
edits, to create a product, remove it and give its id to another. A basket with
two lines can be half written, and two products priced from two catalogues. Two
events and a queue of one make the queue full with both workers held. Two keys
let one be cached while the other is taken into use. Five lines hold a section
marker, a block and what surrounds it; the text scanners need no bound but that
of placeholders. Proofs (section 5) remove the bounds for the most important
results.

Deadlock is checked except where the system really stops: `storefront` (the
bounds on edits, visits and addresses are used up and the dump is loaded),
`migrations` (a text or file ends) and `signin` (the clock and the keys are used
up; every sign-in may then be answered and no new state follows). Symmetry is
used over requests, accounts and customers, never in a run with liveness.
`LifecycleHolds` is `Spec` of `OrderLifecycle` under the mapping `LifeOf`, which
has no fairness. `migrations` looks no further once a Down has run beside another
command (`NoDownRaced`): no property claims anything there.

### What the properties say

*Orders.* `AllOrNothing` (SQLite): an order has exactly the lines of its basket
or none, and no line outlives its order. `HeadersAnswerToScope`: a header changes
only in a step of a request it is in scope of. `NoEventForgotten`: a committed
change of an order that still exists has been announced, to its own phone, is
about to be by a request in flight, or was cost by a fault. `NoPhantomEvent`:
what is announced was committed. `NoDuplicateEvent`: and only once.
`LifecycleHolds`: the orders implement `OrderLifecycle`. `AnswersAreWhole`: a
page, an order or an invoice shows an order with its own lines, unless that
order was written in between. `InvoicesAreOnRecord`: an invoice that went out has
its number on record. On D1: `LinesOfOneBasket` (too few lines perhaps, never of
two baskets, and whole when nothing failed), `LifecycleHoldsAlone`, and
`AdaptersAgree`.

*Storefront.* `OneDefault`: on SQLite always, on D1 unless requests overlapped.
`DefaultsGivenUpOnly`: on SQLite, clear and set are never seen apart; the one
exception is named in it. `SoldAtOneCatalogue`: an order's prices are those of one
catalogue. `SalesStand`: its screenshot is its shopper's, its address was its
shopper's when it was read, and the product ids of its lines stand for the
products they were priced from, for as long as the order exists; the exception,
an id that was deleted between the pricing and the insert, is named in it.
`SearchFinds`: walking the pages of a search finds exactly what is stored, and a loaded dump finds what it holds. `RowsTakenOnce`: an export loses a
row only to a deletion and repeats none.

*Accounts.* `RevokedStaysRevoked`: a rotated, signed out or expired token never
comes back. `OneTokenPerSession`: a session has at most one live token unless two
refreshes had found one token of it before either deleted it, which the code
answers with two pairs. `OneAccountPerSubject`.
`LinksStay`: a link gives way to another subject only when two Google sign-ins ran
at the same time. `AdminsOnly`, `CookiesOfOneSession`, `SignedOutIsOver`: as in
section 1, each naming the crossings it excepts. `StatusesTell`: what was answered
with a 4xx changed nothing but what `Left` names: the screenshot of a checkout
whose address is not there, a token that had run out, the form a token is stored
in. Above all, a refresh that is refused for a failing query still has its token,
and a checkout that is refused has stored no order. The one exception is a row that
another request removed between a write and its re-read. Nothing is claimed of a
500: section 3 lists where the code answers one though nothing failed.

*Sign-in.* `KnownKeysAreFound`, `WithdrawnKeysExpire`, `SigninsAreAnswered`.

*Bus.* `EachHandlerOnce`, `PublishNeverBlocks`, `QueuedJobsStart`.

*Migrations.* `SchemaMatchesRecord`: between commands the schema is what the
recorded versions create, on SQLite whatever was cut short, on D1 if nothing was.
`RecordedIsComplete`: a version is not recorded before all it creates is there,
while no Down is under way, has met another command or, on D1, was cut short.
`FilesFitTheSchema`: between commands the objects of the database refuse neither
the pending files, in order, nor the Down of the last version; that the rows do
not either is not claimed, because they may. `UpLeavesNothingPending`.
Of the scanners, `CutsWhereSQLiteDoes`: the cuts are at the `;` tokens of SQLite's
tokenizer, trigger bodies included (hence StatementBegin and StatementEnd), and
what is dropped is comments. `NullsStayInPlace`: in text without comments, brackets
and numbered placeholders, with as many placeholders as parameters, a NULL is
written for each parameter that is nil. `StatementsAreTheFiles`.

`SearchFinds` walks the pages, at every page size of `Limits`, in the states in
which no order was taken yet: taking one writes neither the table nor the index,
and `SearchAlwaysFinds` (section 5) has the walk in every state.

Type invariants that no property of a run names are its first conjunct
(`LinesOfOneBasket`, `SearchFinds`, `EachHandlerOnce`, `RecordedIsComplete`,
`OneAccountPerSubject`, `KnownKeysAreFound`).

### Runs that find a disagreement

| run | stated | what the run shows |
|---|---|---|
| `cancel_race` | "Cancel cancels a pending order" (`service.go:292`) | the order is confirmed between Cancel's check and UpdateStatus, which also lets a confirmed order be cancelled |
| `delete_race` | the check in front of Delete protects other accounts' orders (`repository.go:222`) | the order goes, its id is given out again, and the delete takes the new order's lines and commits |
| `d1_status_race` | "two concurrent transitions cannot both pass the guard" (`repository.go:261`) | on D1 they do, and a cancelled order becomes confirmed |
| `notify_context` | "Each transition publishes an event for notification delivery" (`events.mdx:49`) | the job carries the request's context, so a delivery that is not over when the request is answered is aborted |
| `dump_search` | "Loading the script into an empty SQLite file yields a working local database" (`export.go:29`) | the triggers are left out and the record of migrations keeps them from being made: a product created there is not found by a search |

### Other disagreements met, without a run of their own

Orders and intake:

* `Get`, `List` and `InvoiceView` read header and lines in separate queries;
  between them the id may come to mean another order, whose lines are then shown
  (`repository.go:170`).
* A transition whose order is deleted before the re-read is committed and never
  announced (`repository.go:304`).
* `Create` stores any status the body names, although "status moves through
  UpdateStatus so the lifecycle and its events apply" (`types.go:47`).
* A product removed after a basket was priced, its id given to another, leaves a
  line with the old product's price under the new product's id (`service.go:223`);
  it is the exception of `SalesStand`.
* An invoice number is made of the order id, so two orders may get one.
* A screenshot is uploaded before the shopper and the address are looked up and
  before the insert, and stays when one of them fails; the comment at
  `service.go:217` has this in mind for the basket only.

Customers and accounts:

* `SetDefaultAddress` racing `DeleteAddress` leaves no default; on D1 a failed
  `CreateAddress` does too, against `customers/repository.go:108`.
* A 500 is answered where nothing failed: an address or a profile that is not
  there, a second cancellation of one order, two registrations of one address, a
  sort that does not exist, which `products/service.go:19` calls a client mistake.
* `Login` and `GoogleLogin` answer 401 when the database fails, too. `ErrNotPermitted`
  is a 403 from the order handlers and a 422 from the checkout's. `ErrShopperNotFound`
  is mapped and never reached, since the adapter answers the repository's own error.
  A refresh answers 401 when reading the account fails.
* "The old token is revoked, a new pair is issued" (`auth/service.go:165`): two
  refreshes that both find a token before either deletes it each issue a pair, since
  `DeleteRefreshToken` does not look how many rows it deleted; both pairs live.

Adapters, migrations, dump:

* A compensating delete on D1 goes by an id that may belong to another order by
  then (`d1.go:172`).
* `substituteNulls` does not know comments and brackets. Its "Guard against a
  statement whose placeholder count disagrees with the parameter count"
  (`d1.go:360`) compares a count with itself and cannot fire.
* `splitStatements` takes `]]` in a bracketed name for an escape, SQLite does not;
  the two differ on texts that are no SQL only.
* `NullableString` of a DATETIME column fails on SQLite and answers a text on D1;
  no repository asks for one.
* `migrations.go:29` promises that a failed migration is retried on D1: once its
  `ADD COLUMN` has taken effect, the retry fails on it for good. A Down cut short
  on D1 leaves the version recorded, and Up then skips it.
* "Down rolls back the highest recorded version" (`migrations.go:446`): 0001's Down
  drops `users` (`0001_init.sql:111`) before the `orders` that reference them
  (`:28`, `:113`), which foreign keys (`sqlite.go:26`) refuse as soon as a signed-in
  customer has ordered; on D1 the statements before it stay.
* The UPDATE in 0004's Down fails where 0003's index is in place and an account's old
  subject is by now linked to another account.

Bus:

* The bus starts a goroutine per job once its queue is full (`eventbus.go:90`),
  although its header says it cannot spawn an unbounded number; its workers do
  not keep the order of events.
* Product events are published and nobody subscribes to them.

## 4. Fairness

Safety needs none, and the order, storefront, account and migration modules
assume none: a client may go away, a process may stop. `Notifications` assumes
weak fairness of each publisher's loop, of each worker's receive and of a handler
that is not `Stuck`: the Go scheduler runs every runnable goroutine, a
non-blocking send never waits, and the WhatsApp client gives up after ten
seconds (`notifications/main.go:31`). A handler in `Stuck` may hang for ever:
nothing in the bus prevents one. Subscribing, publishing, the end of a request
and restarts have no fairness.

`KeyCache` assumes strong fairness of each sign-in's steps: the HTTP client gives
a fetch ten seconds, so it ends one way or the other, and `sync.RWMutex` keeps new
readers out while a writer waits and lets waiting readers in before the next
writer, so that who waits gets its turn though the lock is taken again and again.
Weak fairness would not do: a waiting step is disabled whenever another sign-in
fetches. Which way a fetch ends, new sign-ins, rotation and the clock are left to
chance.

## 5. Proofs

TLAPS checks them for every value of the constants that satisfies the named
assumptions (`OrderTablesAssumption`, `OrdersAssumption`, `DocumentsAssumption`,
`AddressesAssumption`, `CatalogueAssumption`, `IntakeAssumption`, `DumpAssumption`,
`AccountsAssumption`, `GatewayAssumption`, `KeyCacheAssumption`,
`EventBusAssumption`, `MigrationsAssumption`, `TextAssumption`,
`LinesAssumption`), which TLC evaluates in the runs. No module uses RECURSIVE.
Every invariant and every action property a passing run checks is a theorem, and
so are both refinements. The invariants of the longer proofs were checked as
invariants of the component's run first.

Orders on SQLite, any number of requests, readers, accounts, baskets and orders:

* `TypeCorrect` and `NoPhantom` (OrdersSQLiteProofs): `TypeOK` and
  `NoPhantomEvent`. `IInv` adds `RequestsSound`: a request that writes a basket has
  one, and one on its way to `publish` has put its event into `owed`, which only
  grows.
* `LinesSafe` (OrdersSQLiteProofs): `AllOrNothing`. The strengthening adds that
  serials of orders and of lines are at most `placed` and that no two orders
  share a serial; the lemmas of OrderTablesProofs say what inserting and
  deleting lines does to the lines of every order.
* `Verified`, `HeadersInScope`, `Implements` (OrdersSQLiteProofs):
  `VerifiedIffConfirmed`, `HeadersAnswerToScope` and the refinement
  `LifecycleHolds`. An insert must not find an event owed under the serial it
  takes (`SerialsTaken`), and a transition must not share its serial with another
  row (`SerialsDiffer`); with these an order's life under `LifeOf` is the status of
  one row, and every transaction changes the life of one serial at most, by a
  step of `OrderLifecycle`.
* `NothingForgotten`, `ToldOnce` (OrdersSQLiteProofs): `NoEventForgotten` and
  `NoDuplicateEvent`. That the re-read after a commit finds its order needs that
  the request still names the one row with the serial it wrote, in the scope it
  reads with (`Finding`), which every step keeps because it keeps the serial and
  owner of every row that stays (`Kept`); that the phone is right needs
  `Truthful`. That nobody is told twice needs that no event still ahead of an
  order's status is owed yet (`Ahead`): then a commit owes what nobody owed
  before, so two requests never owe one event (`Apart`).
* `OrdersReadWhole`, `InvoicesKeepTheirNumber` (OrdersSQLiteProofs):
  `AnswersAreWhole` and `InvoicesAreOnRecord`. A reader's headers either are still
  those of the table or their id is in `touched`; a number is recorded under a
  serial, which no later order has, so that it outlives its id being given out
  again.

Orders on D1 (OrdersD1Proofs), where every statement takes effect alone:

* `OneBasketOnD1`: `LinesOfOneBasket`. Its invariant holds while no two requests
  have overlapped (`Alone`), and says of the one request under way what it found and
  did (`Standing`): the lines written so far are the last rows of the table and the
  first of its basket, the header it wrote is still that order's, an order whose
  header is removed next has no lines. Every step leaves all other orders as they
  are and, unless it is cut short, its own whole, gone or still being worked on
  (`Orderly`).
* `LifecycleOnD1`: `LifecycleHoldsAlone`, the refinement of `OrderLifecycle` up to
  the first overlap. Until then the status that UpdateStatus or Cancel checked is still the one
  the UPDATE replaces, whatever failed or was compensated before. The run
  `d1_status_race` shows that overlapping requests break it.
* `AdaptersAlwaysAgree`: `AdaptersAgree`. `CellsInv` says that what is stored is the
  column's affinity applied to the parameter as each adapter passes it on; the
  rest is one lemma for each declared type, over its kinds of value.

The shop (StorefrontProofs), any number of customers, products, shoppers, editors:

* `AtMostOneDefault`, `OwnersOnly`, `DefaultsAreGivenUp`: `OneDefault`,
  `RowsAnswerToOwner` and `DefaultsGivenUpOnly`. The invariant adds that on D1, while
  requests do not overlap, a request about to write a default has already cleared
  its customer's (`ReadyToWrite`), that then no other request is in flight
  (`Alone`), and that what the ownership query answered is still so or the address
  is gone, ids being AUTOINCREMENT (`Findings`).
* `OrdersStand`, `OneCatalogueForABasket`: `SalesStand` and `SoldAtOneCatalogue`.
  `SInv` follows a cart from question to question (`CartFair`): once priced, its
  lines are a remembered catalogue's (`PricedFrom`), its upload is in the bucket
  (`Stored`), its address was its shopper's, and its ids stand for the products they
  were priced from but for those in `removed` (`Standing`). The foreign key of
  order_items then keeps what was sold.
* `IndexFollowsTable`: the index is at every instant the words of the table as it
  is (`IndexFair`), so what a search selects is what matches now
  (`SearchesTheTable`), though an id may have been given out again.
* `SearchAlwaysFinds`: `SearchFinds`, and `SearchFindsWhatIsStored` in every state.
  A page is cut from the matching products in order. That the cut exists, for any
  finite table, is shown without induction over sequences: the sort keys with the
  id as tie-breaker are a strict order, so how many rows come before a row numbers
  the rows from 1 without gaps (`SortedNumbers`), and a row's page and place on it
  are quotient and remainder of its number. Hence each row is on one page, once.
* `DumpTakesRowsOnce`: `RowsTakenOnce`. `DumpFair` relates the pages to the table
  by where each row stands in rowid order (`Place`). A row that was taken stays in
  front of the OFFSET (`TakenFair`): new rows are put behind all others and a
  deletion only moves rows forward. Without a deletion what is in front of the
  OFFSET has been taken (`WholeFair`). `OneStatementLoads` carries the pages into
  the loaded table. The load is a step per statement so that this needs no
  induction over the pages.

Accounts and sessions (AccountsProofs), any number of requests, accounts, tokens:

* `RevokedForGood`, `OneToken`: `RevokedStaysRevoked` and `OneTokenPerSession`. The
  invariant says of every refresh that holds a token of a session that is not in
  `doubled` what has become of it (`Spent`): nobody else holds one of that session,
  and when it comes to issue the next token, none of the session is in the table.
* `OneAccountForOneSubject`, `LinksGiveWayInRacesOnly`: `OneAccountPerSubject` and
  `LinksStay`. They need that what a sign-in was told of its account still holds
  unless another one met it on the way (`Vouched`, `Together`).
* `AdministratorsOnly`, `OneSessionInTheJar`, `SigningOutEnds`: `AdminsOnly`,
  `CookiesOfOneSession` and `SignedOutIsOver` of the gateway. The last needs, for
  every session, to know who has its last token: the table, the browser, the
  request that carries it or the answer that brings it (`Watched`).

Key cache: `KnownKeys` and `KeysExpire` (KeyCacheProofs): `KnownKeysAreFound` and
`WithdrawnKeysExpire`. A sign-in that expired the cache for a key that was
published all along finds it either still expired or stored anew with that key,
because whoever stores holds the lock since it fetched (`Refetched`, `Locked`);
`Recent` says how old a cached key may be.

Event bus: `EachHandlerToldOnce` (EventBusProofs): `EachHandlerOnce`, for any
number of publishers, workers and handlers and any capacity of the queue. The
property counts places; the invariant says of the sets of jobs in each kind of
place that they are disjoint (`PlacesApart`), make up what was addressed
since the last restart (`Accounted`), and hold no job twice (`HeldOnce`).

Handlers: `StatusesAlwaysTell` (AccountsProofs): `StatusesTell`, for any number of
requests in flight. `AnswersInv` says what a reply may have changed at each of its
steps: nothing while it is asked, at most the upload while a checkout looks up its
address, at most the form of its token until a refresh has seen its account, and
nothing but these before `write`. A failure after that is never mapped to a 4xx
(`FailuresAreOurs`), and a re-read that finds no row is the exception.

Migrations (MigrationsProofs), any list of files that is written as the six are, any
number of commands, any earlier record:

* `SchemaAlwaysMatchesRecord`, `RecordedIsAlwaysComplete`,
  `FilesAlwaysFit`: `SchemaMatchesRecord`, `RecordedIsComplete`,
  `FilesFitTheSchema`. `MInv` has three layers, each under weaker conditions than
  the next: what commands planned covers what is missing (`Planned`), what the
  record says is at least there (`AtLeast`), and what exactly is there, the record
  plus what the one leading Up has done of its version or what a Down has left of
  its own (`Exactly`). Of several Ups at one version, those that are behind fail at
  a statement or at the record and undo nothing. Rows may refuse any statement
  (`Trips`), which is a fault like another; that they are in objects that are there
  (`RowsFit`) is proved beside it.
* `UpAlwaysLeavesNothingPending`: `UpLeavesNothingPending`, from `Planned`: every
  version is recorded or still to be done by each Up under way.
* `AlwaysCutsWhereSQLiteDoes`, `NullsAlwaysStayInPlace`: `CutsWhereSQLiteDoes` and
  `NullsStayInPlace` (the latter for plain text), for texts of any length. `InStep` relates the state of
  `splitStatements` to that of SQLite's tokenizer, with the skipped second
  characters as states between; `Counted` does it for `substituteNulls` and says how
  many of the placeholders so far have become NULLs.
* `StatementsAlwaysAreTheFiles`: `StatementsAreTheFiles`, for files of any length.
  `SectionsInv` says what `parseSections` has after each line: the statements
  returned are the text up to the last marker, each on lines of its own section
  and in order, and the buffer is the text since (`Kept`, `Buffered`). Lines are
  never taken back, so a statement, once returned, stays what it is when the file
  goes on.

Only model-checked, and why:

* liveness (`PublishNeverBlocks`, `QueuedJobsStart`, `SigninsAreAnswered`):
  proofs under fairness need ENABLED, which the prover does not have.
* the five runs that find a disagreement: a counterexample is no theorem.

That the statements of the six files are what `MigrationScript` says, and that the
files keep the discipline of `MigrationsAssumption`, is data: TLC evaluates it.

## 6. What is not modelled, and what could follow

Not modelled: decoding of bodies, forms and queries, CORS and rate limits, the
health check, configuration, PDF rendering, bcrypt and the signing of JWTs, the
D1, WhatsApp and R2 clients beyond what their callers see, computed columns of
the SQLite adapter (`runtimeType`), sums in floating point, message texts. These
are pure input, output or a library's. `DashboardStats`, `UpdateProfile` and
`GetStatus` are no more than an answer: no other operation decides on what they
read or write. `DeleteUserRefreshTokens` and `uploads.Delete` have no caller.

The models assume that no hour passes during the ten seconds of a fetch, by which
cached keys may outlive their six hours, and that two uploads of one name do not
fall in one nanosecond.

What could follow: liveness, once a prover has ENABLED; `OrdersD1` with requests of
different orders overlapping, which the violation runs do not rule out; and the
decoding of requests, of which `Answers` has only that it may fail.
