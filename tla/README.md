# Formal models of the secondhand marketplace backend

The backend is a NestJS service: PostgreSQL through Prisma for users, products, orders, reviews,
favorites, notifications, categories and the first chat; MongoDB through Mongoose for the second chat;
RabbitMQ and an in-process event emitter for events. Several Node.js processes may serve requests at
once. Most of what can go wrong in it comes from one habit: a handler reads, decides, and writes in
separate statements, and the write repeats none of the conditions it was decided under. The models here
are therefore written at the grain of one database operation, with everything else interleaved.

## 1. Inventory

| Component | State | Operations | Interacts with | What is hard | What makes it correct |
|---|---|---|---|---|---|
| Orders (`orders/`) | table `orders`: parties, product, status, number, timestamps | create, update (status), cancel, confirm, remove, the ongoing-orders query | writes `products.status`; asked by Users before a withdrawal; its deletion cascades to reviews | check and write in separate autocommit statements; two tables without a transaction; deletion under a pending write; a number drawn now and used later | the transition table and its roles are respected; one live order per product; a sale was delivered and confirmed; a number is refused for a twin only |
| Products (`products/`) | table `products`: seller, status, view count, text | create, update (any status), remove (soft), list, search | status written by Orders and by withdrawals; views counted for everybody who reads | two writers of one column, neither conditional; updates nobody waits for | status agrees with the orders; a deleted product stays deleted; no view is lost |
| Users, authentication (`users/`, `auth/`) | table `users`; tokens that expire and are stored nowhere | register (and log in), login, refresh, update, withdraw (transaction) | withdrawal cancels unpaid orders and deletes products on sale | order check outside the withdrawal's transaction; checks before unique keys; a token outlives what it was given for | nobody withdraws in the middle of a trade; a withdrawal leaves nothing open; tokens belong to who knows the password and end with the account |
| Reviews, trust score (`reviews/`) | table `reviews`; three columns of `users` | create, update, remove, compute, store | reads orders; cascade on order deletion | computed from one query, stored by another: lost updates, crash in between | one review per order, between its parties; the stored score is that of the reviews |
| Chat over MongoDB (`messages-mongo/`) | collections `chat_rooms`, `messages` | find or create a room, send, mark as read, leave (with or without a transaction), list | publishes MESSAGE_SENT | no unique index; leaving in four operations when there is no replica set; transaction snapshots; a bulk update that is not atomic | empty rooms and their messages go, occupied ones stay; the last message shown is the last; what was read stays read |
| Local events (`events/handlers/`) | retry counters of running handlers | execute, retry | called by the emitter, write chat rooms | handlers of two events overtake each other; a crash loses them | every event is handled or given up; no old event undoes a newer one |
| Event publisher, RabbitMQ (`events/publishers/`, `rabbitmq/`) | channel pool, channels in use | get, release, publish, retry, disconnect | used by whoever publishes a distributed event | a retry keeps its channel while it takes another; the pool grows; the broker goes away before it confirms; shutdown while channels are out | no channel used twice or lost; the pool follows demand; what was reported as published is queued |
| Chat over PostgreSQL (`messages/`) | rooms, members with a reading mark, messages with a flag | find or create, send, read, leave | asks for the product and its seller | leave is delete, count, delete; read is two updates; find, then create | only empty rooms go and empty rooms do go; mark and counter agree |
| Categories (`categories/`) | a tree by `parentId`, an active flag | create, update, move, remove, the tree | products refer to them | the cycle check walks the tree query by query and the move comes later | the tree has no cycle and is shown whole; nothing hangs below a row that is gone |
| Favorites (`favorites/`) | pairs user, product | add, remove, list | reads the product, which counts a view; emits 'product.liked' | check then insert, guarded by a unique index | each pair once, announced once |
| Notifications (`notifications/`) | rows per user | single-statement writes; a list | listeners only log | the list is walked while rows come | as for every list |
| Pagination (`common/utils/pagination.util.ts`) | none | pages, cursors, page numbers | every list endpoint | two queries a page, many pages a walk; the ends of a list | a walk shows each row once, or there is a cause |
| API page script (`public/swagger-custom.js`) | tokens in the browser's store, one timer | monitor, click, refresh | calls `POST /users/refresh` | callbacks that cannot be cancelled overtake a logout; the script may run without `window.ui` | one timer; after a logout it stops |
| Redis, health (`database/redis/`, `health/`) | the state of the client | get and set, retry, check | probes PostgreSQL, MongoDB, Redis | probes answer at different moments, one of them from a cached state; the client gives up after ten attempts | an answer is grounded, and comes |
| Seed script (`prisma/seed.ts`) | all tables | empty, fill | the same database as the server | no transaction: killed half-way and started again | a run that ends leaves what it should |
| Logging, configuration, filters, throttling | none of their own | - | - | input and output | - |

## 2. Modules

| Module | What it is |
|---|---|
| `OrderRules` | the status vocabulary and the database-free rules of `OrdersService`: transition table, roles, status lists, timestamps |
| `OrderLifecycle` | the abstract promise about an order: it starts PENDING and takes a status only after one from which the rules lead there |
| `Marketplace` | Orders, Products and Users together, one action per SQL statement |
| `MarketplaceProperties` | what is claimed of `Marketplace`, in three groups: what no interleaving breaks, what is broken for named causes only, and claims of the documentation that fail |
| `MCMarketplace` | symmetry for the runs |
| `MarketplaceProofs` | TLAPS proofs of the first two groups |
| `Trading`, `MCTrading` | `Marketplace` and `TrustScore` side by side, one at a time |
| `RoomLife` | the abstract promise about a chat room: it opens with two members, each leaves it once, and it goes when nobody is left |
| `ChatRooms`, `MCChatRooms` | the MongoDB chat with its event handler, one action per MongoDB operation |
| `ChatRoomsProofs` | TLAPS proofs about `ChatRooms` |
| `TrustScore` | reviews and the score, one action per SQL statement |
| `TrustScoreProofs` | TLAPS proofs about `TrustScore` |
| `ChannelPool`, `ChannelPoolProofs` | distributed events: the pool of channels, publishing with retries, the broker, the shutdown; proofs |
| `CategoryTree`, `CategoryTreeProofs` | the tree of categories, the walk of a move query by query; proofs |
| `DirectChat`, `MCDirectChat` | the chat over PostgreSQL, one action per statement |
| `Accounts`, `AccountsProofs` | registration, login, refresh, renaming, withdrawal and the tokens; proofs |
| `SwaggerRefresh`, `SwaggerRefreshProofs` | the script of the API page; proofs |
| `Listings` | one list endpoint, the writers of its table and a client who walks it |
| `Favorites` | favorites, their event, and the view counter |
| `OrderNumbers` | the numbers of orders: drawn, looked up, used |
| `Receipts` | the reading marks of one room of the MongoDB chat |
| `Health` | the health checks and the Redis client's reconnecting |
| `SeedRun` | the seed script, killed and started again |
| `Conversions` | `PaginationUtil` and the values of `RedisService`, as functions |
| `Services`, `MCServices` | the twelve above that share no state, one at a time |
| `ServicesProofs` | TLAPS proofs about the eight of them without a proof module of their own, and about the composition |

### How state and actions correspond to the code

A handler is an async function: it runs undisturbed between two awaits, and an await is one database
operation. A request is a *slot* whose record holds the next operation (`pc`) and what the handler
remembers. The first action of a handler is its reads and checks; a request the code refuses changes
nothing and is no step. Reads that are separate statements are one action where nothing read by them can be
told apart afterwards: the order number drawn by `create()` is the example, its race is settled by the
unique index and shows as a failing INSERT. `Fail` ends a request where it stands, which covers a rejected
call and, per request, the process stopping; `ChatRooms` has a `Crash` of all requests at once because the
events live in memory. A call that took effect and whose answer was lost is the step followed by `Fail`;
for a chat message, whose answer triggers the event, it is written out.

* **Marketplace.** `product` and `order` are tables of rows or `NoRow`; `active` is `users.isActive`;
  `token` the users with an unexpired access token (`JwtStrategy` reads nothing else). `create`, `cancel`
  and `confirm` are a check, a write of the order and a write of the product; `update` a check and a write.
  `SoftDelete`, the withdrawal's transaction, is one step at its commit: its statements are each filtered
  `updateMany`s that re-evaluate their filter on the rows as they are when they are written, and no other
  handler reads uncommitted rows. What this leaves out is a row that changes between two statements of
  the transaction. `CreateProduct` is one INSERT. History for the properties: `seen` and `item`, the statuses an order
  has had and the product it was opened for; `late`, the users who sent a request after withdrawing; and the causes
  by which claims may fail: `patched`, the products whose seller wrote the status by hand, `reopened`, those
  he put on sale under an order, `halfDone`, those to which a request that died owed RESERVED or SOLD, and
  `raced`, the rows on which two requests relied at once. `Rows` says what a request relies on (its order and
  product, from the read to the last write) and `Crossed` adds a withdrawal and a request about to open or
  move a trade of the same user; `Admit` compares a request that has just read with all that are under way.
* **ChatRooms.** A room has two participant entries, possibly of the same user, the set of those who left,
  the stored count and the last message. A transaction locks its room document from its first write
  (`BeginLeave`) to its commit, and deletes the messages it saw then. Without a replica set, and whenever
  the status query of `isReplicaSetAvailable` fails, leaving is four operations. `handler` is the run of
  `UpdateLastMessageHandler` for each message under `BaseEventHandler.execute`. Users' and products'
  existence checks are left out: the model has only existing ones. `LifeOf` is what `RoomLife` sees of a room: the entries
  that have not left, and of these the one whose transaction has written and not committed (`leaving`).
* **TrustScore.** Orders (`deal`) are reduced to parties and "DELIVERED or CONFIRMED", which other requests toggle.
  Scores are computed by the code's formula, in tenths. `overtaken` marks scores computed before the
  reviews changed again, `wrong` the users that no pending request will correct. `Total` counts a point for each
  step up to each rating, which is their sum.

* **Trading.** Reviews see of an order its parties and whether it is completed, which `TrustScore` lets be anything the
  orders may make of them, and orders see nothing of reviews; so `side` names the one that runs while the other rests.
* **ChannelPool.** A channel is the number it was created as; a running emission is the stack of channels its
  nested calls hold (`held`), since `retryPublish` calls `emitDistributed` from inside its catch block, and
  each `finally` is one `ReleaseChannel`. `GetChannel` runs undisturbed unless it has to open a channel, whose
  connection it awaits. The broker is external: it confirms, refuses, or goes away after it has taken a
  message, and the channel wrapper then sends again. An event whose type no queue is bound to is dropped.
* **CategoryTree.** `Walk` is one query of `isDescendant` and the comparison of the first child it returns, in
  any order of siblings. `seen`, `overtaken`, `joined` and `raced` are history: what a walk has asked, whether
  a parent was written meanwhile, which children came after a removal was checked, whether a category moved
  on an overtaken check. The DELETE sets the parent of remaining children to NULL and is refused by products,
  as the schema says. `findTree` is evaluated on a table that stands still: what it loads level by level is the
  least set that holds the roots and the children of its members.
* **DirectChat.** Rows in order of creation; a member's `lastReadAt` is the number of messages at that time.
  Members and messages go with their room. `slipped` marks messages sent between the two updates of a reading
  mark, `overlapped` pairs whose two requests looked for a room at once, `deserted` rooms whose last leaver's request died.
  `DmLifeOf` is what `RoomLife` sees; here a member leaves by one statement, so nobody is ever `leaving`.
* **Accounts.** `owner` stands for the password. A login reads the row, then signs; the tokens carry what was
  read. Nothing revokes a token, only `Refresh` looks at the row again. `Demote` stands for whoever edits the
  database, as no endpoint changes a role.
* **SwaggerRefresh.** `pending` holds the timers the browser will run with the refresh token each captured,
  `flight` the requests under way. The monitor looks every second and timers are minutes away, so a timer
  fires only when the monitor has seen the store; requests under way have no such luck and answer at any time.
  The script starts with whatever an earlier visit left in the store. It waits six seconds for `window.ui` and then
  starts without (`ui`): `updateSwaggerAuth` gives up before it writes the store, `setupAutoRefresh` sets the next
  timer all the same. `blind` marks a timer set so after a logout that the monitor has already noticed.
* **Listings.** Rows carry only what the conditions ask of them, and the `stamp` they are sorted by: creation, or the last
  touch of a chat. `Rank` is a row's place in the order, a page the rows whose ranks fall into it. A page is two queries,
  `QueryItems` and `QueryTotal`, and the client turns pages; others write between any two of these. `shown` and `again`
  are the rows the client has seen, and seen twice. `Branch` is the order in
  which `search` looks at its filters.
* **OrderNumbers.** The draw and its look-up are one step, the INSERT another; `RefuseNumber` is the unique index.
  `twins` are the orders whose requests held one number at the same time, `refused` the ones the index refused, each with
  the order that has the number.
* **Favorites, Receipts.** One step per statement; in `Receipts` one step per document, since
  MongoDB's `updateMany` isolates nothing more.
* **Health.** The client of Redis is `none`, `retrying`, `connected` or `ended`; a ping waits while it retries. `connected`
  is mongoose's `readyState`, which is all that `isConnected` looks at: it follows MongoDB by a step of its own
  (`HeartbeatMongo`), however late. `stale` marks a check that began with MongoDB gone and `readyState` still good.
* **SeedRun.** Of a table only "empty", "the script's rows", "anything else"; the foreign keys are the schema's.
* **Conversions.** One sample is chosen in the initial state; the properties compare the functions with what
  they are for. A walk is the set of pages, or cursors, that every set has that contains the first and goes on
  wherever `next` leads (`Followed`), so it needs no recursion. Texts in Redis are told apart only by what `JSON.parse` makes of them.
* **Services.** These components share no table, so nothing one does is seen by another and a behaviour of all
  is an interleaving of one behaviour of each. `focus` names the one that runs; the others rest in an
  initial state that none of their fair actions leaves. What they share with `Marketplace` and `ChatRooms` (users,
  orders, rooms) is other columns of the same rows, or is named in the module's header.

## 3. Runs

| Run | Shows |
|---|---|
| `marketplace_concurrent` | two overlapping requests with faults: statuses are earned, sales are backed, parties match; transitions follow the rules and a withdrawal is final but for the causes named; the handlers implement `OrderLifecycle` |
| `trading` | two orders of one product, 3 users, two overlapping requests with faults: one live order holds its product and a confirmed sale stands, but for the causes named; a stored trust score is wrong only for one of three named causes |
| `oversell` | **violation**: two orders for one product; the PRD promises a lock |
| `withdrawal_mid_trade` | **violation**: an order paid between the check and the withdrawal; the comment on the check forbids it |
| `cancelled_not_restored` | **violation**: PATCH to CANCELLED or REFUNDED leaves the product RESERVED; the database design says it returns to ACTIVE |
| `deleted_revived` | **violation**: cancelling revives a deleted product; the database design says DELETED is final |
| `chat_rooms` | a room that both have left is being removed, its messages go with it, duplicates are bounded |
| `chat_events` | a room lives as `RoomLife` promises; liveness: events settle, empty rooms go; the last message is the newest unless events overlapped |
| `last_message` | **violation**: two events handled out of order leave the older message on show |
| `duplicate_room` | **violation**: two requests of one buyer make two rooms; the integration test of the repository expects one |
| `services` | what the twelve components promise, each under all interleavings of its own; section 3.1 |
| `category_cycle` | **violation**: two overlapping moves make two categories each other's ancestor; the service refuses a "circular reference" |

### 3.1 What `services` shows

Its properties are conjunctions of the named parts that the modules define; `AllTypesOK`, `RequestsSettle` and
`LeftoverTokensEnd`, in `Services`, put together the type invariants, and what has to happen in the end.

* **Pool** (`LendingSound`, `DeliverySound`). No channel is lent twice; the book of lent channels is right until the shutdown forgets it; the pool
  grows only to the demand there once was; what resolved is queued, as often as there were tries and breaks
  at most; an emission is settled however many others hold channels (there is no deadlock, because the pool grows).
* **Tree** (`TreeSound`, `TreeShowsAll`). Without a race the tree is a forest, shown whole, and a walk ends; parents exist always; a removal makes
  roots of those children only that came after its check.
* **Chat over PostgreSQL** (`DirectChatSound`, `RoomsGoWhenEmpty`). A buyer has one room per item unless two of his requests overlapped (`duplicate_room` shows
  that they then may have two); mark and
  counter disagree only about messages sent between their two updates; rooms live as `RoomLife` promises, so only empty ones go, and they do go unless
  the last to count died.
* **Accounts** (`AccountsSound`). Tokens are held by who knows the password; nicknames are unique; who has withdrawn, or is
  no administrator any more, loses his tokens, or the role in them, in the end and for good.
* **API page** (`OnePendingTimer`). One timer at a time; refreshing stops after a logout, unless the script runs without `window.ui` and
  a refresh answers after the monitor has noticed the logout: then each refresh sets the timer of the next, and only the arrival of
  `window.ui`, a failure or an expired token ends the chain; tokens of two sessions do not stay mixed, if refreshes are written at all.
* **Lists** (`WalksSound`). A walk of a table that stands still shows each row once, where it can reach it: a location search
  ends on its first page, since its total is that of the page, and the chat lists show the first two pages, since
  `nextPage` is computed from a text ("2" + 1 is "21"); what a chat of more than 20 pages shows from the 21st on is left open. A row is missed only if another went, or came
  between the two queries of a page; one is repeated only if another came.
* **Favorites** (`CountsAddUp`). Events, removals and rows add up for each pair; every reading of a product counts one view,
  attempts to like it that are refused included (the documentation has it otherwise, see section 5).
* **Order numbers** (`RefusedToTwin`). An order fails for its number only if another request held that number at the same time, and has
  got it: no older order, deletion or midnight makes the look-up wrong; the loop that draws ends unless the day's numbers are used up.
* **Reading marks** (`ReceiptsSound`). No message is counted for two marks; an answered mark leaves nothing unread that was there.
* **Health** (`VerdictsSound`). A good verdict was earned store by store, except by a MongoDB that went before the check began, unnoticed by mongoose; once Redis was given up no later check is good, although
  Redis may be back; every check is answered.
* **Seed** (`SeedSound`). A run is refused by a foreign key only if a server wrote meanwhile; one that ends leaves its rows and no others.
* **Functions** (`ConversionsFaithful`). Page numbers, offsets, cursors, and what a value becomes that is written to Redis and read.

**Bounds.** Races of these handlers are between two requests, so two slots; a third adds no new pair.
`marketplace_concurrent` has one order: other orders reach it only through `product.status`, which a
seller's PATCH may set to anything there, and the proofs cover any number of orders. `trading`
has two, since its claims are about two orders of one product. `Expiring`, `Patching` and `Departing` bound whose
token may run out, who may write a product's status by hand, and who may withdraw: in both runs one user may
withdraw, as buyer or as seller, with his token or after it ran out, or while a login of his is under way;
everybody may write a product's status.
Both runs leave out of the states told apart (`VIEW`) the histories that neither their properties nor any guard reads:
`seen` in `trading`, where whether an id was used can be told from `item`, and the causes in `marketplace_concurrent` that
its properties do not name. `trading` does not go on (`SomeClaim`) from a state in which its one product has met a cause that both
order claims except, because it has then met it for good and nothing is left to claim.
`chat_rooms` has three rooms, so that the bound on duplicates (two) can be exceeded, and one message;
`chat_events` has one room and two messages, enough for one to overtake the other; `FollowsRoomLife` is checked there, since
what it promises is promised of each room by itself, and its proof covers any number of them. Ids are used once, which
is how creations are bounded. `maxRetries`, 3 in the code, is 1 and 2 in the two large chat runs (they need
a retry and a give-up, not three) and 3 in `last_message`. The reviews of
`trading` are two, of two orders, with the extreme ratings.

`services`: two slots everywhere, for the reason given above. The pool has one channel, so that it must
grow, and two emissions: one that is retried once, into a queue, and one that is not, of a type without a queue;
one outage. Three categories are the least in which a walk has two steps; three changes let two moves
overlap after a creation, or a removal overlap a creation. Two users, one item, two rooms and two messages let a
second room be opened and a message slip between the updates of a mark; four requests let both leave and one come
back. Two addresses, two people, two nicknames and three requests let two people compete for an address or a
nickname, and one withdraw whose login is under way. Two sessions let one replace the other while its refresh is
under way, twice. Lists begin with at most three rows of three kinds, a page holds one, and one other write falls
anywhere into the walk; the eight walks are one per condition and direction that the code treats differently.
Two numbers a day and two days fill a day and go on. `RedisTries` is 2 for the code's 10: a first attempt, a
second, and giving up. The seed runs twice, with one row of a server. Lists of up to seven pages with up to two
neighbours show every shape of a page range. Two messages and two marks let marks overlap and a message come late.
`category_cycle` has three categories and two administrators, `duplicate_room` two users, one item and two requests.

**Deadlock** is not checked: the service may be idle for ever once the ids or requests of a bound are used up,
and owes nobody a step. What could block for ever (a publisher waiting for a channel, a probe waiting for
Redis, a walk, a draw) is a liveness property instead.

**Fairness.** `Marketplace` and `TrustScore` have none: their handlers promise nothing that a request must
eventually reach, and `Fail` may end any. `ChatRooms` assumes that every operation sent to MongoDB is
answered, if only by an error, and that the event loop starves no continuation: weak fairness of each slot's
next operation or failure, and of each handler's next attempt. Weak fairness suffices: under faults an
attempt may fail while a transaction holds the room, so it stays enabled; without faults a transaction commits.

In `services`: an operation that was sent is answered, a timer that was set fires, and time passes. So a
publisher's next step and the broker's return (`PoolFairness`: the connection manager tries again for ever), the next
query of a walk, the two statements that end a leave, the expiry of tokens and the signing that a request has come
to, the monitor and the timers of the page, the drawing of numbers, the Redis client's attempts and the drivers'
answers. No fairness is assumed of users, of outages, or between success and failure of one step.

## 4. Proofs

All safety invariants, action properties and refinements of the passing runs are proved, and of every interleaving. The
theorems speak of any users, products, orders, rooms, messages, categories, slots, retries and pool sizes; where
they count (duplicates, channels, views, points) the set that is counted over is finite, which is a hypothesis of
the theorem (`IsFiniteSet(Slots)`, `Publishers`, `WishSlots`, `Reviews`). No other assumption is made than the named
ASSUMEs on the constants (`NoRow` is no row, `Faults` is Boolean, and so on), which TLC evaluates.

None of the invariants is inductive alone, and nearly always for one reason: a request writes what it decided
earlier. What is added says what a request still knows between two of its statements.

**Marketplace** (`MarketplaceProofs`), faults included: `TypeCorrect`, `PartiesCorrect`, `StatusesEarned`,
`SalesBacked`, `RequestsBacked`, and `Refinement` (`Spec => FollowsLifecycle`). The inductive invariant adds
`InFlightBacked`, which says of every pending write that its reason has happened (the rows exist, the status has been
earned, the sale confirmed), and `ItemMatchesOrder`, which ties the history to the row. It is stable because the
history only grows and product rows never go away. The refinement then needs one case per action: a step opens an
order, advances it, or leaves it alone.

`LiveOrdersHold`, `ConfirmedSalesStand`, `WithdrawalsFinal` and `RulesFollowed` hold of every interleaving and every failure too; the
causes they except are part of the properties, and the violations of section 3 show that the causes do harm. The
theorems say that nothing else does, for any number of orders of a product and of requests. Their inductive invariant
`RaceInv` adds three things. `RacesRecorded`: two requests in flight that rely on the same row have it in `raced`. `Knows`: what a
request has read is still so when it writes, unless a row it relies on is in `raced` or another cause has met its product (`insertOrder`: the product has no live
order; `cancelOrder`: the order may still be cancelled; `softDelete`: no trade of the user's is under way).
`Trade`: the orders of a product agree with its row, or the write that makes them agree is still owed. A step of one
request disturbs what another knows only if it writes a row the other relies on, and then the two share it and it is
in `raced`; that is the argument of every case.

**Chat over MongoDB** (`ChatRoomsProofs`), with and without transactions, crashes included: `TypeCorrect`,
`EmptyRoomsRemoved`, `NoMessagesLeft`, `LastMessageShown`, `RoomsLiveAsPromised`, `DuplicatesAreBounded`. Added are: the count is
that of the entries that have not left (`CountsRight`); a transaction has the room to itself until it commits and
knows its messages, all but the late ones (`CommitsSound`); a zero that was read stays zero (`RemovalsSound`), since
nobody comes back into a room; of events that did not overlap only the newest is pending (`OnlyNewestUnhandled`).
`RoomsLiveAsPromised` is the refinement of `RoomLife`. Its steps are found room by room: `FateOfRoom` says what a step does to the
document, `FateOfLeave` what it does to the leave that is under way, and `LifeStep` puts the two together. The point is
`CommitsSound`: of two leaves of a room at most one is a transaction half-way, and it finds nothing changed when it
commits, so that the one who takes the room along is the last.
The bound on duplicates has an invariant of its own, `FewDuplicates`: rooms and requests of one pair and product
together are never more than the slots. It holds because a request that finds a room ends in that step, so whoever asks
for a room has overlapped everyone who made one.

**Reviews** (`TrustScoreProofs`): `TypeCorrect`, `ReviewsCorrect`, `ScoresExplained`, `HeldScoresFresh`. The
inductive invariant adds `PendingMatches` (what a pending write remembers of the row it read still fits the row, if
it is there). `SameScore` is the frame lemma: a step that touches no review about a user leaves that user's score
alone. `TypeCorrect` contains the range of the scores: a rating gives at most five points, so the total is at most
five times the number of reviews, and rounding does not exceed a whole bound.

**Channel pool** (`ChannelPoolProofs`): `PoolTypeCorrect`, `LendingIsSound`, `DeliveryIsSound`. A channel is the number it
was created as; it is in the pool once, in at most one stack, and in neither while it is being opened
(`ChannelsSound`). `CopiesCounted` charges each copy to a try or an outage and says that the try about to be
made is not spent yet. `Demand` counts: the pool grows only when all its channels are lent.

**Categories** (`CategoryTreeProofs`), any finite set of them: `TreeTypeCorrect`, `TreeStaysSound` (no cycle without a
race, parents exist, removals lose nothing), `TreeStaysWhole`. The inductive invariant adds `RequestsSound` (unless it
was overtaken, everything a walk has asked has its children asked or queued, the moved category is among these, and the
new parent is not among those asked) and `InsertsDiffer`. A walk that ends has therefore seen a set that contains the
moved category, is closed under children and leaves the new parent out; a category whose new parent lies outside such a
set closes no cycle. That argument needs no path, no induction and no bound on the tree. Neither does
`TreeStaysWhole`: the categories that are not shown have their parents among themselves, which in a tree without
a cycle nobody can.

**Accounts** (`AccountsProofs`): `AccountsTypeCorrect`, `AccountsStaySound` (tokens go to the owner, nicknames are
unique). What is added says of each pending request that whoever is about to sign was recognised.
**API page** (`SwaggerRefreshProofs`): `SwaggerTypeCorrect`, `OneTimer`: a timer that runs is the one the script knows,
hence a timer that is replaced is always cleared.

**The other eight** (`ServicesProofs`):

* `RefusalsHaveTwins`: two requests that hold one number are twins (`HoldersAreTwins`), and an order that has the number
  of a request has got it from a twin of that request (`TakenByTwin`), since the number was free when it was looked up.
* `VerdictsAreSound`: `CheckSound` says what a check under way has seen of each store, and that a `readyState` that says
  connected has either seen MongoDB during the check or was stale before it; `LinkSound` what the state of the client implies.
* `SeedIsSound`: `RunSound` says which tables the run has emptied and filled so far, as far as nobody else wrote.
* `WalksAreSound`: between two pages every row whose rank lies on the pages turned has been shown, and no row moves
  to a lower rank unless another went, nor to a higher one unless another came (`MissSound`, `RepeatSound`); for a table
  that stands still both together (`StillSound`), with the two lists that end early apart (`LocatedSound`, `ChatSound`).
* `FavoritesAddUp`: additions whose event is not yet emitted are counted by the slots that hold them.
* `ReceiptsCount`: a mark has passed every document it read or left (`MarkSound`), and each read message was counted
  by the mark that wrote it, since the write matches unread documents only.
* `DirectChatIsSound`, `DirectRoomsLiveAsPromised`: `OpeningSound`, `ReadingSound`, `LeavingSound` for the three handlers; who is about
  to remove a room has seen it empty, and nobody joins one after its creation. The refinement of `RoomLife` adds
  `OpensWithTwo`: nobody is about to open a room with himself.
* `ConversionsAreFaithful`: for every total, limit, page and width. That a client gets to each page he should get to is shown
  by the first he would not get to, and that there is a first by the library's theorem that the numbers are well-founded
  (`LeastNumber`, `StepsAreFollowed`), which does the work of an induction. The rest is arithmetic: a page begins where
  the one before ends (`PageIs`, `CursorIs`), and the dots between page numbers stand for at least one (`GapsFit`).

`EachByItself` composes: a behaviour of `Services` is one of every component, fairness included. From it follow
`AllTypesStayOK` and `ServicesStaySound`, all that the run `services` checks of safety.

**Only model-checked**: liveness (`EventSettles`, `EmptyRoomGoes`, `RequestsSettle`, `LeftoverTokensEnd`,
`EmptyDirectRoomGoes` in `RoomsGoWhenEmpty`), which needs ENABLED. That `maxRetries`, page sizes and the like have the values
of the code matters to no proof.

## 5. Not modelled

* Password hashing and change, e-mail verification flags, the descriptive columns of users, products and categories,
  `updateOrder`: single statements on columns nothing else depends on.
* `updateProductId` of the MongoDB chat, `date.util.ts`, `crypto.util.ts` and `events/examples`: nothing calls them.
* The listeners of events other than MESSAGE_SENT log or are stubs; 'message.created' of the PostgreSQL chat and
  'product.liked' have none at all.
* Logging, configuration, validation, the exception filter, the response interceptor, Swagger decorators: no state
  of their own. The throttler is a library with a table of limits.
* Locks and deadlocks inside PostgreSQL (an aborted transaction is a failed call), real time (token lifetimes and
  retry delays are nondeterministic), floating point (the scores involved are far from rounding ties).

### Where documents and code disagree

Seven disagreements are refuted by a run of their own (section 3). These others are not: there the model follows the
code, so a property that holds says what the code does and not what the document wants.

* `docs/database-design.md:617` and `:634`: the product becomes SOLD when the order is paid. No handler does this: it
  stays RESERVED until `confirm`. `SoldIsBacked` states the rule of `confirm`, and `LiveOrderHoldsProduct` asks only
  that the product is off the market, which both rules give.
* `docs/database-design.md:638`: a refund from PAID only; the flow at `:440-445` draws SHIPPING to CANCELLED and
  CANCELLED to REFUNDED. `validateStatusTransition` refunds from PAID and DELIVERED and has neither of the other two.
  `TransitionsFollowRules`, `StatusEarned` and `OrderLifecycle` take the table of the code.
* `docs/database-design.md:623`: repeated views of one user are not counted. `incrementViewCount` counts every reading,
  whoever reads, and `CountsAddUp` says that none of these is lost.
* `docs/database-design.md:630`: an order number is made of the second and six digits; the code takes the day.
* `docs/business/user-soft-delete-policy.md:408`: who has withdrawn can neither log in nor use the service. Login and
  refresh are refused, but an access token is honoured until it expires, and new orders and products may come of it;
  `WithdrawalIsFinal` excepts who uses one (`late`), and `LeftoverTokensEnd` says that they run out.

Met while modelling, and described rather than refuted, as no document or test we know of says otherwise: a location
search ends on its first page and takes a coordinate of zero for none; a search by seller shows deleted products;
the chat lists compute `nextPage` from a text; readiness does not ask MongoDB; the Redis client never comes back
once it has given up; a refused attempt to like a product counts as a view; the list of PostgreSQL chats asks
for the unread count with the id of the membership row in place of the room's (`messages.service.ts:122`), which counts
no message; refreshing may go on after a logout where `window.ui` is missing.

## 6. Plan

Done: all modules of section 2, their runs, and the proofs of their safety properties and refinements. What would come next:

1. `SoftDelete` split into its statements, to drop the abstraction named in section 2, and `MarketplaceProofs` with it.
2. An abstract pool (opened, lent, returned, closed) as a refinement target for `ChannelPool`, beside `LendingSound`.
3. Runs that refute the disagreements of section 5 that no run refutes yet, once the code or the document is chosen.
