# duck-saver: specifications and proofs

TLA+ models of the services and of the browser client of duck-saver (a personal finance manager:
Spring Boot services over MySQL, Redis and RabbitMQ, jQuery pages), the TLC runs that check them and
the proofs TLAPS checks about them. Paths are relative to the root of the repository;
`AccountServiceImpl` and the like are unique class names below `src/main/java` of their service.

## 1. Inventory

| component | state | operations | talks to |
|---|---|---|---|
| account-service (`AccountServiceImpl`) | tables `account` (with `@Version`, `@TableLogic`), `transaction`, `saving`; lock `lock:account:{id}` in Redis | create, update, delete, addItem, deleteItem, findByName | the cache, the lock, the publisher |
| publisher (`AccountEventPublisher`) | none | snapshot, then send | RabbitMQ fanout exchange, inside the request |
| two-level cache (`common/cache`) | Caffeine map of each node (L1), Redis (L2) | get, put, evict | used by `@Cacheable`, `@CacheEvict` of account and statistics |
| event consumption (`AccountEventListener`, `AccountEventConsumer`, `StatisticsServiceImpl`) | `statistics.event.queue`, its dead-letter queue, tables `processed_event`, `data_point` (with `@Version`) | consume, save (also by PUT), onDeadLetter, findByAccountName | broker, cache |
| event reconciliation (`AccountEventReconciliationJob`) | none | reconcile: send again the accounts whose row changed in the last 30 minutes | publisher |
| authentication (`RefreshTokenService`, `OAuth2LoginService`, `UserServiceImpl`) | refresh tokens and OAuth states in Redis, tables `user`, `oauth_binding` | register, login, rotate, revoke, issueState, OAuth login, bind, unbind | OAuth providers, Sa-Token |
| notifications (`RecipientService`, `NotificationServiceImpl`) | tables `recipient`, `notification_config` | save settings, the two cron scans with one asynchronous send for each config, markNotified | account-service (Feign), mail |
| browser client, session (`launch.js`, `login.js`, `jsonDataSave` of `main.js`) | the token in `localStorage`, shared by all tabs; of each page: `user`, `incomes`, `expenses`, `global.savePermit` | load, login, sign up, demo, logout, save | whatever answers for tokens and accounts, the other tabs through the token |
| browser client, item editor (`main.js`) | `incomes`, `expenses`, the divs of two sliding columns, one dialog, timers, debounced functions | add, edit, delete, scroll, change page, save | the PUT of the account; the statistics page by `runConvert` and jQuery data |
| browser client, statistics page (`dashboard.js`, controls in `main.js`) | `savings`, selected and last currency, exchange rates, the sums, slider, forecast | currency sign and buttons, launch, slide, toggles, fade, draws and their timers | a server of exchange rates; the item editor |
| gateway, web layer, ai-service | none worth a model | routing, login check, principal header, mapping of exceptions to statuses | everything |

Hard behaviours and what makes a component correct:

* **account-service.** No method is `@Transactional`: each statement commits by itself, requests of
  any number of nodes interleave between any two calls to MySQL, Redis and RabbitMQ, and every call
  may throw with the earlier ones kept. `update` runs under a Redisson lock with a fixed lease, and
  under it an optimistic-retry loop. Correct means: no update is lost whatever the lease does, one
  creator of a name, a deleted account stays deleted, the status a client gets tells what became of
  the tables, one event for each success, no lock left behind, an answer for everyone. The publisher
  has no confirms and no transaction: `convertAndSend` may return and the event be lost.
* **cache.** Reads fill two levels in steps, writes evict them in steps, each node has an L1. Correct
  means: only what was once committed is cached, and nothing stale once the writers have ended.
* **event consumption.** At-least-once delivery to several nodes, retries inside the listener,
  dead letters with tombstones, a transaction across `data_point` and `processed_event` that races
  with PUT. Correct means: each event counts once or never, never both dead and counted, none is
  dropped, the row is the last save.
* **browser client.** A page has one thread, but its handlers interleave with timers (dialog fields
  are reset after 200 ms, sums converted after 230 ms, a removed div taken away after 300 ms), closed
  dialogs stay clickable while they fade, and `debounce` drops calls without a later retry. Exchange
  rates arrive at any time, and each draw of the forecast sets its year-end number by a timer of its
  own. Tabs share a token and nothing else. Correct means: columns, dialog, sums, forecast and what is
  sent follow the items; switching currencies loses no money; a PUT carries the token and the items of
  one user and nothing of the demo.

  The client is written for another server than the one in the repository. It sends the whole account
  to `PUT accounts/current` and signs in at `uaa/oauth/token` with `Bearer`; account-service has
  `PUT /accounts/{name}`, whose body is a currency (`AccountController.java:46-49`), `POST /accounts`
  wants a name and a currency, auth-service has `/uaa/login` and a `satoken` header, and a GET answers
  `items` where the client reads `incomes` and `expenses`. What becomes of a PUT is therefore no claim
  of the models: they say what the client shows and sends, for any answer a request may get.
* **reconciliation.** Must make good what a failed publish lost. It sends `ACCOUNT_UPDATED`, which
  `consume` only logs (`AccountEventConsumer`): part of the next model.
* **authentication.** Tokens and states are read and deleted in two calls; OAuth login registers and
  binds without a transaction; unbind must not remove the last way in.
* **notifications.** A scan hands configs to asynchronous sends; `markNotified` writes the whole
  config row it scanned; several nodes scan.

`PROJECT.json` lists the components with their status and the hazards with their lines.

## 2. Modules

| module | what it is |
|---|---|
| `TwoLevelCache` | L1 and L2 with the steps get, put and evict make, restart of a node, expiry of entries. `AccountService` and `StatisticsService` each have an instance of it for their own cache. |
| `AccountService` | The requests of account-service, call by call, and their properties. |
| `MCAccountService` | The inputs of its instances. |
| `AccountService_proofs` | Type correctness and `NoLostUpdate`. |
| `AccountAnswers_proofs` | What answers mean (client errors, server errors, retries), the lock, creators, deleted accounts; builds on the one before. |
| `AccountEvents_proofs` | What others see: events, cached views, the saving of every account; builds on the one before. |
| `ExactlyOnce` | What the pipeline promises: an event is sent, then processed with at most one effect or buried without, once for ever. |
| `StatisticsService` | Broker, listener threads, transaction, dead letters, PUT and GET of statistics-service; refines `ExactlyOnce`. |
| `MCStatisticsService` | The inputs of its instances. |
| `StatisticsService_proofs` | Type correctness, the rows of `data_point`, the freshness of Redis. |
| `StatisticsPipeline_proofs` | The way of an event, and that the pipeline refines `ExactlyOnce`; builds on the one before. |
| `BrowserSession` | Tabs, token, memory of each page, what a PUT carries. |
| `ItemEditor` | The settings page: columns, dialog, timers, debounces, way to page 4, save. |
| `StatisticsPage` | Currencies, sums, forecast and slider, with their controls on both pages. |
| `MCBrowserSession`, `MCItemEditor`, `MCStatisticsPage` | The inputs of their instances. |
| `BrowserSession_proofs` | Type correctness of the sessions, and what they save. |
| `ItemEditor_proofs` | All safety properties of the settings page, from the order of its timers. |
| `StatisticsPage_proofs` | All safety properties of page 4: sums, currencies, savings, forecast. |

### AccountService

`account`, `saving`, `item` are the tables, `lock` the Redisson lock, `l1`, `l2` the cache,
`published` what was handed to the broker and whether it arrived at the exchange. Each member of
`Requests` is one HTTP request with its thread: `req` is what it asks, `pc` the call it makes next,
`row` the entity it loaded, `view` what it read to answer or to publish, `attempt` the loop counter,
`answer` the decided status. An action is one call to a store or the broker with the code up to the
next one: `LoadAccount`, `AcquireLock` or `LockTimeout`, `Reload`, the write of an attempt,
`Snapshot`, `Send`, unlock, the two evictions, and so on. `Send` returns and the event is at the
exchange, or, at the cost of a fault, it is lost behind the return. `CallFails` is any of those calls
throwing without an effect, `Crash` the death of a node, `LeaseExpires` the end of the 10 s lease. The
decisions a bug would sit in (`RowMatches`, `MoreAttempts`, `AfterThrow`, ...) are operators of their
own; the operators beside them that end in `_F` are faulty variants no action uses, kept to show which
property notices which mistake (PROJECT.json, "mutants").

Abstractions: `uk_account_name` also covers logically deleted rows, so a name has one row for ever and
the account, the saving and the lock are indexed by name. An item is the request that added it.
Amounts, notes and the rest of an account row are abstracted to its currency. `writes`, `touched`,
`expired`, `threw` (which request saw which of its calls throw) and `past` (all values the tables have
held) are history. A call that throws after it took effect is not modelled. The wait for the lock has
no clock: whoever waits may give up while somebody else holds it.

### StatisticsService

`queue`, `inbox` (unacked messages of a node, in order), `dlq` and `burial` (a dead letter in
`onDeadLetter`) are the broker's; `processed` and `point` the tables, `rowLock` the row a running
transaction has written. Threads are the consumer of each node, PUTs and GETs. `Count`, `InsertPoint`,
`UpdatePoint`, `EvictShared`, `EvictLocal`, `Commit`, `Ack`, `Reject` are consume and its listener
container; `tried` is the attempt of the retry interceptor. `CommitLost` is a commit whose
acknowledgement is lost, `Crash` rolls the transaction back and gives the messages back to the queue.
`applied`, `unrecorded` and `raced` are history.

Abstractions: the consumer's `selectOne` reads in the snapshot its `selectCount` opened (InnoDB,
REPEATABLE READ), so both are `Count`. The insert into `processed_event` and the commit are one step,
because a second transaction with the same event waits at the insert for the outcome of the first.
`save` writes the row of the current day only, so each account has one row. A malformed snapshot is an
event in `Poison`: its attempts always throw.

### ExactlyOnce

`StatisticsService` maps its tables to `state` and its history to `effect` (the named instance
`Pipeline` at the end of the module); the run `statistics_pipeline` checks `Pipeline!Spec` as a
PROPERTY, so every step of the broker, the nodes and the faults is a step of `ExactlyOnce` or a
stutter.

### BrowserSession

`token` is `localStorage`, `tab[t]` one page: `stage` says what it is doing, `asked` whose account or
token a synchronous request waits for, `posting` the registration form in flight, `shown` and `items`
what `initAccount` left in memory, `greeting` a timer of `initGreetingPage`. A request with
`async: false` is two actions (asked, answered or failed) that nothing of the same tab comes between,
while the other tabs run on: `TokenAnswer`, `TokenError`, `FetchAnswer`, ... Errors remove whatever
token there is by then. `JsonDataSave` reads the token of the moment; `put` is the latest PUT sent. The
answer to a PUT changes no state of the page, so PUTs are not followed further. `InitAccount` puts the
items of the account over those in memory and clears nothing, as the code does.

The server is any server: a request fails or is answered, the answer has any items (`ItemsOf`) or is an
account without a saving, on which `initAccount` throws (`LoadThrows`, `FetchError`, `ClickDemo`). The
server of the repository answers with no `incomes` and no `expenses` and sometimes with no saving;
its answers are among these. Tokens do not expire, which to the client is the same as a request that
fails.

Abstractions: an item is the user whose account the page showed when it came or was entered. `past` and
some fields of `put` are history: `crossed` (another tab changed the token this page relies on) and
`again` (a second account was asked for in this page). Deleting an item here adds no case to changing
one and is left to `ItemEditor`. The late answer of the e-mail form, which would run
`initGreetingPage` a second time in an open page, is left out.

### ItemEditor

`items` are the two objects, `list` the children of the slider divs, `arrows` and `empty` what
`itemsPosition` and `checkSlidersLength` show, `shift` the slider's transform in item heights,
`dialog` the one modal window with the column and id its handlers are bound to. `timers` is the queue
of pending `setTimeout`s and CSS transitions: a timer is put behind each earlier one with no longer a
delay, and anywhere among the longer ones, as their time may have run to any point. That is more than
real clocks allow (it forgets how two longer ones relate to a third), so what holds holds in the
browser. `gates` are the debounced functions that drop calls at present. `sent` is the body of the
latest PUT, and before the first one the account as it was loaded. A handler is one action with
all it calls: `ClickSave` is `addOrSaveItems` with the addition or the change, the signs, the timers
and `jsonDataSave`; `ClickDelete` is `deleteItem`.

Abstractions: the fields of an item are one value, `Blank` is what `checkModalFields` refuses. The
frame of a column holds `Frame` items (4 in the code). Three assumptions are about the user and stand
in no line of the code: typing takes longer than the timers of a closed dialog (`Settled`), the way of
the pointer from a column to the delete button is longer than a slide of 250 ms (`PointerArrived`),
and nobody clicks an item in the 400 ms before page 4 slides in. `PointerArrived` also says that the
`Up` of the dialog before has run by then, which the clocks imply (200 + 300 ms is less than 316 + 250
ms) and the order of the queue alone does not: without it TLC finds, at five clicks, that a removal in
the next dialog has its own `Up` dropped by the debounce. A double click is not excluded: it is what
makes the fading dialog interesting. `late` is history: a button of a fading dialog has changed an
item; `unsent` is history too. The bounce at the ends of a list (`startoflist`, `endoflist`) changes
no position and is left out, and so are the notes dialog and the icon table.

### StatisticsPage

Amounts are integers in thousandths (the code keeps them by `toFixed(3)`), sums whole units, the
forecast 1200ths of a unit, which makes 30.41666667 days (365/12) and interest by month exact. The
percentage is a whole one (the field takes hundredths, up to 99.99). `Broken` is Infinity or NaN, and
`NotNumbers` asks it of the sums themselves: a difference of two numbers may have any value. `SumsOf`
is `runConvert` over both columns with its snap of small differences, `ChangeCurrency` the conversion
of the savings, `InitStatisticPage` the debounced function around it, `Year` the five branches of
`initSavingsCircles`. `known` says whether the rates have arrived, `due` which timers will draw the
forecast again, `settling` that `initStatisticPage` drops calls. `drawn` is what `initSavingsCircles`
computed the months from. Each of its calls leaves a timer of 220 or 720 ms in `writes` with its own
year-end number, and `yearEnd` is the draw that number was last set from. `SetPreciseValue` runs any
timer but one set after another of the same or a shorter length that is still pending. `overtook` is
history: the last draw was set to end before an older one. A click into the savings field takes the
whole units it shows. Where an unknown rate makes a range NaN noUiSlider throws, and the action ends
at that point as the handler does.

Abstractions: the account changes as a whole between those in `Accounts` (`ItemEditor` has the
editor). Timers have an order and no clock. `due` is a set: two clicks of a currency button within 100
ms are drawn once, for the second draw would be of the same state. The steps of the animations, which
the timer behind them overwrites, are left out. The debounces of launch, fade and save are left to
`ItemEditor`: here they would only be clicks that were not made. The circles of page 4 with their
select lists, the bars and the chart animation show data that is modelled and keep none of their own.

## 3. Runs

| run | shows | instance | states |
|---|---|---|---|
| `account_update` | `NoLostUpdate`, `LockExcludes`, `RetryNeedsExpiry`, `LockReleased`, `ClientErrorChangesNothing`, `DeletedIsFinal`: lock, version and retries together lose nothing, and an error answer below 500 means nothing changed | three updates (one perhaps a delete), two nodes, two attempts, one fault | 1.2 M |
| `account_life` | `OneCreator`, `LiveAccountHasSaving`, `SuccessIsPublishedOnce`, `EventShowsChange`, `CachedViewsWereCommitted`, `ServerErrorExplained`, and `EveryRequestAnswered` under fairness, over create, update, delete, addItem, deleteItem and find of one name | three requests, two nodes, two attempts, one fault | 320 k |
| `account_lock_mutex` | **violation:** two updates inside the lock once a lease ran out | two updates, no fault | |
| `account_conflict_answer` | **violation:** 409 without any version conflict | two updates, no fault | |
| `account_cache_stale` | **violation:** both cache levels keep the account as it was before a finished write | one addItem, one find | |
| `statistics_pipeline` | `CountedOnceIfProcessed`, `NothingVanishes`, `DeadLettersNeedFaults`, `PointIsLastSave`, and the refinement `SettledOnce` | two item events, one of them sent twice, two nodes, one PUT, three attempts, two faults | 390 k |
| `statistics_read` | `StaleOnlyByRace`, and `EventSettles` under fairness | an item event, a poisonous one, a lifecycle event, a PUT, a GET, two attempts, one fault | 260 k |
| `statistics_lost_save` | **violation:** an item event is processed and its data point was never written | two events, one PUT, no fault | |
| `editor_page` | `DomIsData`, `ListFillsFrame`, `SignsMatchList`, `OpenDialogHasItem`, `PageFourIsCurrent`, `LaunchFailsOnlyAfterRemoval`, `UnsavedIsExplained`: everything on the page, and the body of the latest PUT, follows the items through any interleaving of clicks and timers | one income, three expenses, a frame of two, four clicks | 420 k |
| `statistics_page` | `MoneySurvivesSwitching`, `SavedMoneyIsLabelled`, `PageFourAgrees`, `ForecastIsCurrent`, `DepositPays` | three accounts, two rates, three slider positions, 12 percent, four clicks | 2.0 M |
| `statistics_year_end` | **violation:** the timer of an older draw sets the year-end number after that of a slide | the same | |
| `browser_session` | `AccountsStayApart`, `DemoNeverSaved` | two tabs, two users, two item slots, five visits | 750 k |

Bounds and why they are enough. Rows are independent of each other, so one name and one account show
every conflict; two currencies are enough to tell a lost value from a kept one. Three requests give an
update an update to conflict with and a third to take the lock between; two attempts make both "again"
and "given up" happen. Two nodes are needed for two L1 caches, for a crash that spares somebody and
for the two copies of one event in work at once. `MaxAttempts` is 3 in `statistics_pipeline` as in the
code: with 2, the two unique keys could use up the attempts of an event without any fault, so the
bound matters. `MaxFaults` bounds failing calls, lost events and crashes together; in the pipeline two
let a crash follow a lost commit. `MaxCopies` bounds how often an event is sent. Leases and cache
entries expire at any time without a bound. `account_update` uses the symmetry of its two identical
requests; the runs with liveness use none.

In `editor_page` a frame of two with three expenses is the smallest list that scrolls and stops
scrolling when one is removed; four clicks let a user open a dialog, change something, and do two more
things while the timers run (open, delete, delete again, scroll). Timers are bounded by the clicks.
`statistics_page` has an account with incomes below the snap of 10, one with items of both foreign
currencies and every period, and one whose sums are snapped together; four clicks reach a conversion
there and back with a launch and a dropped call or a save, or a launch and three slides against its
draw. `browser_session` needs two tabs for a token that changes behind a page and two users for items
under the wrong token; five visits let both tabs open, both sign in and one ask again. Changes and
saves need no bound, as only the latest PUT is kept. It uses the symmetry of tabs and users.

Deadlock is not checked: the requests, events and clicks of an instance are finite and the system
rests when all have ended.

Fairness. Each request thread, each consumer thread, each dead-letter thread and the broker's delivery
is weakly fair, for a servlet or listener thread that can take its next step is scheduled and every
call ends by answer, exception or timeout. A thread that waits for the account lock can give up at
any time after its wait, so it never needs strong fairness. `ItemEditor` states that timer callbacks
are weakly fair (the event loop runs what is due); its properties are safety properties and do not
use it. Users, tabs and the network of the client owe nothing. Nothing is assumed of faults, leases,
expiry, or of events being sent.

## 4. Disagreements with the documents

1. `docs/specs/005` promises a lock renewed by the watchdog that excludes a second update;
   `tryLock(5, 10, SECONDS)` fixes the lease and so turns the watchdog off (`account_lock_mutex`).
   `NoLostUpdate` shows that the version column still protects the row. The unlock of the slow
   update throws, and its client gets a 500 for a committed update (`ServerErrorExplained` lists it).
2. `docs/specs/005` promises 409 only after the retries; a lock timeout is a 409 too
   (`account_conflict_answer`).
3. `docs/specs/005` promises that writes keep L1 and L2 consistent; a read that loaded before the
   write puts the old response back after the eviction (`account_cache_stale`).
4. `docs/specs/004` and the comment of `AccountEventConsumer` promise that the data point and
   `processed_event` are written together; `save` ignores that `updateById` matched no row, so an
   event can be recorded without its data point (`statistics_lost_save`).
5. The comment at `dashboard.js:404` says that a timer sets the precise value of the forecast for the
   end of the year. Nothing cancels the timers of draws before: a slide during the 720 ms of a launch
   or of a currency button is done after 220 ms, the older timer runs last, and the number stays that
   of the old position beside eleven months of the new one (`statistics_year_end`: launch, its draw, a
   slide, the slide's timer, the launch's timer). `ForecastIsCurrent` names this case and holds in all
   others.

More observations, where no document speaks of the case. The properties of the client name each as
an exception, and each exception is needed: without it TLC finds a counterexample.

* An addItem that loaded the account before a delete inserts a live row that belongs to a deleted
  account.
* `data("seconditem")` is never cleared (`dashboard.js:106`, `:177`). When the second of two expenses
  is removed, the next launch passes undefined to `initCircle`: page 4 does not open and the save
  behind it does not run (`LaunchFailsOnlyAfterRemoval`).
* `jsonDataSave` drops a save within 1.8 s of the one before (`UnsavedIsExplained`). PUTs are neither
  numbered nor queued, so a server may take the older of two last; no model here says what it keeps.
* A read that began before a write leaves a view in the cache whose currency, items and saving were
  each true at some time, though perhaps never together, and need not be true any more
  (`CachedViewsWereCommitted`); only `CachesAreCurrent`, which fails, asks for the present.
* The buttons of a fading dialog still work: a removal by them lets a dialog be opened on an item that
  is gone, or leaves a gap in the list (`late` in `OpenDialogHasItem`, `ListFillsFrame`).
* A conversion of the savings before the exchange rates are there makes them Infinity or NaN for good
  (`MoneySurvivesSwitching`); when the account is not in roubles the page fails to build at all before
  they are there (`Init` leaves that out).
* A second currency button within 900 ms changes the selected currency and not the savings; a save
  then names the wrong currency (`SavedMoneyIsLabelled`).
* Incomes of 1 to 9 a month are counted among the expenses, too, by the snap of `dashboard.js:112`
  (`PageFourAgrees`); months 1 to 11 of a deposit without capitalization leave out what is not
  deposited (`dashboard.js:312`, `DepositPays`).
* A tab saves with the token another tab put in place, and `initAccount` leaves items of the account
  before in memory, to go out under the next user's token (`AccountsStayApart`).

## 5. Proofs

TLAPS proves every invariant, every action property and the refinement that the runs check, for every
value of the constants that satisfies the named assumption of the module. Each theorem has the same
shape: the property is strengthened until it is inductive, every action of `Next` keeps it, and PTL
does the rest. The tables say what had to be added.

### account-service

`ServiceAssumption`: the inputs are of their types, a create has a currency (`@NotBlank`), an item to
delete is an item, `MaxRetries` is positive. `AccountService_proofs`:

| theorem | property | argument |
|---|---|---|
| `TypeCorrect` | `TypeOK` | `attempt` stays in range only because `MoreAttempts` guards it, and the CASE operators are defined only for the kinds that reach them. `Typed` adds `OnCourse`: which calls each kind of request can be at. |
| `NoUpdateIsLost` | `NoLostUpdate` | `UpdateInv`: the version of a row is the number of its committed updates, and a row somebody loaded is no newer than the table and equal to it when the versions are equal. `RowMatches` then means that nothing was overwritten. |

`AccountAnswers_proofs`:

| theorem | property | argument |
|---|---|---|
| `ClientErrorsAreClean` | `ClientErrorChangesNothing` | `AnswerInv`: a request that has changed a row is past the calls that answer 400, 404 or 409. |
| `LockIsExclusive` | `LockExcludes` | `LockInv`: a request inside the lock owns it or has lost its lease (`Held`), and a lock is owned by a request for its account (`Owned`). |
| `LocksAreReleased` | `LockReleased` | part of the same `LockInv`: whoever owns a lock is inside it, has crashed, or saw its own unlock throw. |
| `NamesAreCreatedOnce` | `OneCreator` | `CreatorInv`: a create that inserted the account has left its row behind for ever, and the row has one creator. |
| `DeletedAccountsStay` | `DeletedIsFinal` | every action that writes `account` asks for a live or an absent row. |
| `RetriesAreExplained` | `RetryNeedsExpiry` | what `updateById` will find is decided when the row is loaded: `RowIsCurrent` says it is still the row of the table, unless a lease for this account ran out or the account is deleted (`Excused`). |
| `ServerErrorsAreExplained` | `ServerErrorExplained` | case by case over the actions that answer 500; causes never go away (`Forward`). |

`AccountEvents_proofs`:

| theorem | property | argument |
|---|---|---|
| `LiveAccountsHaveSavings` | `LiveAccountHasSaving` | `SavingOwed`: a live account without its saving has a create that inserted the row and stands before the other insert or broke off there (`Owes`). `CameBy` says by which action a request came to its call. |
| `SuccessesArePublishedOnce` | `SuccessIsPublishedOnce` | `SentOnce`: whoever has published is past the call; an event that did not arrive has cost a fault. |
| `EventsShowTheirChange` | `EventShowsChange` | `SnapshotInv`: before the snapshot the change is made, and what the snapshot found of it is not undone; `published` then copies the view. |
| `CachesShowCommitted` | `CachedViewsWereCommitted` | the same three times, from the tables (`RowsCommitted`) through what a reader holds (`ViewsCommitted`) to both cache levels (`CachesCommitted`), against `past`, which only grows. |

### statistics-service

`StatisticsAssumption`: events, PUTs, readers and nodes are different things, poisonous events are
item events, at least one attempt. `StatisticsService_proofs`:

| theorem | property | argument |
|---|---|---|
| `TypeCorrect` | `TypeOK` | `OnCourse` ties the label of a listener to its message: a listener at work has one. |
| `LastSaveIsKept` | `PointIsLastSave` | `Rows`: a row that a writer has read is still there when it writes, and while a transaction holds the lock the row is the one it read (`LockFits`). |
| `StaleNeedsRace` | `StaleOnlyByRace` | `Fresh`: without a race, a reader that fills the cache holds the row of the table, and an entry may differ from it only while a PUT stands before its eviction. |

`StatisticsPipeline_proofs`:

| theorem | property | argument |
|---|---|---|
| `NoEventVanishes` | `NothingVanishes` | inductive with `OnCourse`: a listener acks only what `processed_event` has a row for. |
| `EventsCountOnce` | `CountedOnceIfProcessed` | `SettlingStep`: every step processes one event with at most one effect, gives one up without, or changes neither. |
| `PipelineIsExactlyOnce` | `SettledOnce` | the refinement, from the same `SettlingStep`: what processes maps to `Process`, what gives up to `Bury`, a first publication to `Send`, all else to a stutter. `FromPublisher` (what was never sent is nowhere) makes the mapped `Send` start from "unsent". |
| `DeadLettersAreExplained` | `DeadLettersNeedFaults` | **if `MaxAttempts` is 3 or more**, as in the code (`StatisticsAmqpConfig`). `AttemptsFit` counts: without a fault an attempt fails only on a duplicate `data_point` or a duplicate `processed_event`, each at most once, for the row that was in the way stays. With 2 it is false: TLC finds two deliveries that use up both attempts without a fault. |

### Browser

`SessionAssumption`: the demo and `None` are no user, slot 1 exists. `BrowserSession_proofs`:

| theorem | property | argument |
|---|---|---|
| `SessionTypeCorrect` | `TypeOK` | `Inv`. That an open page shows an account is not inductive: `Sound` adds it for the stage a request goes back to (`back`) and for a page whose greeting timer runs, and that an account asked for is a user's. |
| `DemoStaysLocal` | `DemoNeverSaved` | `Whose`: a page that may save neither shows the demo nor has items of it in memory (`Clean`). `ClickDemo` takes the permission, also when its answer is an exception, and only a reload, which empties the memory, gives it back. |
| `SavesStayApart` | `AccountsStayApart` | the same `Whose`: a page that never asked twice holds items of the account it shows, and if no other tab changed the token, the token is that account's, also between the two requests of a login. |

`AllSound` and `AllClean` are kept action by action: the tab that acts by what the action does to its
page, the others because the action touches the token and the history only.

`EditorAssumption`: an account with any number of items, a frame of at least one row, an empty form is
no value. `ItemEditor_proofs`:

| theorem | property | argument |
|---|---|---|
| `EditorTypeCorrect`, `SignsAreRight` | `TypeOK`, `SignsMatchList` | `TypeInv`: an id is at most the number of the first items and of the clicks since, and without arrows a list fits its frame, so that a slider that may go up has been pulled down. |
| `UnsavedHasAReason` | `UnsavedIsExplained` | inductive: every handler that changes items ends in `SaveAnd`, which sends them or is remembered as dropped (`SaveKeeps`). |
| `PageFourIsUpToDate`, `LaunchesFail` | `PageFourIsCurrent`, `LaunchFailsOnlyAfterRemoval` | `ConvInv`: the sums lag only while the overlay covers the page (`Sure`), and the remembered first item is that of the last conversion. |
| `ColumnsShowTheItems` | `DomIsData` | `DomInv`: beside the items a column shows only divs whose removal is pending, and none is added while one shrinks, so that no id is given twice. |
| `OpenDialogsHaveItems` | `OpenDialogHasItem` | `GhostInv`: a div whose item is gone leaves before the overlay does. |
| `ListsFillTheFrame` | `ListFillsFrame` | `FrameInv`: a list fills its frame or is one row off with an `Up` on its way that finds the div gone, its debounce open and the slider at rest (`Queued`). |

All of it stands on what the handlers do to the queue of timers. `SetTimers` is a fold over sets; its
result is described by `Merges` (the old timers and the new ones, each in order, none before one that
was due no later), which is shown by a least counterexample, as no induction theorem of the library
can be used. `Sure` (a timer runs before the overlay is gone) and `Queued` are then kept step by step.

`PageAssumption`: any accounts whose columns are finite and not empty, any positive rates, slider
positions in steps of 5. `StatisticsPage_proofs`:

| theorem | property | argument |
|---|---|---|
| `PageTypeCorrect` | `TypeOK` | `Total` is a recursive sum over a finite set; that it is defined and a natural number is shown by least counterexamples over cardinalities. |
| `SumsAreShown` | `PageFourAgrees` | `SumsKept`: sums known are those of the items in the selected currency; `LabelKept`. |
| `ForecastsAreCurrent` | `ForecastIsCurrent` | `MonthsInv`: whatever changes sums, savings or deposit leaves a timer that draws again. `YearEndInv`: the timer of the last draw is the last of `writes` and none before it is longer, unless the draw overtook one. |
| `SavesAreLabelled` | `SavedMoneyIsLabelled` | `SavingsInv`: the savings are in the selected currency unless a call was dropped, and a number unless converted too early. |
| `SwitchingKeepsMoney` | `MoneySurvivesSwitching` | the drift in roubles grows by at most `Largest` with each conversion (`ConversionDrift`) and 500 times that with each touch, as the field is the savings to the nearest unit (`FieldInv`). |
| `DepositsPay` | `DepositPays` | `Enough`: after k months a deposit is at least what was paid in less a unit a month, and at least what `Brings` says, which counts what each cut-off can lose; `OneMonthMore` is its step. The allowance against interest at the end is the twelve units and, as a unit cut off in month j earns nothing in the months left, the interest on 66 unit months; with these it holds at every rate. |

### What the proofs changed

`CountedOnceIfProcessed` had its second conjunct aligned under the quantifiers of the first, and so
said less than it was meant to; a difference of sums that happened to equal `Broken` counted as NaN
(`NotNumbers`); and the order of timers allowed a dropped `Up` that no clock allows
(`PointerArrived`). The assumptions on finite columns and initial items were added with names, too.

### Only model-checked

Liveness under fairness (`EveryRequestAnswered`, `EventSettles`), and with it that every thread is
enabled when it should be: the prover has neither WF nor ENABLED. The properties of the runs that
expect a violation are false, and have no theorem. `ExactlyOnce` and `TwoLevelCache` have no theorems
of their own: the one is proved of `StatisticsService`, the actions of the other are part of those of
its two users.

## 6. Not modelled

* An interrupted wait for the lock (a 409 that happens at shutdown only), `demo()` (a read without the
  cache), clear and the Callable variants of the cache (no caller), eviction by maximumSize (to a
  reader the same as expiry), clocks: TTLs and leases end at any time.
* `account.event.queue`: bound to the exchange, no consumer, it grows for ever.
* Malformed JSON on the wire, day boundaries in `data_point`, decimal arithmetic of the statistics.
* Of the browser client: the vendored plugins in `js/lib`, animations, fonts and layout, the icon
  table, the notes dialog (its text is one more field of the PUT), the select lists and circles of
  page 4, the way back to the greeting page.
* gateway, ai-service, deployment: no state whose interleavings matter.

## 7. Plan

1. *done* `TwoLevelCache`, `AccountService`: the write path and what clients are told.
2. *done* `ExactlyOnce`, `StatisticsService`: the pipeline and its refinement.
3. *done* `BrowserSession`, `ItemEditor`, `StatisticsPage`: the browser client, and what its saves are.
4. `AccountPipeline`, a composition of the publisher, `AccountEventReconciliationJob`, the broker and
   the consumer: does the reconciliation make good a lost publish (docs/specs/004, story 6), and which
   snapshot do the statistics settle on when two requests publish in the other order. Two requests,
   one account, one lost publish.
5. `Notification`: settings, both scans, asynchronous sends and `markNotified` on two nodes; a
   notification at most once in a period, and which writes `markNotified` may undo. An abstract
   specification of "one reminder for each period".
6. `Authentication`: rotation, states, first OAuth login, bind and unbind; one session for each token
   or state, one user for each identity, nobody locked out.
7. *done* Proofs of every safety property of 1 to 3. Left: the invariants of 4 to 6, once they are
   modelled.
