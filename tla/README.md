# Verification of usdtAuto, a KRW/USDT paper-trading bot

TLA+ modules, TLC configurations and TLAPS proofs about the bot under `src/`.
The program is one FastAPI process: a scheduler runs a pass over the running
bots every few seconds on the event loop, and API requests start, stop,
configure and sell from threads of their own. They share the database, the
event loop and two pools, and that is where what can go wrong goes wrong. A page
of JavaScript in the browser is the only client that comes with it.

## The system

| Component | State | Operations | Status here |
| --- | --- | --- | --- |
| Tick pass (`service/bot_service.py`, `main.py`) | session of the pass, bots loaded, portfolio of the bot whose turn it is | `tick_all`, `_tick`, `_run_tick`, `_apply_risk_controls` | modelled |
| Bot operations (`api/routes.py`, `bot_service.py`) | session of the request | `start`, `stop`, `update_settings`, `manual_sell` | modelled |
| Paper trading (`service/paper_trade_service.py`) | table `trades`, replayed into a portfolio | `execute`, `manual_sell`, `_restore_from_trades` | modelled |
| Strategies (`strategy/`) | none | `decide` | modelled |
| Sessions and database (`database.py`, `db_models.py`) | committed rows, the open write transaction, the write lock | `session`, `get_db`, flush, commit, rollback | modelled; Oracle for what is waited for |
| Exchange clients, FX providers (`exchange/`, `fx/`) | none | `get_ticker`, `get_usd_krw_rate` | outcome only |
| Accounts (`routes.py`, `dependencies.py`, `security.py`) | `users`, `upbit_api_keys`, default bots | register, login, API keys, `ensure_default_bot` | modelled |
| Dashboard (`static/dashboard.js`) | token, dirty flag, form, list of keys | login, logout, refresh, save | the settings form modelled |
| Status and history read-outs | none | `status_payload`, `trades` | not modelled: read-only |
| Live trading (`live_trade_service.py`) | none | a stub that raises | not modelled: nothing calls it |
| Configuration, logging, encryption, deployment | none | - | not modelled |

How they interact:

- **The pass.** `tick_all` opens one session, loads the bots that are `RUNNING`
  and gives each a turn. A turn reads the bot's settings and replays its trades,
  *awaits* the ticker and perhaps the rate, decides, applies the risk controls,
  inserts at most one trade and flushes. The session is committed after the last
  turn. The `trading_bots` rows are never read again in the pass, so a bot's
  status and trade mode are those of its start.
- **A request.** FastAPI runs a handler in a thread with a session of its own. A
  handler reads the bot, decides, flushes; when it has returned, the event loop
  sends the exit of `get_db` to a thread, and that commits.
- **The database.** A read sees what is committed. The first write of a session
  takes SQLite's one write lock until its commit. A second writer sleeps in the
  busy handler and gives up after the busy timeout. A pass that has written
  something holds the lock over the awaits of all the bots that follow, and a
  pass that finds the lock taken sleeps *on the event loop's thread*, which the
  holder of the lock needs in order to be committed.
- **A flush** writes the columns the session has changed and leaves the others.
  A change is relative to what this session loaded, perhaps long ago.
- **The event loop** runs the pass, and the pass's waiting for connections and
  locks, which serves nobody meanwhile. A request needs it, and one of a limited
  number of worker threads, for `current_user` and for the handler, and once more
  to be committed; from `current_user` on it keeps a connection of the pool.
- **The page** refreshes its settings form every five seconds, unless the user is
  editing, and a save sends the whole form. The select of the form that holds the
  API key is rebuilt at every event of the form, and at every refresh whether or
  not the user is editing: it offers the keys listed last that are of the exchange
  shown, and a key no longer offered is no longer selected.

What makes each part correct: an account is never overdrawn; a stopped bot is
left alone, soon; nothing a user saved is written back to an older value;
orders respect the day's limit; a loss cut gets rid of everything; nothing is
sold twice; every request is answered and every pass ends; a login names one
user, a user has one bot, a token stands for the account it was given for; what a
user types reaches the server. `PROJECT.json` lists
the hazards line by line with the property that covers each.

## The modules

| Module | Models |
| --- | --- |
| `Strategy` | the two `decide` methods, as operators |
| `PaperTrade` | order sizing, fees, the row inserted, and what a row does to the replayed portfolio (a *book*) |
| `BotService` | the state machine: pass, requests, sessions, lock, midnight, crash; its properties and its inductive invariant |
| `Lifecycle` | the abstract specification: what users are promised of their bots, without sessions, locks and awaits |
| `Accounts` | registration, login, default bots, API keys, and a bot's exchange and key |
| `Registry` | the abstract specification of `Accounts`: what users are promised of their logins, bots and keys, without ids, tables, sessions and locks |
| `EventLoop` | the event loop, worker threads, pooled connections and locks that the pass and the requests wait for, on SQLite and on Oracle |
| `Dashboard` | the settings form of the page: edits, saves and refreshes |
| `MCBotService`, `MCAccounts`, `MCEventLoop`, `MCDashboard` | the values TLC's configurations choose from |
| `PaperTradeProofs` | lemmas on orders and books |
| `BotServiceProofs` | types, money, late rows, merges |
| `LifecycleProofs` | the rest of the invariant of `BotService`, the properties about stale portfolios, that it implements `Lifecycle`, and what follows from that |
| `RegistryProofs` | that `Accounts` implements `Registry` |
| `AccountsProofs`, `EventLoopProofs`, `DashboardProofs` | the theorems about these modules |

`Strategy` and `PaperTrade` hold no state; `BotService` extends them, and
instantiates `Lifecycle` under a mapping, as `Accounts` does `Registry`. The other
three stand beside it, each for the state it is about: the data of users and keys
steer no tick, what a part waits for does not depend on what it computes, and the
page sees the server through its API alone. A request is the same thing in each of
them.

### State of `BotService`

| Variable | In the code |
| --- | --- |
| `db` | what is committed: status, settings and trades of every bot |
| `pending` | the database with the writes of the open write transaction |
| `lock` | the holder of SQLite's write lock: the pass (`"tick"`), a request, or nobody |
| `phase`, `cur` | where the pass is (`idle`, `scan` between turns, `await` in a turn, `blocked` in the busy handler) and whose turn it is |
| `loaded` | the objects in the session of the pass, for the bots still to be handled |
| `trader` | `paper_trader.portfolio`, restored before the await |
| `req` | per request thread: what it read, what it wants to leave, and how far it is |
| `late` | ghost: rows that passes committed on a bot since it left `RUNNING` |

The trades table of a bot only grows, and is read through two folds, the replay
and today's sum, so a *book* keeps these folds and applies one row at a time.
`book.rows` counts rows; `book.live` those stamped `live`; `book.short` the
volume that was sold without being held, which the replay conceals by setting
the balance to zero.

### Actions of `BotService`

| Action | In the code |
| --- | --- |
| `PassStart` | `tick_all` up to its query |
| `TickRead(b)` | `_run_tick` up to the first await |
| `TickAct` (`TickOn` a quote and a rate) | the rest of `_run_tick`: decide, risk controls in their order, order, flush; or the exception of a rate of zero and `_tick`'s handler for it |
| `TickFail` | `TemporaryTickError`: only `last_error` is written. Assigning the text it already has makes no write, hence the disjunct without one |
| `TickBlock`, `TickTimeout` | the flush waits for a request's lock; the wait ends in an exception that rolls the pass back |
| `PassEnd` | the session's commit |
| `Start`, `Stop`, `UpdateSettings`, `SellNow` | the handlers up to their flush. A refused sale or a stop of a stopped bot writes nothing and is left out; a start or a save that changes no column of the model may still write `last_error` or another column left out here, and takes the lock |
| `ReqWrite`, `ReqTimeout` | the handler's flush, or its failure at the busy timeout |
| `ReqExit`, `ReqCommit` | the event loop starts the exit of `get_db`; a thread commits |
| `NextDay` | midnight in Seoul: today's sum starts again |
| `Crash` | the process dies and restarts; open transactions are gone |

### `Lifecycle`

A bot has a `status`, a `setting` and an `account` (KRW, USDT, the number of
trades, and the USDT sold without being held). `Start`, `Stop`, `Save` and `Sell`
change one bot and one of the three, at once. `Pass` handles all bots at once: it
may trade once on a bot, pause it or put it into `ERROR`, and a trade that comes
with a pause leaves no USDT. A pass may trade on a bot that is not running only if
the bot is in `grace`, and that takes it out until the next start.

What a trade may do is part of the promise. A `Purchase` is paid in full at some
price asked (fees may come on top) from KRW the account has. A `Sale` brings KRW,
and no more than some price in use, bid in the market or named by the user, makes
of the USDT that left the account and of those that were not held: KRW do not
appear for nothing, and what a stale sale conceals in the balance is in `short`. A
`Save` leaves each column as it was or as *one* request wants it (`Merged`): two
overlapping saves may mix, column by column, but no third value appears.

`BotService` maps its variables to what is *committed*: `status` and `setting` are
those of `db`, `account` the book's, and `grace` the bots with no late row. That
every step of it is one of these operations, or none, is the property
`KeepsPromise`: sessions that read early, flush column by column, time out or crash
look to users like operations that happen one after the other. What the promise
does *not* say is that a sale is of what is held.

### `Accounts`

`db` is three tables whose row number is the id; `pending` and `lock` are as in
`BotService`; `tokens` is what clients hold, with the login and password they gave
for it. `Register` is the handler up to its first flush, `CreateKey` and
`SaveSettings` likewise, `CheckKey` the query for the key (a read of its own, after
the bot's), `Write` and `Reject` the flush and its failure (busy timeout, unique
constraint), `Commit` and `Abort` the end of the session, `Login` a read. Nothing
is ever deleted, so a rolled-back id is the next one given. The token's expiry is
left out: an expired token is one the client does not use.

### `Registry`

What the users of `Accounts` are promised: `account` gives per login its password
and its bot's exchange and key, `keys` per API key the login of its owner and its
exchange, `entered` the logins under which somebody may act. `Join` creates the
account with its bot and the right to act, all or nothing; `Enter` is a login;
`AddKey` and `Tie` act on the login's own keys and bot. `Tie` writes what one save
asks for, and may leave either column as it is: a session does not write a column
that has the value it loaded, whatever others have made of it since. The mapping
takes what is committed: a login stands for the one user that has it, that user for
the one bot, a token for the login of the user its id names. So `KeepsRegistry`
holds only if logins and bots are unique and ids are never given to another user
while a token has them, and says more: every commit, rollback and crash is an
operation of one user on the user's own account, or nothing.

### `EventLoop`

`phase`, `todo` and `cur` are the pass; `conns` who has a connection; `owner` who
holds SQLite's one lock or Oracle's row locks; `req` is a request's way through
`arrived`, `auth` (in a thread, waits for a connection), `authed` (connection, no
thread), `handler` (in a thread, waits for a lock), `done` (no thread, has its
locks) and `exiting`. Timeouts are actions enabled while the wait lasts. On Oracle
neither the pass nor a request gives up a lock: the driver and the server wait
without limit unless the database has been set up otherwise (a resource plan that
ends idle blockers would end the stall; none is in the repository's scripts). The
pass may trade or not, so any set of its bots may have something to flush.

### `Dashboard`

| Variable | In the code |
| --- | --- |
| `user`, `form`, `latestApiKeys`, `dirty`, `focus` | the page's: whose token it has, what the form shows, the list of keys rendered last, `settingsDirty`, and whether the active element is in the form |
| `gets` | the refreshes under way: the timer's, and the one a save awaits. The server answers the settings and the keys in calls of their own, at moments of their own, and `Render` waits for both |
| `put` | the save under way |
| `server`, `keys` | the bots' settings and the users' API keys |
| `known`, `unsaved`, `during`, `unlisted` | ghosts: the settings the page takes for the server's; what was typed and not saved; what was typed while a save was under way and is not protected since; whether a list of keys rendered since lacked the key of `known` |

`RenderApiKeys` is the select of the key rebuilt over what the form shows: by
`Type`, which is any event of the form, by `Render`, which calls it outside the
guard of `isEditingSettings`, and within `RenderSettings`. `CanType` is what the
form lets the user enter; before the first event nothing is disabled, so a base
price may be typed into the blank form. `Store` is `update_settings` at the server:
the key must be the user's and of the exchange it comes with, what the payload
lacks gets its default (`FromPayload`), and a base price brings its strategy with
it (`WithStrategy`).

`OtherClient` leaves whole settings, also ones this page could not: a key beside
another exchange after overlapping saves (`MismatchOnlyIfStale` of `Accounts`), or a
base price beside the premium strategy. Keys are created by whatever form or client
and never deleted. The refreshes after commands and logins are not told from the
timer's. A reload of the page, which drops all of its state, is left out.

### Abstractions

- Amounts are integers; a quotient is truncated. The code uses floats. A round
  trip fee is a percentage. An order that truncates to no volume is not placed,
  a case floats do not have.
- The turns of a pass come in any order; the code takes the database's.
- `last_error`, `last_signal`, snapshots, profit columns, `neutral_band`,
  `fx_rate_max_stale_seconds`, `exchange`, `market` and `api_key_id` steer no
  tick and are left out of `BotService`. `TickFail` keeps the one effect of `last_error` that
  matters: writing it takes the lock. So do starts and saves, above.
- Waiting for the lock is the state itself: a request stays in `"read"` until
  `ReqWrite` or `ReqTimeout`. The length of the timeout is not modelled; it may
  strike whenever the lock is held by another.
- A request that reads uses the commit it sees when it starts; its handler's
  few reads are not separated, since a pass commits at one instant and the
  handlers read the bot and its trades back to back. What happens between
  reading and writing is.

## The runs

All instances keep 12 KRW to begin with, an order maximum of 6, a day's limit of
20, quotes 3/2/3 and 5/5/6 (trade/bid/ask) and a fee of a tenth per side: the low
quote makes either strategy buy, the high one makes it sell, two orders exhaust
the account or the day, and a fee is never rounded away on a whole order.
`trading` uses the base-price strategy, whose decision depends on the portfolio,
and sells by hand at 5; most others the premium strategy, and 4. `risk_settings`
lowers the order maximum to 4, less than a position is worth, and asks for the
rate: at 6 the premium strategy buys at either quote, so that a position is bought
at two prices, and at 3 it may sell. Its quotes are 3/2/3 and 4/3/4 and it sells by
hand at 3: nobody pays more than 3 and nobody asks less, which `NoFreeMoney` needs
to say anything. `MaxRows` is the one bound on the state: a bot with that many rows
gets no further trade. Two rows are a purchase and the sale of it; three add the
sale that competes with it, or the purchase after it. The settings and liveness
runs need one: what they ask is who writes when, not how much.

| Run | Bots, requests, rows | Checks | Shows |
| --- | --- | --- | --- |
| `trading` | 1, 2, 3 | `TypeOK`, `Solvent`, `StopBoundsTrading`, `IInv`, `DecisionHolds`, `NoResurrection`, `DailyCap`, `OversoldOnlyIfStale` | the core, with start, stop, partial and excessive sales, midnight and crash |
| `risk_settings` | 1, 1, 3 | `Solvent`, `AveragePaid`, `NoFreeMoney`, `DailyCap`, `LossCutSellsAll`, `KeepsPromise` | limits, loss cut and a rate of 0 saved at any moment, sales by hand of a part, and midnight |
| `concurrent_settings` | 1, 2, 1 | `SettingsSurvive`, `NoResurrection`, `KeepsPromise` | merges of settings and status by three sessions, and crash |
| `liveness` | 2, 2, 1 | `IInv`, `KeepsPromise`, `RequestsAnswered`, `PassesEnd` | a second turn long after the pass began and under the lock of the first; lock, event loop and busy timeout under fairness; crash |
| `accounts` | 2 users, 2 requests, 1 key | `UniqueLogins`, `NoSecondBot`, `TokensIdentify`, `KeysOwned`, `IInv`, `MismatchOnlyIfStale`, `KeepsRegistry` | registrations, keys and saves that overlap, roll back or crash |
| `event_loop` | 2, 2 | `NothingLeaks`, `IInv`, `NobodyIsStuck`, `StallIsForever`, `WorkShrinks`, `RequestsAnswered`, `PassesEnd` | one thread, two connections, SQLite and Oracle |
| `dashboard` | 2 users, 1 key | `IInv`, `EditsKept`, `OverwritesOnlyIfStale`, `FormConverges` | exchange, key, strategy and base price shown and one setting hidden; a timer's refresh and a save's own, keys created late, other clients |
| `oversell`, `order_limit`, `live_mode`, `daily_loss`, `oracle_stall` | 1-2, 1-2, 2-3 | one each | what the documentation says and the code does not do |

Only the runs of `EventLoop` turn the check for deadlocks off: a stalled service on
Oracle really does stop. One thread and two connections are the smallest pools in
which a thread can wait for a connection whose holder waits for a thread, and the
pass for both; larger ones only put off the same waits. One key is enough to be
found missing, of the other user or of the other exchange; two users are what a
race over one login or one id needs. In the page, the refresh of the timer and the
save's own are the two that can overtake each other. The user selects the key or
changes the exchange (`Edits`), and another client leaves the key beside the other
exchange and a base price beside the premium strategy (`OtherSaves`): every excuse
in `EditsKept` and `OverwritesOnlyIfStale` is one that TLC needs. The key is `u1`'s,
and `u1` alone saves (`Savers`), with the form as `u2` may have left it; so the
server's refusal of another user's key is in the model and in the proofs, but not
reached in this run.

Two requests suffice for the races here: each is between the pass and one
request or between two requests over one bot, and a third request can only wait
for the lock. Requests are interchangeable, so safety runs with two of them use
symmetry; runs with liveness properties do not.

The properties:

- `Solvent`: no account is overdrawn, although an order counts on KRW that was
  seen before an await.
- `AveragePaid`: the average buy price, which the base-price strategy sells
  against, stays between the lowest and the highest price USDT was offered at,
  through partial sales, stale ones, and buys on top of either.
- `DecisionHolds`: what the strategy decided on the portfolio of before the await
  is what it would decide, at its own quote and rate, on the one there is when the
  order is written, unless nothing is left of that: what was sold meanwhile leaves the average, and with it
  the trigger, as it was.
- `NoFreeMoney`: in a market that stands still an account is worth no more than
  what it began with and what was oversold from it. Without the second term it is
  false, as `oversell` shows: the sale of what is not held is paid.
- `StopBoundsTrading`: after a bot has left `RUNNING`, passes commit at most one
  more row for it. The bound is tight: one row does happen.
- `NoResurrection`: only a start that found the bot not running makes it `RUNNING`,
  however old what the others have read. A save, a sale or a pass that read it as
  `RUNNING` does not bring it back after another's stop.
- `SettingsSurvive`: only a save changes settings.
- `DailyCap`: a tick's own order stays within the day's limit. The loss cut is
  exempt, in the code and here.
- `OversoldOnlyIfStale`: only a reader that missed a sale oversells.
- `LossCutSellsAll`: a loss cut leaves no USDT, whatever was sold meanwhile.
- `KeepsPromise`: every commit is an operation of `Lifecycle`.
- `RequestsAnswered`, `PassesEnd`: no one waits for ever. In `EventLoop` they say
  the same for connections, threads and row locks, but for the stall on Oracle.
- `UniqueLogins`, `NoSecondBot`: a look and a later insert do not make two. For
  logins a constraint prevents it; for bots only that `register` commits the user
  together with the bot, so that `ensure_default_bot` never finds none.
- `TokensIdentify`: a token stands for the account it was given for, although it
  is made from an id that may still be rolled back and given to another.
- `KeysOwned`, `MismatchOnlyIfStale`: a bot's key is its user's; it is one of
  another exchange only after two overlapping saves, which merge column by column.
- `KeepsRegistry`: every commit is an operation of `Registry`.
- `NothingLeaks`: whatever times out, connections and locks are given back, and
  who holds a lock does not wait for a connection.
- `StallIsForever`: the stall on Oracle is stable, and every request that needs the
  event loop, to be accepted, sent to a thread or committed, stays where it is.
- `NobodyIsStuck`: while a pass runs or a request is unanswered and nothing is
  stalled, the pass or a request can take a step. It is stated with `PassMayStep`
  and `ReqMayStep`, which spell out the guards of the actions.
- `WorkShrinks`: between arrivals and new passes, every step lessens the steps that
  the pass or some request has left, and raises none.
- `EditsKept`: no refresh renders over an edit, unless it was typed while a save
  was under way, whose answer resets the flag, or it is a key that the list of an
  older refresh lacks.
- `OverwritesOnlyIfStale`: a save of an up-to-date page changes what was typed and
  resets the hidden settings. Beyond that it loses two things only: the bot's key,
  if the exchange was changed, if a list of keys lacked it, or if it never was a key
  of the bot's exchange; and the premium strategy, if it was beside a base price.
  What the form of an out-of-date page sends does overwrite what others saved:
  nothing detects it.
- `FormConverges`: when user, server and network are at rest, the form comes to show
  the server's settings, even if an old refresh was rendered last; the key only if
  it is of the bot's exchange, since the select offers no other.

### Fairness

`PassStart` is weakly fair: the scheduler fires again and again. The steps of a
pass are: an HTTP call ends in an answer or in its timeout of 5 s, and a busy
handler in the lock or in its timeout. The same holds for a request's flush and
for its commit. `ReqExit` is *strongly* fair: the event loop is not free while a
pass computes or is blocked, so the exit of a session is enabled again and again
and not continuously; the loop serves its ready queue in order, so it is not
passed over for ever. The mutants `ReqTimeout_Never` and `TickTimeout_Never`
show that the busy timeout is what the liveness rests on: without it the pass
waits for a lock whose holder waits for the pass.

In `EventLoop` the pass, connections and closings are weakly fair for the same
reasons: a wait for a connection ends in one or in the pool's timeout. What needs
the loop or a thread (`Dispatch`, `Leave`) or a row's lock (`Handle`) is strongly
fair: each is given to those who wait in the order they came, but is taken again
and again by others in between. `OracleStall` violates `AllPassesEnd` under all of
this.

In `Dashboard` the timer fires, and every call is answered or fails, all weakly
fair. A network that is down for good would keep the form old; that calls no longer
fail from some moment on is therefore a premise of `FormConverges`, and not assumed
of the page.

### What the documentation says and the code does not

| Run | Statement | What happens |
| --- | --- | --- |
| `oversell` | `README.md:150`: sales are of the USDT held | a tick sells what a manual sale sold while it awaited its quote |
| `order_limit` | `README.md:275`: `max_order_amount` is the maximum of one order | the day's rest replaces it (`bot_service.py:206`) |
| `live_mode` | `README.md:323`: `trade_mode=live` turns into `ERROR` | not for a bot that is running when the mode is saved |
| `daily_loss` | `README.md:143`: `daily_max_loss_rate` limits the day's loss | it limits the loss since the account was opened: a bot paused by it is paused again at its first tick after every start |
| `oracle_stall` | `README.md:168`, `README.md:19`: running bots are handled periodically, on Oracle too | the pass waits on the event loop for a row lock whose holder needs the event loop |

Met on the way, and not a run of its own: `README.md:172` says that a failure to
save turns a bot to `ERROR`, but after a failed flush the handler's own flush
fails too, the pass is rolled back and the bot stays `RUNNING` (`TickTimeout`); a
pass that loaded a bot as `RUNNING` may overwrite a stop of the meantime with
`PAUSED_BY_RISK` or `ERROR` (`TickAct`), which `Lifecycle` allows; and a logout
leaves form and flag, so that the next user's save can send what the last one typed
(`Logout`). In the form of the page, changing the exchange drops the key without a
word, and a list of keys that was asked for before a key was created drops it from
the select while the user is editing (`Type`, `Render`); the save then sends no
key. The server turns the strategy of whatever comes with a base price into
`base_price_gap` (`WithStrategy`), so a save of the untouched form of a bot that has
a base price beside the premium strategy changes its strategy, and so is a change to
the premium strategy undone by a base price that is still in the form.

## The proofs

TLAPS proves, for every set of bots and requests, all payloads, quotes, rates
and prices, every `InitialBalance` and every value of `MaxRows`:

| Theorem | States |
| --- | --- |
| `TypeCorrect` | `Spec => []TypeOK` |
| `AlwaysSolvent` | `Spec => []Solvent` |
| `StopIsBounded` | `Spec => []StopBoundsTrading` |
| `DailyCapHolds` | `Spec => DailyCap` |
| `NothingResurrects` | `Spec => NoResurrection` |
| `SettingsAreKept` | `Spec => SettingsSurvive` |
| `Invariance` (`LifecycleProofs`) | `Spec => []IInv` |
| `LossCutIsWhole` | `Spec => LossCutSellsAll` |
| `OversoldOnlyWhenStale` | `Spec => OversoldOnlyIfStale` |
| `AverageIsPaid` | `Spec => []AveragePaid` |
| `DecisionsHold` | `Spec => DecisionHolds` |
| `Refines` | `Spec => KeepsPromise` |
| `MoneyIsNotFree` | `Spec => []NoFreeMoney` |

and for every set of logins, exchanges and requests, of threads and connections,
of users, settings and refreshes:

| Theorem | States |
| --- | --- |
| `Invariance`, `LoginsAreUnique`, `OneBot`, `TokensAreTrue`, `KeysAreOwn`, `MismatchNeedsStale` | `Accounts`: `IInv`, `UniqueLogins`, `NoSecondBot`, `TokensIdentify`, `KeysOwned`, `MismatchOnlyIfStale` |
| `RegistryKept` | `Accounts`: `KeepsRegistry` |
| `Invariance`, `NothingIsLeaked`, `StallsLast`, `NoOtherStall`, `WorkEnds` | `EventLoop`: `IInv`, `NothingLeaks`, `StallIsForever`, `NobodyIsStuck`, `WorkShrinks` |
| `Invariance`, `EditsAreKept`, `OverwritesNeedStale` | `Dashboard`: `IInv`, `EditsKept`, `OverwritesOnlyIfStale` |

So every safety property of a passing run is a theorem as well, and `KeepsPromise` holds for two bots that sell, say, which no run combines.

The assumptions are those `BotService`, `PaperTrade` and `Strategy` name, which
TLC evaluates in every run. The ones that say something about the world are in
`SettingAssumption`, `QuoteAssumption` and `SaleAssumption`: a fee rate between 0
and 200 %, and quotes and sale prices that are positive. The settings request
itself checks no number, so with a negative fee rate, say, the theorems would
not apply. `EventLoopAssumption` asks for at least one thread and one connection and
for finitely many bots, which the measure of a pass's work counts.

`Solvent` is not inductive: it says nothing of what an order already sized will
do to an account. `IInv` adds, in layers that are proved one after the other,

1. `TypeOK` and `TurnInv`: a bot has its turn only while the pass has it loaded,
   and was loaded `RUNNING`;
2. `LockInv`: uncommitted writes exist only under the lock, and a request holds
   it exactly between its flush and its commit;
3. `SaleInv` and `KrwInv`: what requests write are sales, and a sale pays for
   its own fee; so a request only ever adds KRW, and the KRW the pass saw before
   the await is still there when its order is written. This is why a stale
   portfolio may oversell USDT but not overdraw KRW;
4. `LateInv`: a bot that is running, or loaded, or on which the open transaction
   has traded has no late row yet;
5. `MergeInv`: the open transaction changes a bot's settings only for a request
   that saves other ones, and makes it running only for a request that found it not
   running and starts it. A flush by columns is what this rests on: the pass's flush repeats neither
   the status nor the settings it loaded.

`DailyCap` follows from the invariant and from lemmas on orders (`BuyRow`,
`SellRow`): price times volume never exceeds the limit the order was given.
`NoResurrection` and `SettingsSurvive` follow from `MergeInv`, since a commit
publishes the open transaction and nothing else changes these columns.

The refinement needs more, in `LifecycleProofs`. `TableInv`: tables and shortfalls
only grow, and a request's transaction never adds USDT. `TraderInv`: what the pass
restored before its await is no less than what is held when it acts, and the same
if no row was added; hence a loss cut, sized from it, leaves nothing, and only a
stale tick oversells. `AverageInv`: it also has the average of what is held, unless
nothing is. `DecisionHolds` needs both: `decide` looks at whether USDT are held and
at their average, so with the same average a tick decides the same, and what it
then writes was sized from no less than is held (`DecideAgain`, `DecisionStep`);
for a buy, that nothing was held stays true, since requests only sell. `SellerInv` is the same for a request's sale. `ChangeInv`
says what the open transaction may have done to each bot so far, in the words of
`Lifecycle`: a commit, which publishes it, is then an operation of `Lifecycle`, and
every other step a stutter. `LateInv` gives the grace.

In `Accounts` the invariant adds that every user has a bot and references are
whole (`References`), that `pending` is exactly what the lock's holder writes on
what is committed and breaks no constraint (`TransactionInv`), and that a save has
its user's bot and, once it may write, a key that exists (`SaveInv`). The
refinement of `Registry` rests on that: a commit publishes the rows of one job,
`Registered`, `KeyAdded` or `Saved` of what is committed, and for each of the three
a lemma says what it does to the accounts, keys and logins the mapping sees; rows
that were there keep their ids, so that every token and key keeps its owner. For
`Tie` the proof also needs that the key a save has checked is still its user's and
of the exchange asked for, which holds because keys are never changed (`MeantInv`
in `AccountsProofs`, proved by induction on top of the rest).

`NoFreeMoney` is not proved from the invariant but from the promise: the worth of
an account at a flat price is a sum over what `Lifecycle` shows, a `Purchase` pays
at least the price for what it adds (`PurchaseWorth`), a `Sale` brings at most the
price for what it takes or leaves short (`SaleWorth`), and no other operation
touches an account. `Refines` carries that over to every interleaving of sessions,
so that no step of the service is looked at again.

`AveragePaid` is inductive once the invariant says that a pass buys at a price
asked and that requests only sell. `RecordAverage` in `PaperTradeProofs` does the
arithmetic: the truncated mean of the old average and the price, weighted by what
was held and what is bought, is within any bounds of the two, and a sale leaves
the average as it is or leaves nothing.

In `EventLoop` the invariant relates each place of a request or the pass to the
connection and the locks it has there. `NobodyIsStuck` follows by asking who waits
for whom: a request that waits for a connection or is being committed waits for
nobody in the model, since its wait has a timeout; one that waits for the loop is
kept waiting by the pass, and one that waits for a thread by requests in threads;
a request in a handler waits for a lock, whose holder is the pass or a request
that is done or being committed; the pass waits for connections, quotes and
SQLite's lock with timeouts, and for Oracle's rows without. Following the waits
from anybody ends at somebody who can step, or at the pass that waits for a row
whose holder waits for the loop, which is `Stalled`. `WorkShrinks` is proved case
by case from the measures, `PassWork` by what the set of bots still to handle
loses. Together they say what `RequestsAnswered` and `PassesEnd` need apart from
fairness.

In `Dashboard`, `EditInv` says that an edit is under the flag or was typed during a
save, and `KeyInv` that the key selected is one of the list and exchange shown;
`EditsKept` is these two and what a refresh renders. `FormInv` and `PutInv` say that
what was not typed is what the page takes for the server's, in the form and in the
save that was made from it, but for a key that could not stay selected (`Keeps`);
`ServerInv` says that a bot's key is its user's.
The lemma `RenderedKeys` says what rebuilding the select keeps of a form,
`Stored` what the server makes of a payload.

## What is only model-checked

`RequestsAnswered`, `PassesEnd` and `FormConverges`: liveness under fairness is out
of the prover's reach. So is ENABLED: that `PassMayStep` and `ReqMayStep`, with which
`NobodyIsStuck` is stated, are the guards of the actions is read off the actions.
What the folds of a book compute over a
whole table is an induction over data, which is not proved either; `ReplayBuy`,
`ReplaySell` and `Record` take one row at a time as the loop of
`_restore_from_trades` does.

## Not modelled

- The age of an FX rate. `fetched_at` is set when the answer has been read
  (`fx/api_provider.py:19`), a few statements before its age is computed, so the
  check against `fx_rate_max_stale_seconds` never fails; the provider's own time of
  update is not looked at. There is no behaviour to tell apart.
- Status and history read-outs, realised profit, snapshots: they change nothing that
  steers a tick. As requests that only read they take part in `EventLoop`.
- Live trading is a stub that nothing calls. Configuration, logging, password hashes,
  signatures and encryption have no state of their own.
- Exchange clients and FX providers beyond their outcome: they keep no state.
- Of the page: the buttons that send one command, the list of keys as text, what is
  only shown, and reloads.
- The data of concurrent transactions on Oracle: `BotService` is about SQLite's one
  writer, `EventLoop` about what is waited for on both.

A next step would be the replay against whole tables of bounded length, with the
order of the rows.
