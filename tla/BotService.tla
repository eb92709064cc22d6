------------------------------ MODULE BotService ------------------------------
(***************************************************************************)
(* The bot service: the asyncio pass over the running bots (tick_all), the *)
(* API requests that start, stop, configure and sell, each in a thread of  *)
(* its own, and the SQLite database through which alone they interact.     *)
(*                                                                         *)
(* One session serves a whole pass.  It loads the running bots when the    *)
(* pass starts and never refreshes them, reads a bot's settings and trades *)
(* at the bot's turn, BEFORE awaiting the quotes, and writes after.  A     *)
(* request's session reads, writes and is committed when the event loop    *)
(* finds time to close it.  Reads see what is committed; the first write   *)
(* of a session takes the database's one write lock until it commits or    *)
(* rolls back; a writer that waits longer than the busy timeout fails.     *)
(***************************************************************************)
EXTENDS PaperTrade

CONSTANTS
  Bots,             \* the trading bots, one per user
  Requests,         \* threads that serve API requests
  Payloads,         \* bodies of PUT /bot/settings
  DefaultSetting,   \* the settings ensure_default_bot gives a bot
  Tickers,          \* quotes: [trade, bid, ask]
  FxRates,          \* rates the exchange-rate API may answer
  SellPrices,       \* prices of POST /bot/manual-sell
  SellVolumes,      \* its volumes, None included
  Operations,       \* the API operations in use, a subset of AllOperations
  Faults,           \* the outside events in play, a subset of AllFaults
  MaxRows           \* bound: no trade is begun on a bot with that many rows

AllOperations == {"start", "stop", "settings", "sell"}
AllFaults == {"midnight", "crash"}

Statuses == {"STOPPED", "RUNNING", "PAUSED_BY_RISK", "ERROR"}

\* Columns of trading_bots, and of bot_settings, that steer a tick.
BotColumns == {"trade_mode", "strategy_type"}
SettingColumns ==
  {"buy_premium_threshold", "sell_premium_threshold", "base_price",
   "price_gap", "round_trip_fee_rate", "max_order_amount",
   "daily_max_trade_amount", "daily_max_loss_rate", "base_loss_cut_price",
   "fx_provider", "manual_usd_krw_rate"}
Columns == BotColumns \cup SettingColumns

\* PUT /bot/settings: a base price selects the base-price strategy.
Requested(p) ==
  IF p.base_price = None THEN p
  ELSE [p EXCEPT !.strategy_type = "base_price_gap"]

\* The request schema bounds no number: these bounds are on the instances.
ASSUME SettingAssumption ==
  Payloads \subseteq Settings /\ DefaultSetting \in Settings
ASSUME QuoteAssumption ==
  /\ Tickers \subseteq [trade : Nat \ {0}, bid : Nat \ {0}, ask : Nat \ {0}]
  /\ FxRates \subseteq Nat \ {0}
ASSUME SaleAssumption ==
  /\ SellPrices \subseteq Nat \ {0}
  /\ SellVolumes \subseteq (Nat \ {0}) \cup {None}
ASSUME ScopeAssumption ==
  /\ MaxRows \in Nat
  /\ Operations \subseteq AllOperations
  /\ Faults \subseteq AllFaults
ASSUME LockAssumption ==
  /\ Requests \cap {"free", "tick"} = {}
  /\ None \notin Bots

VARIABLES
  db,       \* what is committed: per bot its status, setting and book
  pending,  \* db with the writes of the open write transaction
  lock,     \* who holds the write lock: "free", "tick" or a request
  phase,    \* the pass: "idle", "scan", "await" (a quote), "blocked" (on lock)
  cur,      \* the bot whose turn it is, or None
  loaded,   \* status and setting of the bots the pass still has to handle
  trader,   \* the current bot's portfolio, restored before the await
  req,      \* per request, how far it is and what it writes
  late      \* ghost: rows passes committed on a bot since it left RUNNING

vars == <<db, pending, lock, phase, cur, loaded, trader, req, late>>

-------------------------------------------------------------------------------
(* The session: a unit of work that writes the columns it has changed.     *)

\* Mutants: the flush writes the whole trading_bots row, or all settings, as the
\* session has them.
Flush_WholeStatus(bot, old, new, row) ==
  [status  |-> new.status,
   setting |-> [c \in Columns |-> IF new.setting[c] = old.setting[c]
                                  THEN bot.setting[c] ELSE new.setting[c]],
   book    |-> Record(bot.book, row)]

Flush_WholeSetting(bot, old, new, row) ==
  [status  |-> IF new.status = old.status THEN bot.status ELSE new.status,
   setting |-> new.setting,
   book    |-> Record(bot.book, row)]

\* A flush: the columns that differ from what the session loaded, and the row
\* it added.  Other columns keep what the database has.
Flush(bot, old, new, row) ==
  [status  |-> IF new.status = old.status THEN bot.status ELSE new.status,
   setting |-> [c \in Columns |-> IF new.setting[c] = old.setting[c]
                                  THEN bot.setting[c] ELSE new.setting[c]],
   book    |-> Record(bot.book, row)]

Idle == [pc |-> "idle"]
View(bot) == [status |-> bot.status, setting |-> bot.setting]

Init ==
  /\ db = [b \in Bots |-> [status |-> "STOPPED", setting |-> DefaultSetting,
                           book |-> EmptyBook]]
  /\ pending = db
  /\ lock = "free"
  /\ phase = "idle"
  /\ cur = None
  /\ loaded = [b \in {} |-> View(db[b])]
  /\ trader = EmptyBook
  /\ req = [r \in Requests |-> Idle]
  /\ late = [b \in Bots |-> 0]

-------------------------------------------------------------------------------
(* The pass: one asyncio task, so that between two awaits it is not         *)
(* interleaved with other work of the event loop, only with other threads.  *)

\* The database as the session of the pass reads it: with its own writes.
PassView == IF lock = "tick" THEN pending ELSE db

\* Mutants: the filter on the status is missing, or only leaves out ERROR.
ToTick_All == Bots
ToTick_NotError == {b \in Bots : db[b].status # "ERROR"}

ToTick == {b \in Bots : db[b].status = "RUNNING"}

\* tick_all opens a session and loads the running bots.
PassStart ==
  /\ phase = "idle"
  /\ phase' = "scan"
  /\ loaded' = [b \in ToTick |-> View(db[b])]
  /\ UNCHANGED <<db, pending, lock, cur, trader, req, late>>

\* A bot's turn up to the first await: its settings row is read now, its
\* trading_bots row keeps the values loaded with the pass, and the portfolio is
\* restored from the trades there are now.
TickRead(b) ==
  /\ phase = "scan"
  /\ b \in DOMAIN loaded
  /\ cur' = b
  /\ loaded' = [loaded EXCEPT ![b].setting =
                  [c \in Columns |-> IF c \in BotColumns
                                     THEN loaded[b].setting[c]
                                     ELSE PassView[b].setting[c]]]
  /\ trader' = PassView[b].book
  /\ phase' = "await"
  /\ UNCHANGED <<db, pending, lock, req, late>>

\* The turn of cur is over and the pass goes on to the next bot.
TurnOver ==
  /\ phase' = "scan"
  /\ cur' = None
  /\ loaded' = [b \in DOMAIN loaded \ {cur} |-> loaded[b]]
  /\ trader' = EmptyBook

\* The handler's flush of bot and, if there is one, a trade row.
TickWrite(status, row) ==
  LET new == [loaded[cur] EXCEPT !.status = status]
  IN  /\ row.side = "NONE" \/ pending[cur].book.rows < MaxRows
      /\ pending' = [pending EXCEPT ![cur] = Flush(@, loaded[cur], new, row)]
      /\ lock' = "tick"
      /\ TurnOver

\* The quote or the rate could not be had: only last_error is written, and not
\* even that when its text is the same as before.
TickFail ==
  /\ \/ phase = "await" /\ UNCHANGED <<pending, lock>> /\ TurnOver
     \/ /\ phase \in {"await", "blocked"}
        /\ lock \in {"free", "tick"}
        /\ TickWrite(loaded[cur].status, NoTrade)
  /\ UNCHANGED <<db, req, late>>

Rates(s) == IF s.fx_provider = "api" THEN FxRates ELSE {s.manual_usd_krw_rate}

\* Mutant: today's amount is the one of when the portfolio was restored.
TodayAmount_BeforeAwait == trader.today

\* today_trade_amount is asked after the snapshot has been flushed, so that it
\* is read under the write lock.
TodayAmount == pending[cur].book.today

LossCut(s, mark_price) ==
  /\ s.base_loss_cut_price # None
  /\ trader.usdt > 0
  /\ mark_price <= s.base_loss_cut_price

LossLimit(s, mark_price) ==
  100 * (TotalAsset(trader, mark_price) - InitialBalance)
    <= s.daily_max_loss_rate * InitialBalance

DailyLimit(s) == TodayAmount >= s.daily_max_trade_amount

\* Mutant: what was traded today is not taken off.
RemainingAmount_Whole(s) == s.daily_max_trade_amount

\* The limit a tick gives its order: what the daily amount leaves.
RemainingAmount(s) == s.daily_max_trade_amount - TodayAmount

\* Mutant: the two sides of the quote are swapped.
OrderPrice_Swapped(signal, t) == IF signal = "BUY" THEN t.bid ELSE t.ask

\* A tick buys at the ask and sells at the bid.
OrderPrice(signal, t) == IF signal = "BUY" THEN t.ask ELSE t.bid

\* The rest of the turn, on quote t: the strategy decides, the risk controls
\* overrule it in their order, and the outcome is flushed.
TickOn(t, usd_krw_rate) ==
  LET s      == loaded[cur].setting
      signal == Decide(s, trader, t.trade, usd_krw_rate)
      cut    == LossCut(s, t.trade)
      paused == LossLimit(s, t.trade) \/ DailyLimit(s)
  IN  \/ signal = "RAISE" /\ TickWrite("ERROR", NoTrade)
      \/ /\ signal # "RAISE" /\ cut
         /\ TickWrite("PAUSED_BY_RISK", ManualSell(s, trader, t.bid, None))
      \/ /\ signal # "RAISE" /\ ~cut /\ paused
         /\ TickWrite("PAUSED_BY_RISK", NoTrade)
      \/ /\ signal # "RAISE" /\ ~cut /\ ~paused
         /\ TickWrite(loaded[cur].status,
                      Execute(s, trader, signal, OrderPrice(signal, t),
                              RemainingAmount(s)))

\* The quote and the rate are there.
TickAct ==
  /\ phase \in {"await", "blocked"}
  /\ lock \in {"free", "tick"}
  /\ \E t \in Tickers, usd_krw_rate \in Rates(loaded[cur].setting) :
       TickOn(t, usd_krw_rate)
  /\ UNCHANGED <<db, req, late>>

\* The flush finds the lock taken by a request: SQLite's busy handler sleeps,
\* on the event loop's own thread.
TickBlock ==
  /\ phase = "await"
  /\ lock \in Requests
  /\ phase' = "blocked"
  /\ UNCHANGED <<db, pending, lock, cur, loaded, trader, req, late>>

PassOver ==
  /\ phase' = "idle"
  /\ cur' = None
  /\ loaded' = [b \in {} |-> View(db[b])]
  /\ trader' = EmptyBook

\* Mutant: a writer waits for the lock for ever.
TickTimeout_Never == FALSE

\* The busy timeout: the flush fails and leaves the session unusable, so that
\* the handler for the failure fails too and the whole pass is rolled back.
TickTimeout ==
  /\ phase = "blocked"
  /\ lock \in Requests
  /\ PassOver
  /\ UNCHANGED <<db, pending, lock, req, late>>

LateRows(b) ==
  IF db'[b].status = "RUNNING" THEN 0
  ELSE IF /\ db[b].status # "RUNNING"
          /\ pending[b].book.rows > db[b].book.rows
       THEN late[b] + 1 ELSE late[b]

\* All bots have had their turn: the session is committed.
PassEnd ==
  /\ phase = "scan"
  /\ DOMAIN loaded = {}
  /\ db' = PassView
  /\ lock' = IF lock = "tick" THEN "free" ELSE lock
  /\ late' = [b \in Bots |-> IF lock = "tick" THEN LateRows(b) ELSE late[b]]
  /\ PassOver
  /\ UNCHANGED <<pending, req>>

-------------------------------------------------------------------------------
(* API requests.  A handler reads the committed bot, decides what to write, *)
(* and writes it.  A request that has nothing to write (a status query, a   *)
(* refused sale, a stop of a stopped bot) changes no state at all.  A start *)
(* or a save that changes no column of this model may still write one that  *)
(* is left out, such as last_error, and takes the lock for it.              *)

\* The handler has read bot b and wants to leave it as new, with row added.
ReqRead(r, b, new, row) ==
  /\ req[r].pc = "idle"
  /\ req' = [req EXCEPT ![r] = [pc |-> "read", bot |-> b, old |-> View(db[b]),
                                new |-> new, row |-> row,
                                rows |-> db[b].book.rows]]
  /\ UNCHANGED <<db, pending, lock, phase, cur, loaded, trader, late>>

Start(r, b) ==
  /\ "start" \in Operations
  /\ ReqRead(r, b,
             [View(db[b]) EXCEPT !.status =
                IF db[b].setting.trade_mode = "live" THEN "ERROR" ELSE "RUNNING"],
             NoTrade)

Stop(r, b) ==
  /\ "stop" \in Operations
  /\ db[b].status # "STOPPED"
  /\ ReqRead(r, b, [View(db[b]) EXCEPT !.status = "STOPPED"], NoTrade)

UpdateSettings(r, b) ==
  /\ "settings" \in Operations
  /\ \E p \in Payloads :
       ReqRead(r, b, [View(db[b]) EXCEPT !.setting = Requested(p)], NoTrade)

\* Refused in live mode and without a balance to sell.
SellNow(r, b) ==
  /\ "sell" \in Operations
  /\ db[b].book.rows < MaxRows
  /\ db[b].setting.trade_mode # "live"
  /\ db[b].book.usdt > 0
  /\ \E price \in SellPrices, volume \in SellVolumes :
       ReqRead(r, b, View(db[b]),
               ManualSell(db[b].setting, db[b].book, price, volume))

\* Mutant: the database lets a second writer in.
ReqWrite_NoLock(r) ==
  /\ req[r].pc = "read"
  /\ lock' = r
  /\ pending' = [pending EXCEPT ![req[r].bot] =
                   Flush(@, req[r].old, req[r].new, req[r].row)]
  /\ req' = [req EXCEPT ![r].pc = "flushed"]
  /\ UNCHANGED <<db, phase, cur, loaded, trader, late>>

\* The handler's flush; it takes the write lock.
ReqWrite(r) ==
  /\ req[r].pc = "read"
  /\ lock = "free"
  /\ lock' = r
  /\ pending' = [pending EXCEPT ![req[r].bot] =
                   Flush(@, req[r].old, req[r].new, req[r].row)]
  /\ req' = [req EXCEPT ![r].pc = "flushed"]
  /\ UNCHANGED <<db, phase, cur, loaded, trader, late>>

\* Mutant: a request waits for the lock for ever.
ReqTimeout_Never(r) == FALSE

\* The busy timeout: the flush fails, the request is answered with an error.
ReqTimeout(r) ==
  /\ req[r].pc = "read"
  /\ lock # "free"
  /\ req' = [req EXCEPT ![r] = Idle]
  /\ UNCHANGED <<db, pending, lock, phase, cur, loaded, trader, late>>

\* The handler has returned; the event loop, when it is not busy with the pass,
\* sends the closing of the session to a thread.
ReqExit(r) ==
  /\ req[r].pc = "flushed"
  /\ phase \in {"idle", "await"}
  /\ req' = [req EXCEPT ![r].pc = "exiting"]
  /\ UNCHANGED <<db, pending, lock, phase, cur, loaded, trader, late>>

\* That thread commits.
ReqCommit(r) ==
  /\ req[r].pc = "exiting"
  /\ db' = pending
  /\ lock' = "free"
  /\ req' = [req EXCEPT ![r] = Idle]
  /\ late' = [b \in Bots |-> IF pending[b].status = "RUNNING" THEN 0 ELSE late[b]]
  /\ UNCHANGED <<pending, phase, cur, loaded, trader>>

-------------------------------------------------------------------------------
(* Outside events.                                                          *)

\* Midnight in Seoul: no trade so far is of today any more.
NextDay ==
  /\ "midnight" \in Faults
  /\ db' = [b \in Bots |-> [db[b] EXCEPT !.book.today = 0]]
  /\ pending' = [b \in Bots |-> [pending[b] EXCEPT !.book.today = 0]]
  /\ UNCHANGED <<lock, phase, cur, loaded, trader, req, late>>

\* The process dies and is started again: open transactions are rolled back.
Crash ==
  /\ "crash" \in Faults
  /\ pending' = db
  /\ lock' = "free"
  /\ PassOver
  /\ req' = [r \in Requests |-> Idle]
  /\ UNCHANGED <<db, late>>

-------------------------------------------------------------------------------
TickStep ==
  \/ \E b \in Bots : TickRead(b)
  \/ TickFail
  \/ TickAct
  \/ TickBlock
  \/ TickTimeout
  \/ PassEnd

ReqArrive(r, b) ==
  Start(r, b) \/ Stop(r, b) \/ UpdateSettings(r, b) \/ SellNow(r, b)

ReqStep(r) ==
  ReqWrite(r) \/ ReqTimeout(r) \/ ReqExit(r) \/ ReqCommit(r)

Next ==
  \/ PassStart
  \/ TickStep
  \/ \E r \in Requests, b \in Bots : ReqArrive(r, b)
  \/ \E r \in Requests : ReqStep(r)
  \/ NextDay
  \/ Crash

Spec == Init /\ [][Next]_vars

\* The scheduler's job runs again and again, quotes come or time out, threads
\* run, a busy wait ends, and the event loop serves its ready callbacks in
\* order, so that one that can run again and again does.
Fairness ==
  /\ WF_vars(PassStart)
  /\ WF_vars(TickStep)
  /\ \A r \in Requests : /\ WF_vars(ReqWrite(r) \/ ReqTimeout(r))
                         /\ SF_vars(ReqExit(r))
                         /\ WF_vars(ReqCommit(r))

FairSpec == Spec /\ Fairness

-------------------------------------------------------------------------------
(* Types.                                                                   *)

Views == [status : Statuses, setting : Settings]

BotRows == [status : Statuses, setting : Settings, book : Books]

Jobs == [pc : {"read", "flushed", "exiting"}, bot : Bots, old : Views,
         new : Views, row : SaleRows, rows : Nat]

\* The variables hold what their comments say: statuses are the four of
\* BotStatus, settings have every column, balances are never negative volumes.
TypeOK ==
  /\ db \in [Bots -> BotRows]
  /\ pending \in [Bots -> BotRows]
  /\ lock \in {"free", "tick"} \cup Requests
  /\ phase \in {"idle", "scan", "await", "blocked"}
  /\ cur \in Bots \cup {None}
  /\ DOMAIN loaded \subseteq Bots /\ loaded \in [DOMAIN loaded -> Views]
  /\ trader \in Books
  /\ req \in [Requests -> Jobs \cup {Idle}]
  /\ late \in [Bots -> Nat]

-------------------------------------------------------------------------------
(* Safety.                                                                  *)

\* A paper account is never overdrawn.  Orders are sized against a portfolio
\* restored before the quotes were awaited; this says that what happened since
\* cannot have used the KRW the order counts on (PaperTradeService._buy).
Solvent ==
  \A b \in Bots : db[b].book.krw >= 0 /\ pending[b].book.krw >= 0

\* The average is within the prices USDT was offered at.
Priced(book) ==
  book.usdt > 0 => \E low, high \in Tickers : /\ low.ask <= book.avg
                                             /\ book.avg <= high.ask

\* The average buy price of the USDT held, which the base-price strategy sells
\* against, stays between the lowest and the highest price USDT was offered at:
\* partial sales, sales of more than is held, and buys on top of what they leave
\* do not move it out of there (_restore_from_trades, where a truncated quotient
\* stands for the float).
AveragePaid ==
  \A b \in Bots : Priced(db[b].book) /\ Priced(pending[b].book)

\* Nobody sells above p, and no USDT are to be had below it.
Flat(p) ==
  /\ \A t \in Tickers : t.bid <= p /\ p <= t.ask
  /\ \A price \in SellPrices : price <= p

\* Trading makes no money while prices do not move: in a market that is flat at p
\* an account is worth no more than what it began with and what was sold from it
\* without being held.  No stale read, rolled-back pass or overlap of a sale with
\* a tick leaves both the KRW and the USDT of a trade (_buy, _sell_volume,
\* _restore_from_trades).
NoFreeMoney ==
  \A b \in Bots, p \in SellPrices \cup {t.ask : t \in Tickers} :
    Flat(p) => db[b].book.krw + p * db[b].book.usdt
                 <= InitialBalance + p * db[b].book.short

\* A bot that was stopped, paused or put into ERROR gets at most one more row
\* from the passes until it is started again: a pass that had loaded it as
\* running may still trade, the next one leaves it alone (tick_all).
StopBoundsTrading == \A b \in Bots : late[b] <= 1

\* Only a start request of a bot it found not RUNNING makes a bot RUNNING: no pass,
\* save, sale or stop that read the bot as RUNNING puts it back to work after
\* another's stop or pause, and no start that found nothing to start
\* (BotManager.start).
NoResurrection ==
  [][\A b \in Bots :
       (db[b].status # "RUNNING" /\ db'[b].status = "RUNNING")
         => \E r \in Requests : /\ req[r].pc = "exiting"
                                /\ req[r].bot = b
                                /\ req[r].old.status # "RUNNING"
                                /\ req[r].new.status = "RUNNING"]_vars

\* A setting a user saved stays until a user saves another one: no pass, start,
\* stop or sale writes back the settings it read earlier (update_settings).
SettingsSurvive ==
  [][\A b \in Bots :
       db'[b].setting # db[b].setting
         => \E r \in Requests : /\ req[r].pc = "exiting"
                                /\ req[r].bot = b
                                /\ req[r].new.setting # req[r].old.setting]_vars

\* A tick's own order never takes the day's amount over the limit it read with
\* the settings, whatever was sold by hand while it awaited the quotes; only the
\* loss-cut sale, which pauses the bot, may (_run_tick, today_trade_amount).
DailyCap ==
  [][\A b \in Bots :
       (/\ phase # "idle" /\ cur = b
        /\ pending'[b].book.rows > pending[b].book.rows
        /\ lock' = "tick"
        /\ pending'[b].status # "PAUSED_BY_RISK")
         => pending'[b].book.today <= loaded[b].setting.daily_max_trade_amount]_vars

\* The writer of a step that sells more than is held has read the trades before
\* another sale was written: one that read the current trades never oversells.
OversoldOnlyIfStale ==
  [][\A b \in Bots :
       pending'[b].book.short > pending[b].book.short
         => \/ /\ lock' = "tick" /\ cur = b
               /\ trader.rows < pending[b].book.rows
            \/ \E r \in Requests : /\ lock' = r /\ req[r].bot = b
                                   /\ req[r].rows < pending[b].book.rows]_vars

\* A loss cut sells everything: after its sale the bot is paused and holds no
\* USDT, even if part of it was sold by hand meanwhile (_apply_risk_controls).
LossCutSellsAll ==
  [][\A b \in Bots :
       (/\ cur = b /\ lock' = "tick"
        /\ pending'[b].status = "PAUSED_BY_RISK"
        /\ pending'[b].book.rows > pending[b].book.rows)
         => pending'[b].book.usdt = 0]_vars

\* What a tick decided on the portfolio restored before the await, it would decide
\* at its own quote and rate on the one there is when its order is written, unless
\* all of that was sold meanwhile: no bot buys on top of a position the base-price
\* strategy took to be empty, none sells below the trigger of what it really holds
\* (_run_tick, _decide).  The loss cut is not the strategy's decision.
DecisionHolds ==
  [][(phase \in {"await", "blocked"}) =>
       LET s     == loaded[cur].setting
           book  == pending[cur].book
           after == pending'[cur].book
       IN  \A t \in Tickers, usd_krw_rate \in Rates(s) :
             (/\ TickOn(t, usd_krw_rate)
              /\ ~LossCut(s, t.trade)
              /\ after.rows > book.rows)
               => LET signal == Decide(s, book, t.trade, usd_krw_rate)
                  IN  \/ signal = "BUY" /\ after.usdt > book.usdt
                      \/ signal = "SELL" /\ after.usdt < book.usdt
                      \/ book.usdt = 0 /\ after.usdt = 0]_vars

-------------------------------------------------------------------------------
(* The promise to the users, kept by what is committed.                     *)

Account(bot) ==
  [krw  |-> bot.book.krw,  usdt  |-> bot.book.usdt,
   rows |-> bot.book.rows, short |-> bot.book.short]

Promise == INSTANCE Lifecycle WITH
             SavedSettings <- {Requested(p) : p \in Payloads},
             Asks    <- {t.ask : t \in Tickers},
             Bids    <- {t.bid : t \in Tickers},
             status  <- [b \in Bots |-> db[b].status],
             setting <- [b \in Bots |-> db[b].setting],
             account <- [b \in Bots |-> Account(db[b])],
             grace   <- {b \in Bots : late[b] = 0}

\* For the users the service is the atomic one of Lifecycle: every commit is one
\* operation of one user or one whole pass, whatever the sessions read before
\* and whatever else was committed meanwhile (tick_all, get_db, flushes).
KeepsPromise == Promise!Spec

-------------------------------------------------------------------------------
(* Why the safety properties hold: their inductive strengthening.           *)

\* Uncommitted writes exist only while someone holds the lock, and the holder
\* is at a point where the code has a transaction open.
LockInv ==
  /\ lock = "free" => pending = db
  /\ lock = "tick" => phase # "idle"
  /\ \A r \in Requests : lock = r <=> req[r].pc \in {"flushed", "exiting"}

\* A bot has its turn only while the pass has it loaded, as running.
TurnInv ==
  /\ phase \in {"await", "blocked"} => cur \in DOMAIN loaded
  /\ \A b \in DOMAIN loaded : loaded[b].status = "RUNNING"

\* Requests only ever add sales, and a sale pays for its fee.
SaleInv ==
  \A r \in Requests :
    req[r].pc = "read" => req[r].row.fee <= req[r].row.price * req[r].row.volume

\* So a request's commit only adds KRW, and the KRW the current bot had when its
\* portfolio was restored is still there when its order is sized.
KrwInv ==
  /\ lock \in Requests => \A b \in Bots : db[b].book.krw <= pending[b].book.krw
  /\ phase \in {"await", "blocked"} => trader.krw <= PassView[cur].book.krw

\* A bot that is RUNNING, or that the pass still has to handle, or on which the
\* pass has traded, has no late row yet.
LateInv ==
  \A b \in Bots :
    \/ late[b] = 0
    \/ /\ late[b] = 1
       /\ db[b].status # "RUNNING"
       /\ b \notin DOMAIN loaded
       /\ lock = "tick" => pending[b].book.rows = db[b].book.rows

\* The open transaction changes settings only for a request that saves some, and
\* makes a bot running only for a request that found it not running and starts it.
MergeInv ==
  \A b \in Bots :
    /\ pending[b].setting # db[b].setting
         => \E r \in Requests : /\ lock = r /\ req[r].bot = b
                                /\ req[r].new.setting # req[r].old.setting
    /\ pending[b].status = "RUNNING" /\ db[b].status # "RUNNING"
         => \E r \in Requests : /\ lock = r /\ req[r].bot = b
                                /\ req[r].old.status # "RUNNING"
                                /\ req[r].new.status = "RUNNING"

\* The part that types, money, late rows and merges need.
CoreInv == /\ TypeOK
           /\ Solvent
           /\ LockInv
           /\ TurnInv
           /\ SaleInv
           /\ KrwInv
           /\ LateInv
           /\ MergeInv

\* Tables only grow, their shortfall too; a table that has not grown has the
\* balance it had; requests only ever sell.
TableInv ==
  \A b \in Bots :
    /\ db[b].book.rows <= pending[b].book.rows
    /\ db[b].book.short <= pending[b].book.short
    /\ pending[b].book.rows = db[b].book.rows
         => pending[b].book.usdt = db[b].book.usdt
    /\ lock \in Requests => pending[b].book.usdt <= db[b].book.usdt

\* What the pass restored before its await is no less than what is held when it
\* acts, and the same if no row was added.
TraderInv ==
  phase \in {"await", "blocked"} =>
    /\ trader.rows <= PassView[cur].book.rows
    /\ trader.rows = PassView[cur].book.rows
         => trader.usdt = PassView[cur].book.usdt
    /\ PassView[cur].book.usdt <= trader.usdt

\* A sale leaves the average of what it does not sell: what the pass restored
\* before its await is still the average of what is held, if anything is.
AverageInv ==
  /\ lock \in Requests => \A b \in Bots :
       pending[b].book.usdt = 0 \/ pending[b].book.avg = db[b].book.avg
  /\ phase \in {"await", "blocked"} =>
       PassView[cur].book.usdt = 0 \/ trader.avg = PassView[cur].book.avg

\* A request that has read all the rows there are sells what there is.
SellerInv ==
  \A r \in Requests : req[r].pc = "read" =>
    /\ req[r].rows <= db[req[r].bot].book.rows
    /\ (req[r].rows = db[req[r].bot].book.rows /\ req[r].row.side = "SELL")
         => req[r].row.volume <= db[req[r].bot].book.usdt

\* A request wants one thing: a status, or settings some user asks for, or a
\* sale at a price some user asks for.
JobInv ==
  \A r \in Requests : req[r].pc # "idle" =>
    \/ /\ req[r].new.setting = req[r].old.setting
       /\ req[r].new.status \in {"RUNNING", "ERROR", "STOPPED"}
       /\ req[r].row.side = "NONE"
    \/ /\ \E p \in Payloads : req[r].new.setting = Requested(p)
       /\ req[r].new.status = req[r].old.status
       /\ req[r].row.side = "NONE"
    \/ /\ req[r].new = req[r].old
       /\ req[r].row.side = "SELL" => req[r].row.price \in SellPrices

\* What the transaction of a pass does to a bot, and that of a request.
PassChange(old, new) ==
  /\ new.setting = old.setting
  /\ new.status \in {old.status, "PAUSED_BY_RISK", "ERROR"}
  /\ \/ Account(new) = Account(old)
     \/ /\ \/ Promise!Purchase(Account(old), Account(new))
           \/ Promise!Sale(Account(old), Account(new), {t.bid : t \in Tickers})
        /\ new.status = "PAUSED_BY_RISK" => new.book.usdt = 0

RequestChange(old, new) ==
  \/ /\ new.setting = old.setting
     /\ new.status \in {old.status, "RUNNING", "ERROR", "STOPPED"}
     /\ Account(new) = Account(old)
  \/ /\ \E p \in Payloads :
          Promise!Merged(old.setting, new.setting, Requested(p))
     /\ new.status = old.status
     /\ Account(new) = Account(old)
  \/ /\ new.setting = old.setting
     /\ new.status = old.status
     /\ Promise!Sale(Account(old), Account(new), SellPrices)

\* The open transaction is one that the promise allows.  The bots a pass still
\* has to handle are as committed, and none of them was paused by a pass.
ChangeInv ==
  /\ JobInv
  /\ lock = "tick" => \A b \in Bots : PassChange(db[b], pending[b])
  /\ \A r \in Requests : lock = r => \A b \in Bots :
       IF b = req[r].bot THEN RequestChange(db[b], pending[b])
                         ELSE pending[b] = db[b]
  /\ \A b \in DOMAIN loaded : /\ lock = "tick" => pending[b] = db[b]
                              /\ db[b].status # "PAUSED_BY_RISK"

IInv ==
  CoreInv /\ TableInv /\ TraderInv /\ AverageInv /\ SellerInv /\ ChangeInv

-------------------------------------------------------------------------------
(* Liveness.                                                                *)

\* Every request is answered, even one that waits for the lock a pass holds
\* over its awaits, or whose commit waits for the event loop.
RequestsAnswered == \A r \in Requests : req[r].pc # "idle" ~> req[r].pc = "idle"

\* Every pass ends, even one whose flush blocks the event loop on a lock held
\* by a request that needs the event loop to commit.
PassesEnd == phase # "idle" ~> phase = "idle"

-------------------------------------------------------------------------------
(* What the documentation says and the code does not do.                    *)

\* "later sales are of the USDT actually held" (README.md:150).
NoShortSale == \A b \in Bots : db[b].book.short = 0

\* max_order_amount is "the maximum amount of one order" (README.md:275).
OrderWithinMax ==
  [][\A b \in Bots :
       (/\ cur = b /\ lock' = "tick"
        /\ pending'[b].status # "PAUSED_BY_RISK")
         => pending'[b].book.today - pending[b].book.today
              <= loaded[b].setting.max_order_amount]_vars

\* In trade_mode live the bot goes to ERROR and no order is made (README.md:175).
NoLiveTrade == \A b \in Bots : db[b].book.live = 0

\* daily_max_loss_rate limits the loss "of the day" (README.md:143): an account
\* that holds no USDT and has not traded today has lost nothing today.
DailyLossOnly ==
  [][\A b \in Bots :
       (/\ cur = b /\ lock' = "tick"
        /\ pending[b].status = "RUNNING" /\ pending'[b].status = "PAUSED_BY_RISK"
        /\ trader.usdt = 0 /\ trader.today = 0
        /\ trader.rows = pending[b].book.rows
        /\ loaded[b].setting.daily_max_loss_rate < 0)
         => DailyLimit(loaded[b].setting)]_vars
===============================================================================
