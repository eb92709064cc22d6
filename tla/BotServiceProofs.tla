--------------------------- MODULE BotServiceProofs ---------------------------
(***************************************************************************)
(* Theorems about BotService, for every set of bots, requests, payloads,   *)
(* quotes and prices, and for every value of the bound MaxRows.            *)
(*                                                                         *)
(* The core of the inductive invariant is proved in layers, each of which uses    *)
(* the ones before it: types, the lock, money, late rows, merges.          *)
(***************************************************************************)
EXTENDS BotService, PaperTradeProofs

LEMMA EmptyBookType == EmptyBook \in Books
  BY BalanceAssumption DEF EmptyBook, Books

LEMMA ColumnNames ==
  Columns = {"trade_mode", "strategy_type", "buy_premium_threshold",
             "sell_premium_threshold", "base_price", "price_gap",
             "round_trip_fee_rate", "max_order_amount",
             "daily_max_trade_amount", "daily_max_loss_rate",
             "base_loss_cut_price", "fx_provider", "manual_usd_krw_rate"}
<1> DEFINE D == {"trade_mode", "strategy_type", "buy_premium_threshold",
                 "sell_premium_threshold", "base_price", "price_gap",
                 "round_trip_fee_rate", "max_order_amount",
                 "daily_max_trade_amount", "daily_max_loss_rate",
                 "base_loss_cut_price", "fx_provider", "manual_usd_krw_rate"}
<1>1. \A c : c \in Columns <=> c \in BotColumns \/ c \in SettingColumns
  BY DEF Columns
<1>2. \A c : c \in D <=> c \in BotColumns \/ c \in SettingColumns
  BY DEF BotColumns, SettingColumns
<1> HIDE DEF D
<1>3. Columns \subseteq D /\ D \subseteq Columns
  BY ONLY <1>1, <1>2
<1>4. Columns = D
  BY <1>3
<1> QED
  BY <1>4 DEF D

\* Settings put together column by column from settings are settings.
LEMMA ColumnwiseType ==
  ASSUME NEW s \in Settings, NEW t \in Settings, NEW f,
         f = [c \in Columns |-> f[c]],
         \A c \in Columns : f[c] \in {s[c], t[c]}
  PROVE  f \in Settings
<1> DEFINE D == {"trade_mode", "strategy_type", "buy_premium_threshold",
                 "sell_premium_threshold", "base_price", "price_gap",
                 "round_trip_fee_rate", "max_order_amount",
                 "daily_max_trade_amount", "daily_max_loss_rate",
                 "base_loss_cut_price", "fx_provider", "manual_usd_krw_rate"}
<1>1. f = [c \in D |-> f[c]] /\ \A c \in D : f[c] = s[c] \/ f[c] = t[c]
  BY ColumnNames
<1>2. /\ f["trade_mode"] \in {"paper", "live"}
      /\ f["strategy_type"] \in {"premium_rebalance", "base_price_gap"}
      /\ f["fx_provider"] \in {"manual", "api"}
  BY ONLY <1>1, s \in Settings, t \in Settings DEF Settings
<1>3. /\ f["buy_premium_threshold"] \in Int /\ f["sell_premium_threshold"] \in Int
      /\ f["base_price"] \in Int \cup {None} /\ f["price_gap"] \in Int
  BY ONLY <1>1, s \in Settings, t \in Settings DEF Settings
<1>4. /\ f["round_trip_fee_rate"] \in 0..200 /\ f["max_order_amount"] \in Int
      /\ f["daily_max_trade_amount"] \in Int /\ f["daily_max_loss_rate"] \in Int
  BY ONLY <1>1, s \in Settings, t \in Settings DEF Settings
<1>5. /\ f["base_loss_cut_price"] \in Int \cup {None}
      /\ f["manual_usd_krw_rate"] \in Nat
  BY ONLY <1>1, s \in Settings, t \in Settings DEF Settings
<1>6. f = [c \in D |-> f[c]]
  BY <1>1
<1> QED
  BY ONLY <1>2, <1>3, <1>4, <1>5, <1>6 DEF Settings

LEMMA MergeType ==
  ASSUME NEW s \in Settings, NEW t \in Settings, NEW C
  PROVE  [c \in Columns |-> IF c \in C THEN s[c] ELSE t[c]] \in Settings
<1> DEFINE f == [c \in Columns |-> IF c \in C THEN s[c] ELSE t[c]]
<1>1. f = [c \in Columns |-> f[c]] /\ \A c \in Columns : f[c] \in {s[c], t[c]}
  OBVIOUS
<1> HIDE DEF f
<1>2. f \in Settings
  BY <1>1, ColumnwiseType
<1> QED
  BY <1>2 DEF f

LEMMA FlushType ==
  ASSUME NEW bot \in BotRows, NEW old \in Views, NEW new \in Views,
         NEW row \in TradeRows, row.side = "BUY" => row.volume > 0
  PROVE  Flush(bot, old, new, row) \in BotRows
<1> DEFINE setting == [c \in Columns |-> IF new.setting[c] = old.setting[c]
                                         THEN bot.setting[c] ELSE new.setting[c]]
<1>1. /\ bot.setting \in Settings /\ bot.status \in Statuses /\ bot.book \in Books
      /\ new.setting \in Settings /\ new.status \in Statuses
  BY DEF BotRows, Views
<1>2. /\ setting = [c \in Columns |-> setting[c]]
      /\ \A c \in Columns : setting[c] \in {bot.setting[c], new.setting[c]}
  OBVIOUS
<1> HIDE DEF setting
<1>3. setting \in Settings /\ Record(bot.book, row) \in Books
  BY <1>1, <1>2, ColumnwiseType, RecordType
<1>4. [status  |-> IF new.status = old.status THEN bot.status ELSE new.status,
       setting |-> setting,
       book    |-> Record(bot.book, row)] \in BotRows
  BY <1>1, <1>2, <1>3 DEF BotRows
<1> QED
  BY <1>4 DEF Flush, setting

LEMMA RequestedType ==
  ASSUME NEW p \in Payloads
  PROVE  Requested(p) \in Settings
  BY SettingAssumption DEF Requested, Settings

LEMMA ViewType ==
  ASSUME NEW bot \in BotRows
  PROVE  View(bot) \in Views
  BY DEF View, Views, BotRows

LEMMA QuoteType ==
  ASSUME NEW t \in Tickers
  PROVE  t.trade \in Nat \ {0} /\ t.bid \in Nat \ {0} /\ t.ask \in Nat \ {0}
  BY QuoteAssumption

-------------------------------------------------------------------------------
(* The first layer: types.  A step of the pass is well typed only because   *)
(* the bot whose turn it is is one that the pass has loaded.                *)

TypeInv == TypeOK /\ TurnInv

LEMMA TypeInit == Init => TypeInv
<1> SUFFICES ASSUME Init PROVE TypeInv
  OBVIOUS
<1> USE DEF Init
<1>1. db \in [Bots -> BotRows]
  BY EmptyBookType, SettingAssumption DEF BotRows, Statuses
<1>2. loaded \in [{} -> Views] /\ DOMAIN loaded = {}
  OBVIOUS
<1> QED
  BY <1>1, <1>2, EmptyBookType DEF TypeInv, TypeOK, TurnInv

\* The row a tick writes, whichever way its turn ends: it buys at the ask and
\* sells at the bid.
TickRow(row) ==
  /\ row \in TradeRows
  /\ row.side = "BUY" => /\ Affordable(row, trader)
                         /\ \E t \in Tickers : row.price = t.ask
  /\ row.side # "BUY" => SalePays(row)
  /\ row.side = "SELL" => /\ row.volume <= trader.usdt
                          /\ \E t \in Tickers : row.price = t.bid

\* The status that goes with it: a sale that pauses the bot is of everything.
TickOutcome(status, row) ==
  /\ status = loaded[cur].status \/ status \in {"ERROR", "PAUSED_BY_RISK"}
  /\ \/ row.side = "NONE"
     \/ status = loaded[cur].status
     \/ /\ status = "PAUSED_BY_RISK"
        /\ row.side = "SELL" /\ row.volume = trader.usdt

\* Every way a tick can write: what it writes, and to which status.
LEMMA TickWrites ==
  ASSUME TypeInv, TickFail \/ TickAct
  PROVE  \/ UNCHANGED <<pending, lock>> /\ TurnOver
         \/ /\ lock \in {"free", "tick"}
            /\ \E status \in Statuses, row \in TradeRows :
                 /\ TickRow(row)
                 /\ TickOutcome(status, row)
                 /\ TickWrite(status, row)
<1>1. CASE TickFail
  <2>1. /\ NoTrade \in TradeRows /\ TickRow(NoTrade)
        /\ TickOutcome(loaded[cur].status, NoTrade)
    BY DEF TickRow, TickOutcome, NoTrade, TradeRows, SalePays
  <2>2. CASE phase = "await" /\ UNCHANGED <<pending, lock>> /\ TurnOver
    BY <2>2
  <2>3. CASE /\ phase \in {"await", "blocked"}
             /\ lock \in {"free", "tick"}
             /\ TickWrite(loaded[cur].status, NoTrade)
    <3>1. loaded[cur].status \in Statuses
      BY <2>3 DEF TypeInv, TypeOK, TurnInv, Views
    <3> QED
      BY <2>1, <2>3, <3>1
  <2> QED
    BY <1>1, <2>2, <2>3 DEF TickFail
<1>2. CASE TickAct
  <2> DEFINE s == loaded[cur].setting
             Outcome(t, fx) == Execute(s, trader, Decide(s, trader, t.trade, fx),
                 OrderPrice(Decide(s, trader, t.trade, fx), t),
                 RemainingAmount(s))
  <2>1. /\ phase \in {"await", "blocked"}
        /\ lock \in {"free", "tick"}
    BY <1>2 DEF TickAct, TickOn
  <2>2. /\ s \in Settings /\ loaded[cur].status \in Statuses
        /\ trader \in Books /\ cur \in Bots
    BY <2>1 DEF TypeInv, TypeOK, TurnInv, Views
  <2>3. RemainingAmount(s) \in Int
    BY <2>2 DEF TypeInv, TypeOK, BotRows, Books, Settings, RemainingAmount, TodayAmount
  <2>4. /\ NoTrade \in TradeRows /\ TickRow(NoTrade)
        /\ \A status \in {"ERROR", "PAUSED_BY_RISK"} : TickOutcome(status, NoTrade)
    BY DEF TickRow, TickOutcome, NoTrade, TradeRows, SalePays
  <2>5. PICK t \in Tickers, fx \in Rates(s) :
          \/ TickWrite("ERROR", NoTrade)
          \/ TickWrite("PAUSED_BY_RISK", ManualSell(s, trader, t.bid, None))
          \/ TickWrite("PAUSED_BY_RISK", NoTrade)
          \/ TickWrite(loaded[cur].status, Outcome(t, fx))
    BY <1>2 DEF TickAct, TickOn
  <2>6. /\ ManualSell(s, trader, t.bid, None) \in TradeRows
        /\ TickRow(ManualSell(s, trader, t.bid, None))
        /\ TickOutcome("PAUSED_BY_RISK", ManualSell(s, trader, t.bid, None))
    <3> DEFINE row == ManualSell(s, trader, t.bid, None)
    <3> HIDE DEF s
    <3>1. t.bid \in Nat /\ None \in Int \cup {None} /\ trader.usdt <= trader.usdt
      BY <2>2, QuoteType DEF Books
    <3>2. /\ row \in SaleRows /\ SalePays(row)
          /\ row.side = "SELL" => row.price = t.bid /\ row.volume = trader.usdt
      BY <2>2, <3>1, ManualSellRow
    <3>3. row \in TradeRows /\ row.side \in {"NONE", "SELL"}
      BY <3>2 DEF SaleRows, TradeRows
    <3> HIDE DEF row
    <3>4. row \in TradeRows /\ TickRow(row) /\ TickOutcome("PAUSED_BY_RISK", row)
      BY <3>1, <3>2, <3>3 DEF TickRow, TickOutcome
    <3> QED
      BY <3>4 DEF row
  <2>7. /\ Outcome(t, fx) \in TradeRows /\ TickRow(Outcome(t, fx))
        /\ TickOutcome(loaded[cur].status, Outcome(t, fx))
    <3> DEFINE signal == Decide(s, trader, t.trade, fx)
               price  == OrderPrice(signal, t)
    <3>1. price \in Nat \ {0}
      BY QuoteType DEF OrderPrice
    <3> HIDE DEF signal, price, s
    <3>2. LET row == Execute(s, trader, signal, price, RemainingAmount(s))
          IN  row \in TradeRows /\ TickRow(row)
      <4> DEFINE row == Execute(s, trader, signal, price, RemainingAmount(s))
      <4>1. /\ row \in TradeRows
            /\ \/ row = NoTrade
               \/ /\ \/ /\ signal = "BUY" /\ row.side = "BUY"
                        /\ Affordable(row, trader)
                     \/ /\ signal = "SELL" /\ row \in SaleRows
                        /\ SalePays(row) /\ row.volume <= trader.usdt
                  /\ row.price = price
        BY <2>2, <2>3, <3>1, ExecuteRow
      <4>2. /\ signal = "BUY" => price = t.ask
            /\ signal = "SELL" => price = t.bid
        BY DEF price, OrderPrice
      <4> HIDE DEF row
      <4>3. row \in TradeRows /\ TickRow(row)
        BY <2>4, <4>1, <4>2 DEF TickRow, SaleRows
      <4> QED
        BY <4>3 DEF row
    <3> QED
      BY <3>2 DEF signal, price, s, TickOutcome
  <2> HIDE DEF s, Outcome
  <2> QED
    BY <2>1, <2>2, <2>4, <2>5, <2>6, <2>7 DEF Statuses
<1> QED
  BY <1>1, <1>2

\* What a request wants, given what it has read: one thing, and a sale of no
\* more than it has found.
ReqKind(b, new, row) ==
  /\ \/ /\ new.setting = db[b].setting
        /\ new.status \in {"RUNNING", "ERROR", "STOPPED"}
        /\ row.side = "NONE"
     \/ /\ \E p \in Payloads : new.setting = Requested(p)
        /\ new.status = db[b].status
        /\ row.side = "NONE"
     \/ new = View(db[b])
  /\ row.side = "SELL" => /\ row.volume <= db[b].book.usdt
                          /\ row.price \in SellPrices

\* A request that arrives is well typed and of one kind.
LEMMA ArriveType ==
  ASSUME TypeInv, NEW r \in Requests, NEW b \in Bots, ReqArrive(r, b)
  PROVE  /\ UNCHANGED <<db, pending, lock, phase, cur, loaded, trader, late>>
         /\ \E new \in Views, row \in SaleRows :
              /\ SalePays(row)
              /\ ReqKind(b, new, row)
              /\ ReqRead(r, b, new, row)
<1>1. View(db[b]) \in Views /\ db[b].setting \in Settings /\ db[b].book \in Books
  BY ViewType DEF TypeInv, TypeOK, BotRows
<1>2. NoTrade \in SaleRows /\ SalePays(NoTrade) /\ NoTrade.side = "NONE"
  BY NoTradeType DEF NoTrade, SalePays
<1>3. ASSUME NEW status \in Statuses
      PROVE  LET new == [View(db[b]) EXCEPT !.status = status]
             IN  /\ new \in Views
                 /\ status # "PAUSED_BY_RISK" => ReqKind(b, new, NoTrade)
  BY <1>1, <1>2 DEF Views, View, ReqKind, Statuses
<1>4. CASE Start(r, b)
  <2> DEFINE status == IF db[b].setting.trade_mode = "live" THEN "ERROR" ELSE "RUNNING"
  <2>1. status \in Statuses /\ status # "PAUSED_BY_RISK"
    BY DEF Statuses
  <2>2. ReqRead(r, b, [View(db[b]) EXCEPT !.status = status], NoTrade)
    BY <1>4 DEF Start
  <2> HIDE DEF status
  <2> QED
    BY <1>2, <1>3, <2>1, <2>2 DEF ReqRead
<1>5. CASE Stop(r, b)
  <2>1. ReqRead(r, b, [View(db[b]) EXCEPT !.status = "STOPPED"], NoTrade)
    BY <1>5 DEF Stop
  <2> QED
    BY <1>2, <1>3, <2>1 DEF ReqRead, Statuses
<1>6. CASE UpdateSettings(r, b)
  <2>1. PICK p \in Payloads :
          ReqRead(r, b, [View(db[b]) EXCEPT !.setting = Requested(p)], NoTrade)
    BY <1>6 DEF UpdateSettings
  <2>2. /\ [View(db[b]) EXCEPT !.setting = Requested(p)] \in Views
        /\ ReqKind(b, [View(db[b]) EXCEPT !.setting = Requested(p)], NoTrade)
    BY <1>1, <1>2, RequestedType DEF Views, View, ReqKind
  <2> QED
    BY <1>2, <2>1, <2>2 DEF ReqRead
<1>7. CASE SellNow(r, b)
  <2>1. PICK price \in SellPrices, volume \in SellVolumes :
          ReqRead(r, b, View(db[b]),
                  ManualSell(db[b].setting, db[b].book, price, volume))
    BY <1>7 DEF SellNow
  <2>2. price \in Nat /\ volume \in Int \cup {None}
    BY SaleAssumption
  <2>3. /\ ManualSell(db[b].setting, db[b].book, price, volume) \in SaleRows
        /\ SalePays(ManualSell(db[b].setting, db[b].book, price, volume))
        /\ ReqKind(b, View(db[b]),
                   ManualSell(db[b].setting, db[b].book, price, volume))
    BY <1>1, <2>2, ManualSellRow DEF ReqKind
  <2> QED
    BY <1>1, <2>1, <2>3 DEF ReqRead
<1> QED
  BY <1>4, <1>5, <1>6, <1>7 DEF ReqArrive

LEMMA TypeStep == TypeInv /\ [Next]_vars => TypeInv'
<1> SUFFICES ASSUME TypeInv, [Next]_vars PROVE TypeInv'
  OBVIOUS
<1> USE DEF TypeInv
<1>1. CASE PassStart
  <2>1. loaded' = [b \in ToTick |-> View(db[b])] /\ ToTick \subseteq Bots
    BY <1>1 DEF PassStart, ToTick
  <2>2. \A b \in ToTick : View(db[b]) \in Views
    BY <2>1, ViewType DEF TypeOK
  <2>3. \A b \in DOMAIN loaded' : loaded'[b].status = "RUNNING"
    BY <2>1 DEF ToTick, View
  <2>4. DOMAIN loaded' \subseteq Bots /\ loaded' \in [DOMAIN loaded' -> Views]
    BY <2>1, <2>2
  <2> QED
    BY <1>1, <2>3, <2>4 DEF PassStart, TypeOK, TurnInv
<1>2. ASSUME NEW b \in Bots, TickRead(b) PROVE TypeInv'
  <2> DEFINE setting == [c \in Columns |-> IF c \in BotColumns
                                           THEN loaded[b].setting[c]
                                           ELSE PassView[b].setting[c]]
  <2>1. /\ loaded[b] \in Views /\ loaded[b].setting \in Settings
        /\ PassView[b] \in BotRows /\ PassView[b].setting \in Settings
        /\ PassView[b].book \in Books
    BY <1>2 DEF TickRead, TypeOK, Views, BotRows, PassView
  <2>2. setting \in Settings
    BY <2>1, MergeType
  <2> HIDE DEF setting
  <2>3. [loaded[b] EXCEPT !.setting = setting] \in Views
    BY <2>1, <2>2 DEF Views
  <2>4. loaded' = [loaded EXCEPT ![b] = [loaded[b] EXCEPT !.setting = setting]]
    BY <1>2 DEF TickRead, setting
  <2>5. DOMAIN loaded' = DOMAIN loaded /\ loaded' \in [DOMAIN loaded -> Views]
    BY <2>3, <2>4 DEF TypeOK
  <2>6. /\ cur' = b /\ trader' = PassView[b].book /\ phase' = "await"
        /\ UNCHANGED <<db, pending, lock, req, late>>
        /\ b \in DOMAIN loaded
    BY <1>2 DEF TickRead
  <2>7. \A a \in DOMAIN loaded' : loaded'[a].status = loaded[a].status
    BY <2>1, <2>3, <2>4, <2>5 DEF TypeOK, Views
  <2> QED
    BY <2>1, <2>5, <2>6, <2>7 DEF TypeOK, TurnInv
<1>3. CASE TickFail \/ TickAct
  <2>1. UNCHANGED <<db, req, late>>
    BY <1>3 DEF TickFail, TickAct
  <2>2. ASSUME TurnOver
        PROVE  /\ DOMAIN loaded' \subseteq Bots /\ loaded' \in [DOMAIN loaded' -> Views]
               /\ phase' = "scan" /\ cur' = None /\ trader' \in Books
               /\ \A b \in DOMAIN loaded' : loaded'[b].status = "RUNNING"
    BY <2>2, EmptyBookType DEF TurnOver, TypeOK, TurnInv
  <2>3. CASE UNCHANGED <<pending, lock>> /\ TurnOver
    BY <2>1, <2>2, <2>3 DEF TypeOK, TurnInv
  <2>4. CASE lock \in {"free", "tick"}
             /\ \E status \in Statuses, row \in TradeRows :
                  /\ TickRow(row)
                  /\ TickOutcome(status, row)
                  /\ TickWrite(status, row)
    <3>1. PICK status \in Statuses, row \in TradeRows :
            TickRow(row) /\ TickWrite(status, row)
      BY <2>4
    <3>2. cur \in DOMAIN loaded /\ cur \in Bots
      BY <1>3 DEF TurnInv, TypeOK, TickFail, TickAct
    <3> DEFINE new == [loaded[cur] EXCEPT !.status = status]
    <3>3. loaded[cur] \in Views /\ new \in Views /\ pending[cur] \in BotRows
      BY <3>2 DEF TypeOK, Views
    <3> HIDE DEF new
    <3>4. Flush(pending[cur], loaded[cur], new, row) \in BotRows
      BY <3>1, <3>3, FlushType DEF TickRow, Affordable
    <3>5. /\ pending' = [pending EXCEPT ![cur] = Flush(@, loaded[cur], new, row)]
          /\ lock' = "tick" /\ TurnOver
      BY <3>1 DEF TickWrite, new
    <3>6. pending' \in [Bots -> BotRows]
      BY <3>4, <3>5 DEF TypeOK
    <3> QED
      BY <2>1, <2>2, <3>5, <3>6 DEF TypeOK, TurnInv
  <2> QED
    BY <1>3, <2>3, <2>4, TickWrites
<1>4. CASE TickBlock
  BY <1>4 DEF TickBlock, TypeOK, TurnInv
<1>5. CASE TickTimeout
  BY <1>5, EmptyBookType DEF TickTimeout, PassOver, TypeOK, TurnInv
<1>6. CASE PassEnd
  <2>1. late' \in [Bots -> Nat]
    BY <1>6 DEF PassEnd, LateRows, TypeOK
  <2>2. db' \in [Bots -> BotRows]
    BY <1>6 DEF PassEnd, PassView, TypeOK
  <2>3. /\ lock' \in {"free", "tick"} \cup Requests
        /\ UNCHANGED <<pending, req>>
        /\ PassOver
    BY <1>6 DEF PassEnd, TypeOK
  <2> QED
    BY <2>1, <2>2, <2>3, EmptyBookType DEF PassOver, TypeOK, TurnInv
<1>7. ASSUME NEW r \in Requests, NEW b \in Bots, ReqArrive(r, b) PROVE TypeInv'
  <2>1. PICK new \in Views, row \in SaleRows : ReqRead(r, b, new, row)
    BY <1>7, ArriveType
  <2>2. /\ View(db[b]) \in Views
        /\ db[b].book.rows \in Nat
    BY ViewType DEF TypeOK, BotRows, Books
  <2>3. [pc |-> "read", bot |-> b, old |-> View(db[b]), new |-> new, row |-> row,
         rows |-> db[b].book.rows] \in Jobs
    BY <2>2 DEF Jobs
  <2>4. req' \in [Requests -> Jobs \cup {Idle}]
    BY <2>1, <2>3 DEF ReqRead, TypeOK
  <2> QED
    BY <1>7, <2>4, ArriveType DEF TypeOK, TurnInv
<1>8. ASSUME NEW r \in Requests, ReqStep(r) PROVE TypeInv'
  <2>1. req[r].pc # "idle" => req[r] \in Jobs
    BY DEF TypeOK, Idle
  <2>2. CASE ReqWrite(r)
    <3>1. req[r] \in Jobs
      BY <2>1, <2>2 DEF ReqWrite
    <3>2. /\ req[r].bot \in Bots /\ req[r].old \in Views /\ req[r].new \in Views
          /\ req[r].row \in TradeRows /\ req[r].row.side # "BUY"
      BY <3>1 DEF Jobs, SaleRows
    <3>3. Flush(pending[req[r].bot], req[r].old, req[r].new, req[r].row) \in BotRows
      BY <3>2, FlushType DEF TypeOK
    <3>4. pending' \in [Bots -> BotRows]
      BY <2>2, <3>2, <3>3 DEF ReqWrite, TypeOK
    <3>5. [req[r] EXCEPT !.pc = "flushed"] \in Jobs
      BY <3>1 DEF Jobs
    <3>6. req' \in [Requests -> Jobs \cup {Idle}]
      BY <2>2, <3>5 DEF ReqWrite, TypeOK
    <3> QED
      BY <2>2, <3>4, <3>6 DEF ReqWrite, TypeOK, TurnInv
  <2>3. CASE ReqTimeout(r)
    BY <2>3 DEF ReqTimeout, TypeOK, TurnInv
  <2>4. CASE ReqExit(r)
    <3>1. [req[r] EXCEPT !.pc = "exiting"] \in Jobs
      BY <2>1, <2>4 DEF ReqExit, Jobs
    <3> QED
      BY <2>4, <3>1 DEF ReqExit, TypeOK, TurnInv
  <2>5. CASE ReqCommit(r)
    BY <2>5 DEF ReqCommit, TypeOK, TurnInv
  <2> QED
    BY <1>8, <2>2, <2>3, <2>4, <2>5 DEF ReqStep
<1>9. CASE NextDay
  <2>1. ASSUME NEW bot \in BotRows
        PROVE  [bot EXCEPT !.book.today = 0] \in BotRows
    BY DEF BotRows, Books
  <2> QED
    BY <1>9, <2>1 DEF NextDay, TypeOK, TurnInv
<1>10. CASE Crash
  BY <1>10, EmptyBookType DEF Crash, PassOver, TypeOK, TurnInv
<1>11. CASE UNCHANGED vars
  BY <1>11 DEF vars, TypeOK, TurnInv
<1> QED
  BY <1>1, <1>2, <1>3, <1>4, <1>5, <1>6, <1>7, <1>8, <1>9, <1>10, <1>11
     DEF Next, TickStep

\* Statuses, settings, portfolios, the lock and the requests' jobs have their
\* types in every reachable state: in particular no interleaving of the pass with
\* requests leaves a negative balance of USDT or a setting without a column.
THEOREM TypeCorrect == Spec => []TypeOK
<1>1. TypeInv => TypeOK
  BY DEF TypeInv
<1> QED
  BY <1>1, TypeInit, TypeStep, PTL DEF Spec

-------------------------------------------------------------------------------
(* The second layer: the write lock.                                        *)

LEMMA LockInit == Init => LockInv
  BY LockAssumption DEF Init, LockInv, Idle

\* Midnight changes today's sums and nothing else.
LEMMA Midnight ==
  ASSUME TypeInv, NextDay, NEW b \in Bots
  PROVE  /\ db'[b].status = db[b].status
         /\ pending'[b].status = pending[b].status
         /\ db'[b].setting = db[b].setting
         /\ pending'[b].setting = pending[b].setting
         /\ db'[b].book.krw = db[b].book.krw
         /\ pending'[b].book.krw = pending[b].book.krw
         /\ db'[b].book.usdt = db[b].book.usdt
         /\ pending'[b].book.usdt = pending[b].book.usdt
         /\ db'[b].book.rows = db[b].book.rows
         /\ pending'[b].book.rows = pending[b].book.rows
         /\ db'[b].book.short = db[b].book.short
         /\ pending'[b].book.short = pending[b].book.short
         /\ db'[b].book.avg = db[b].book.avg
         /\ pending'[b].book.avg = pending[b].book.avg
<1>1. ASSUME NEW bot \in BotRows
      PROVE  LET after == [bot EXCEPT !.book.today = 0]
             IN  /\ after.status = bot.status
                 /\ after.setting = bot.setting
                 /\ after.book.krw = bot.book.krw
                 /\ after.book.usdt = bot.book.usdt
                 /\ after.book.rows = bot.book.rows
                 /\ after.book.short = bot.book.short
                 /\ after.book.avg = bot.book.avg
  <2> DEFINE book  == [bot.book EXCEPT !.today = 0]
             after == [bot EXCEPT !.book = book]
  <2>1. /\ book.krw = bot.book.krw
        /\ book.usdt = bot.book.usdt
        /\ book.rows = bot.book.rows
        /\ book.short = bot.book.short
        /\ book.avg = bot.book.avg
    BY DEF BotRows, Books
  <2> HIDE DEF book
  <2>2. /\ after.status = bot.status /\ after.setting = bot.setting
        /\ after.book = book
    BY DEF BotRows
  <2> QED
    BY <2>1, <2>2 DEF book
<1>2. /\ db[b] \in BotRows /\ pending[b] \in BotRows
      /\ db'[b] = [db[b] EXCEPT !.book.today = 0]
      /\ pending'[b] = [pending[b] EXCEPT !.book.today = 0]
  BY DEF NextDay, TypeInv, TypeOK
<1> QED
  BY <1>1, <1>2

\* The cases of Next as the layers below take them.
LEMMA NextCases ==
  ASSUME TypeInv, [Next]_vars
  PROVE  \/ PassStart
         \/ \E b \in Bots : TickRead(b)
         \/ /\ phase \in {"await", "blocked"}
            /\ UNCHANGED <<db, req, late, pending, lock>>
            /\ TurnOver
         \/ /\ phase \in {"await", "blocked"}
            /\ lock \in {"free", "tick"}
            /\ UNCHANGED <<db, req, late>>
            /\ \E status \in Statuses, row \in TradeRows :
                 /\ TickRow(row)
                 /\ TickOutcome(status, row)
                 /\ TickWrite(status, row)
         \/ TickBlock
         \/ TickTimeout
         \/ PassEnd
         \/ \E r \in Requests, b \in Bots, new \in Views, row \in SaleRows :
              SalePays(row) /\ ReqKind(b, new, row) /\ ReqRead(r, b, new, row)
         \/ \E r \in Requests : ReqWrite(r)
         \/ \E r \in Requests : ReqTimeout(r)
         \/ \E r \in Requests : ReqExit(r)
         \/ \E r \in Requests : ReqCommit(r)
         \/ NextDay
         \/ Crash
         \/ UNCHANGED vars
<1>1. ASSUME TickFail \/ TickAct
      PROVE  phase \in {"await", "blocked"} /\ UNCHANGED <<db, req, late>>
  BY <1>1 DEF TickFail, TickAct
<1>2. CASE TickFail \/ TickAct
  BY <1>1, <1>2, TickWrites
<1>3. CASE \E r \in Requests, b \in Bots : ReqArrive(r, b)
  BY <1>3, ArriveType
<1>4. CASE \E r \in Requests : ReqStep(r)
  BY <1>4 DEF ReqStep
<1> QED
  BY <1>2, <1>3, <1>4 DEF Next, TickStep

LEMMA LockStep == TypeInv /\ LockInv /\ [Next]_vars => LockInv'
<1> SUFFICES ASSUME TypeInv, LockInv, [Next]_vars PROVE LockInv'
  OBVIOUS
<1> USE LockAssumption DEF LockInv
<1>0. \A r \in Requests : req[r] \in Jobs \cup {Idle}
  BY DEF TypeInv, TypeOK
<1>1. CASE PassStart
  BY <1>1 DEF PassStart
<1>2. CASE \E b \in Bots : TickRead(b)
  BY <1>2 DEF TickRead
<1>3. CASE TurnOver /\ UNCHANGED <<db, req, late, pending, lock>>
  BY <1>3 DEF TurnOver
<1>4. CASE /\ lock \in {"free", "tick"}
           /\ UNCHANGED <<db, req, late>>
           /\ \E status \in Statuses, row \in TradeRows : TickWrite(status, row)
  BY <1>4 DEF TickWrite, TurnOver
<1>5. CASE TickBlock
  BY <1>5 DEF TickBlock
<1>6. CASE TickTimeout
  BY <1>6 DEF TickTimeout, PassOver
<1>7. CASE PassEnd
  BY <1>7 DEF PassEnd, PassView
<1>8. ASSUME NEW r \in Requests, NEW b \in Bots, NEW new \in Views,
             NEW row \in SaleRows, ReqRead(r, b, new, row)
      PROVE  LockInv'
  <2>1. lock # r /\ req'[r].pc = "read" /\ \A q \in Requests \ {r} : req'[q] = req[q]
    BY <1>8 DEF ReqRead, TypeInv, TypeOK
  <2> QED
    BY <1>8, <2>1 DEF ReqRead
<1>9. ASSUME NEW r \in Requests, ReqWrite(r) PROVE LockInv'
  <2>1. req'[r].pc = "flushed" /\ \A q \in Requests \ {r} : req'[q] = req[q]
    BY <1>0, <1>9 DEF ReqWrite, TypeInv, TypeOK, Jobs, Idle
  <2> QED
    BY <1>9, <2>1 DEF ReqWrite
<1>10. ASSUME NEW r \in Requests, ReqTimeout(r) PROVE LockInv'
  <2>1. req'[r].pc = "idle" /\ \A q \in Requests \ {r} : req'[q] = req[q]
    BY <1>10 DEF ReqTimeout, TypeInv, TypeOK, Idle
  <2> QED
    BY <1>10, <2>1 DEF ReqTimeout
<1>11. ASSUME NEW r \in Requests, ReqExit(r) PROVE LockInv'
  <2>1. req'[r].pc = "exiting" /\ \A q \in Requests \ {r} : req'[q] = req[q]
    BY <1>0, <1>11 DEF ReqExit, TypeInv, TypeOK, Jobs, Idle
  <2> QED
    BY <1>11, <2>1 DEF ReqExit
<1>12. ASSUME NEW r \in Requests, ReqCommit(r) PROVE LockInv'
  <2>1. req'[r].pc = "idle" /\ \A q \in Requests \ {r} : req'[q] = req[q]
    BY <1>12 DEF ReqCommit, TypeInv, TypeOK, Idle
  <2> QED
    BY <1>12, <2>1 DEF ReqCommit
<1>13. CASE NextDay
  BY <1>13 DEF NextDay
<1>14. CASE Crash
  BY <1>14 DEF Crash, PassOver, Idle
<1>15. CASE UNCHANGED vars
  BY <1>15 DEF vars
<1> QED
  BY <1>1, <1>2, <1>3, <1>4, <1>5, <1>6, <1>7, <1>8, <1>9, <1>10, <1>11, <1>12,
     <1>13, <1>14, <1>15, NextCases

-------------------------------------------------------------------------------
(* The third layer: money.                                                  *)

MoneyInv == Solvent /\ SaleInv /\ KrwInv

LEMMA MoneyInit == Init => MoneyInv
  BY BalanceAssumption, LockAssumption
     DEF Init, MoneyInv, Solvent, SaleInv, KrwInv, EmptyBook, Idle

\* What a flush does to the KRW of the bot it is for.
LEMMA FlushKrw ==
  ASSUME NEW bot \in BotRows, NEW old \in Views, NEW new \in Views
  PROVE  /\ \A row \in SaleRows :
              SalePays(row) => Flush(bot, old, new, row).book.krw >= bot.book.krw
         /\ \A portfolio \in Books, row \in TradeRows :
              (/\ row.side = "BUY" /\ Affordable(row, portfolio)
               /\ portfolio.krw <= bot.book.krw)
                => Flush(bot, old, new, row).book.krw >= 0
  BY RecordSale, RecordBuy DEF Flush, BotRows

LEMMA MoneyStep ==
  TypeInv /\ TypeInv' /\ LockInv /\ MoneyInv /\ [Next]_vars => MoneyInv'
<1> SUFFICES ASSUME TypeInv, TypeInv', LockInv, MoneyInv, [Next]_vars
             PROVE  MoneyInv'
  OBVIOUS
<1> USE LockAssumption DEF MoneyInv
<1>0. /\ \A b \in Bots : db[b] \in BotRows /\ pending[b] \in BotRows
      /\ \A b \in Bots : db'[b] \in BotRows /\ pending'[b] \in BotRows
      /\ \A b \in Bots : db[b].book.krw \in Int /\ pending[b].book.krw \in Int
      /\ \A r \in Requests : req[r] \in Jobs \cup {Idle}
      /\ trader \in Books
      /\ phase \in {"await", "blocked"} => cur \in Bots
  BY DEF TypeInv, TypeOK, TurnInv, BotRows, Books
<1>1. CASE PassStart
  BY <1>1 DEF PassStart, Solvent, SaleInv, KrwInv
<1>2. ASSUME NEW b \in Bots, TickRead(b) PROVE MoneyInv'
  <2>1. trader'.krw = PassView'[cur'].book.krw
    BY <1>2 DEF TickRead, PassView
  <2> QED
    BY <1>0, <1>2, <2>1 DEF TickRead, PassView, Solvent, SaleInv, KrwInv
<1>3. CASE TurnOver /\ UNCHANGED <<db, req, late, pending, lock>>
  BY <1>3 DEF TurnOver, Solvent, SaleInv, KrwInv
<1>4. ASSUME phase \in {"await", "blocked"}, lock \in {"free", "tick"},
             UNCHANGED <<db, req, late>>,
             NEW status \in Statuses, NEW row \in TradeRows,
             TickRow(row), TickWrite(status, row)
      PROVE  MoneyInv'
  <2> DEFINE new == [loaded[cur] EXCEPT !.status = status]
  <2>1. loaded[cur] \in Views /\ new \in Views
    BY <1>4 DEF TypeInv, TypeOK, TurnInv, Views
  <2>2. trader.krw <= pending[cur].book.krw
    BY <1>4 DEF KrwInv, LockInv, PassView
  <2> HIDE DEF new
  <2>3. Flush(pending[cur], loaded[cur], new, row).book.krw >= 0
    <3>1. CASE row.side = "BUY"
      BY <1>0, <1>4, <2>1, <2>2, <3>1, FlushKrw DEF TickRow
    <3>2. CASE row.side # "BUY"
      <4>1. /\ Flush(pending[cur], loaded[cur], new, row).book.krw
                 >= pending[cur].book.krw
            /\ Flush(pending[cur], loaded[cur], new, row) \in BotRows
        BY <1>0, <1>4, <2>1, <3>2, FlushKrw, FlushType DEF TickRow, SaleRows
      <4> QED
        BY <1>0, <1>4, <4>1 DEF Solvent, BotRows, Books
    <3> QED
      BY <3>1, <3>2
  <2>4. /\ pending' = [pending EXCEPT ![cur] = Flush(@, loaded[cur], new, row)]
        /\ lock' = "tick" /\ phase' = "scan"
    BY <1>4 DEF TickWrite, TurnOver, new
  <2>5. Solvent'
    BY <1>4, <2>3, <2>4 DEF Solvent, TypeInv, TypeOK
  <2> QED
    BY <1>4, <2>4, <2>5 DEF SaleInv, KrwInv
<1>5. CASE TickBlock
  BY <1>5 DEF TickBlock, Solvent, SaleInv, KrwInv, PassView
<1>6. CASE TickTimeout
  BY <1>6 DEF TickTimeout, PassOver, Solvent, SaleInv, KrwInv
<1>7. CASE PassEnd
  BY <1>7 DEF PassEnd, PassOver, PassView, Solvent, SaleInv, KrwInv
<1>8. ASSUME NEW r \in Requests, NEW b \in Bots, NEW new \in Views,
             NEW row \in SaleRows, SalePays(row), ReqRead(r, b, new, row)
      PROVE  MoneyInv'
  <2>1. SaleInv'
    BY <1>8 DEF ReqRead, SaleInv, SalePays, TypeInv, TypeOK
  <2> QED
    BY <1>8, <2>1 DEF ReqRead, Solvent, KrwInv, PassView
<1>9. ASSUME NEW r \in Requests, ReqWrite(r) PROVE MoneyInv'
  <2>1. req[r] \in Jobs
    BY <1>0, <1>9 DEF ReqWrite, Idle
  <2>2. /\ req[r].bot \in Bots /\ req[r].old \in Views /\ req[r].new \in Views
        /\ req[r].row \in SaleRows /\ SalePays(req[r].row)
    BY <1>9, <2>1 DEF ReqWrite, Jobs, SaleInv, SalePays
  <2>3. pending'[req[r].bot].book.krw >= pending[req[r].bot].book.krw
    BY <1>0, <1>9, <2>2, FlushKrw DEF ReqWrite, TypeInv, TypeOK
  <2>4. /\ \A b \in Bots \ {req[r].bot} : pending'[b] = pending[b]
        /\ pending = db /\ db' = db /\ lock = "free" /\ lock' = r
        /\ UNCHANGED <<phase, cur, trader>>
    BY <1>9 DEF ReqWrite, LockInv, TypeInv, TypeOK
  <2>5. \A b \in Bots : /\ db[b].book.krw <= pending'[b].book.krw
                        /\ pending'[b].book.krw \in Int
    BY <1>0, <2>3, <2>4 DEF BotRows, Books
  <2>6. Solvent' /\ KrwInv'
    BY <1>0, <2>4, <2>5 DEF Solvent, KrwInv, PassView
  <2>7. \A q \in Requests : req'[q].pc = "read" => req'[q] = req[q]
    BY <1>9, <2>1 DEF ReqWrite, TypeInv, TypeOK, Jobs
  <2> QED
    BY <2>6, <2>7 DEF SaleInv
<1>10. ASSUME NEW r \in Requests, ReqTimeout(r) PROVE MoneyInv'
  <2>1. \A q \in Requests : req'[q].pc = "read" => req'[q] = req[q]
    BY <1>10 DEF ReqTimeout, TypeInv, TypeOK, Idle
  <2> QED
    BY <1>10, <2>1 DEF ReqTimeout, Solvent, SaleInv, KrwInv, PassView
<1>11. ASSUME NEW r \in Requests, ReqExit(r) PROVE MoneyInv'
  <2>1. \A q \in Requests : req'[q].pc = "read" => req'[q] = req[q]
    BY <1>0, <1>11 DEF ReqExit, TypeInv, TypeOK, Jobs, Idle
  <2> QED
    BY <1>11, <2>1 DEF ReqExit, Solvent, SaleInv, KrwInv, PassView
<1>12. ASSUME NEW r \in Requests, ReqCommit(r) PROVE MoneyInv'
  <2>1. \A q \in Requests : req'[q].pc = "read" => req'[q] = req[q]
    BY <1>12 DEF ReqCommit, TypeInv, TypeOK, Idle
  <2>2. lock = r
    BY <1>12 DEF ReqCommit, LockInv
  <2>3. phase \in {"await", "blocked"} => trader.krw <= pending[cur].book.krw
    <3> SUFFICES ASSUME phase \in {"await", "blocked"}
                 PROVE  trader.krw <= pending[cur].book.krw
      OBVIOUS
    <3>1. trader.krw <= db[cur].book.krw /\ db[cur].book.krw <= pending[cur].book.krw
      BY <1>0, <2>2 DEF KrwInv, PassView
    <3> QED
      BY <1>0, <3>1 DEF Books
  <2>4. /\ db' = pending /\ lock' = "free"
        /\ UNCHANGED <<pending, phase, cur, trader>>
    BY <1>12 DEF ReqCommit
  <2>5. Solvent' /\ KrwInv'
    BY <2>3, <2>4 DEF Solvent, KrwInv, PassView
  <2> QED
    BY <2>1, <2>5 DEF SaleInv
<1>13. CASE NextDay
  <2>1. \A b \in Bots : /\ db'[b].book.krw = db[b].book.krw
                        /\ pending'[b].book.krw = pending[b].book.krw
    BY <1>13, Midnight
  <2>2. phase \in {"await", "blocked"} => PassView'[cur].book.krw = PassView[cur].book.krw
    BY <1>0, <1>13, <2>1 DEF NextDay, PassView
  <2> QED
    BY <1>13, <2>1, <2>2 DEF NextDay, Solvent, SaleInv, KrwInv
<1>14. CASE Crash
  BY <1>14 DEF Crash, PassOver, Solvent, SaleInv, KrwInv, Idle
<1>15. CASE UNCHANGED vars
  BY <1>15 DEF vars, Solvent, SaleInv, KrwInv, PassView
<1> QED
  BY <1>1, <1>2, <1>3, <1>4, <1>5, <1>6, <1>7, <1>8, <1>9, <1>10, <1>11, <1>12,
     <1>13, <1>14, <1>15, NextCases

\* No paper account is ever overdrawn, though every order is sized against a
\* portfolio that may be as old as two network timeouts.
THEOREM AlwaysSolvent == Spec => []Solvent
<1>1. Init => TypeInv /\ LockInv /\ MoneyInv
  BY TypeInit, LockInit, MoneyInit
<1>2. TypeInv /\ LockInv /\ MoneyInv /\ [Next]_vars
        => (TypeInv /\ LockInv /\ MoneyInv)'
  BY TypeStep, LockStep, MoneyStep
<1>3. MoneyInv => Solvent
  BY DEF MoneyInv
<1> QED
  BY <1>1, <1>2, <1>3, PTL DEF Spec

-------------------------------------------------------------------------------
(* The fourth layer: rows committed late.                                   *)

LEMMA LateInit == Init => LateInv
  BY DEF Init, LateInv

LEMMA LateStep ==
  TypeInv /\ TypeInv' /\ LockInv /\ LateInv /\ [Next]_vars => LateInv'
<1> SUFFICES ASSUME TypeInv, TypeInv', LockInv, LateInv, [Next]_vars
             PROVE  LateInv'
  OBVIOUS
<1> USE LockAssumption
<1>0. /\ \A b \in Bots : late[b] \in Nat
      /\ \A b \in Bots : /\ db[b].book.rows \in Nat
                         /\ pending[b].book.rows \in Nat
      /\ phase \in {"await", "blocked"} => cur \in Bots /\ cur \in DOMAIN loaded
  BY DEF TypeInv, TypeOK, TurnInv, BotRows, Books
<1>1. CASE PassStart
  BY <1>1 DEF PassStart, ToTick, LateInv, LockInv
<1>2. CASE \E b \in Bots : TickRead(b)
  BY <1>2 DEF TickRead, LateInv, TypeInv, TypeOK
<1>3. CASE TurnOver /\ UNCHANGED <<db, req, late, pending, lock>>
  BY <1>3 DEF TurnOver, LateInv
<1>4. ASSUME phase \in {"await", "blocked"}, lock \in {"free", "tick"},
             UNCHANGED <<db, req, late>>,
             NEW status \in Statuses, NEW row \in TradeRows,
             TickWrite(status, row)
      PROVE  LateInv'
  <2>1. /\ late[cur] = 0
        /\ \A b \in Bots \ {cur} : pending'[b] = pending[b]
        /\ DOMAIN loaded' \subseteq DOMAIN loaded
        /\ UNCHANGED <<db, late>>
    BY <1>0, <1>4 DEF TickWrite, TurnOver, LateInv, TypeInv, TypeOK
  <2>2. ASSUME NEW b \in Bots, lock = "free"
        PROVE  pending[b].book.rows = db[b].book.rows
    BY <2>2 DEF LockInv
  <2> QED
    BY <1>4, <2>1, <2>2 DEF LateInv
<1>5. CASE TickBlock
  BY <1>5 DEF TickBlock, LateInv
<1>6. CASE TickTimeout
  BY <1>6 DEF TickTimeout, PassOver, LateInv
<1>7. CASE PassEnd
  <2>1. DOMAIN loaded' = {} /\ lock' # "tick"
    BY <1>7 DEF PassEnd, PassOver, TypeInv, TypeOK
  <2>2. CASE lock # "tick"
    BY <1>7, <2>1, <2>2 DEF PassEnd, PassView, LateInv
  <2>3. CASE lock = "tick"
    <3> SUFFICES ASSUME NEW b \in Bots
                 PROVE  \/ late'[b] = 0
                        \/ late'[b] = 1 /\ db'[b].status # "RUNNING"
      BY <2>1 DEF LateInv
    <3>1. late'[b] = LateRows(b)
      BY <1>7, <2>3 DEF PassEnd
    <3>2. late[b] = 0 \/ (late[b] = 1 /\ pending[b].book.rows = db[b].book.rows)
      BY <2>3 DEF LateInv
    <3> QED
      BY <1>0, <3>1, <3>2 DEF LateRows
  <2> QED
    BY <2>2, <2>3
<1>8. ASSUME NEW r \in Requests, NEW b \in Bots, NEW new \in Views,
             NEW row \in SaleRows, ReqRead(r, b, new, row)
      PROVE  LateInv'
  BY <1>8 DEF ReqRead, LateInv
<1>9. ASSUME NEW r \in Requests, ReqWrite(r) PROVE LateInv'
  BY <1>9 DEF ReqWrite, LateInv
<1>10. ASSUME NEW r \in Requests, ReqTimeout(r) PROVE LateInv'
  BY <1>10 DEF ReqTimeout, LateInv
<1>11. ASSUME NEW r \in Requests, ReqExit(r) PROVE LateInv'
  BY <1>11 DEF ReqExit, LateInv
<1>12. ASSUME NEW r \in Requests, ReqCommit(r) PROVE LateInv'
  BY <1>12 DEF ReqCommit, LateInv
<1>13. CASE NextDay
  <2>1. \A b \in Bots : /\ db'[b].book.rows = db[b].book.rows
                        /\ pending'[b].book.rows = pending[b].book.rows
                        /\ db'[b].status = db[b].status
    BY <1>13, Midnight
  <2>2. UNCHANGED <<late, loaded, lock>>
    BY <1>13 DEF NextDay
  <2> QED
    BY <2>1, <2>2 DEF LateInv
<1>14. CASE Crash
  BY <1>14 DEF Crash, PassOver, LateInv
<1>15. CASE UNCHANGED vars
  BY <1>15 DEF vars, LateInv
<1> QED
  BY <1>1, <1>2, <1>3, <1>4, <1>5, <1>6, <1>7, <1>8, <1>9, <1>10, <1>11, <1>12,
     <1>13, <1>14, <1>15, NextCases

-------------------------------------------------------------------------------
(* The fifth layer: what the open transaction changes in status and settings. *)

\* A flush of settings that were not changed leaves them as they are.
LEMMA SameSetting ==
  ASSUME NEW s \in Settings, NEW t
  PROVE  [c \in Columns |-> IF t[c] = t[c] THEN s[c] ELSE t[c]] = s
<1>1. s = [c \in Columns |-> s[c]]
  BY ColumnNames DEF Settings
<1> QED
  BY <1>1

\* What a tick's write leaves of the bot whose turn it is.
LEMMA TickWriteEffect ==
  ASSUME TypeInv, phase \in {"await", "blocked"},
         NEW status \in Statuses, NEW row \in TradeRows, TickWrite(status, row)
  PROVE  /\ pending'[cur].book = Record(pending[cur].book, row)
         /\ status # "RUNNING" => pending'[cur].status = status
         /\ status = "RUNNING" => pending'[cur].status = pending[cur].status
         /\ pending'[cur].setting = pending[cur].setting
         /\ \A b \in Bots \ {cur} : pending'[b] = pending[b]
<1>1. /\ cur \in Bots /\ cur \in DOMAIN loaded
      /\ loaded[cur] \in Views /\ loaded[cur].status = "RUNNING"
  BY DEF TypeInv, TypeOK, TurnInv
<1> DEFINE new == [loaded[cur] EXCEPT !.status = status]
<1>2. new.status = status /\ new.setting = loaded[cur].setting
  BY <1>1 DEF Views
<1> HIDE DEF new
<1>3. pending' = [pending EXCEPT ![cur] = Flush(@, loaded[cur], new, row)]
  BY DEF TickWrite, new
<1>4. /\ pending'[cur] = Flush(pending[cur], loaded[cur], new, row)
      /\ \A b \in Bots \ {cur} : pending'[b] = pending[b]
  BY <1>1, <1>3 DEF TypeInv, TypeOK
<1>5. pending[cur].setting \in Settings
  BY <1>1 DEF TypeInv, TypeOK, BotRows
<1>6. Flush(pending[cur], loaded[cur], new, row).setting = pending[cur].setting
  BY <1>2, <1>5, SameSetting DEF Flush
<1> QED
  BY <1>1, <1>2, <1>4, <1>6 DEF Flush

LEMMA MergeInit == Init => MergeInv
  BY DEF Init, MergeInv

LEMMA MergeStep ==
  TypeInv /\ LockInv /\ MergeInv /\ [Next]_vars => MergeInv'
<1> SUFFICES ASSUME TypeInv, LockInv, MergeInv, [Next]_vars PROVE MergeInv'
  OBVIOUS
<1> USE LockAssumption
<1>0. \A r \in Requests : req[r] \in Jobs \cup {Idle}
  BY DEF TypeInv, TypeOK
<1>1. CASE PassStart
  BY <1>1 DEF PassStart, MergeInv
<1>2. CASE \E b \in Bots : TickRead(b)
  BY <1>2 DEF TickRead, MergeInv
<1>3. CASE UNCHANGED <<db, req, late, pending, lock>>
  BY <1>3 DEF MergeInv
<1>4. ASSUME phase \in {"await", "blocked"}, lock \in {"free", "tick"},
             UNCHANGED <<db, req, late>>,
             NEW status \in Statuses, NEW row \in TradeRows,
             TickWrite(status, row)
      PROVE  MergeInv'
  <2>1. \A b \in Bots : /\ pending[b].setting = db[b].setting
                        /\ pending[b].status = "RUNNING" => db[b].status = "RUNNING"
    BY <1>4 DEF MergeInv
  <2>2. \A b \in Bots : /\ pending'[b].setting = pending[b].setting
                        /\ pending'[b].status = "RUNNING"
                             => pending[b].status = "RUNNING"
    BY <1>4, TickWriteEffect
  <2> QED
    BY <1>4, <2>1, <2>2 DEF MergeInv
<1>5. CASE TickBlock
  BY <1>5 DEF TickBlock, MergeInv
<1>6. CASE TickTimeout
  BY <1>6 DEF TickTimeout, MergeInv
<1>7. CASE PassEnd
  BY <1>7 DEF PassEnd, PassView, MergeInv
<1>8. ASSUME NEW r \in Requests, NEW b \in Bots, NEW new \in Views,
             NEW row \in SaleRows, ReqRead(r, b, new, row)
      PROVE  MergeInv'
  <2>1. lock # r /\ \A q \in Requests \ {r} : req'[q] = req[q]
    BY <1>8 DEF ReqRead, LockInv, TypeInv, TypeOK
  <2>2. UNCHANGED <<db, pending, lock>>
    BY <1>8 DEF ReqRead
  <2> QED
    BY <2>1, <2>2 DEF MergeInv
<1>9. ASSUME NEW r \in Requests, ReqWrite(r) PROVE MergeInv'
  <2> DEFINE job == req[r]
             written == Flush(pending[job.bot], job.old, job.new, job.row)
  <2>1. /\ job \in Jobs /\ pending = db /\ lock' = r /\ db' = db
        /\ pending' = [pending EXCEPT ![job.bot] = written]
    BY <1>0, <1>9 DEF ReqWrite, LockInv, Idle
  <2>2. /\ req'[r].bot = job.bot /\ req'[r].new = job.new
        /\ req'[r].old = job.old
    BY <1>9, <2>1 DEF ReqWrite, TypeInv, TypeOK, Jobs
  <2>3. job.bot \in Bots /\ pending[job.bot].setting \in Settings
    BY <2>1 DEF Jobs, TypeInv, TypeOK, BotRows
  <2>4. job.new.setting = job.old.setting
          => written.setting = pending[job.bot].setting
    BY <2>3, SameSetting DEF Flush
  <2>5. written.status = "RUNNING" /\ pending[job.bot].status # "RUNNING"
          => job.old.status # "RUNNING" /\ job.new.status = "RUNNING"
    BY DEF Flush
  <2>6. /\ pending'[job.bot] = written
        /\ \A b \in Bots \ {job.bot} : pending'[b] = db'[b]
    BY <2>1, <2>3 DEF TypeInv, TypeOK
  <2> HIDE DEF job, written
  <2> QED
    BY <2>1, <2>2, <2>3, <2>4, <2>5, <2>6 DEF MergeInv
<1>10. ASSUME NEW r \in Requests, ReqTimeout(r) PROVE MergeInv'
  <2>1. lock # r /\ \A q \in Requests \ {r} : req'[q] = req[q]
    BY <1>10 DEF ReqTimeout, LockInv, TypeInv, TypeOK
  <2>2. UNCHANGED <<db, pending, lock>>
    BY <1>10 DEF ReqTimeout
  <2> QED
    BY <2>1, <2>2 DEF MergeInv
<1>11. ASSUME NEW r \in Requests, ReqExit(r) PROVE MergeInv'
  <2>1. req[r] \in Jobs
    BY <1>0, <1>11 DEF ReqExit, Idle
  <2>2. \A q \in Requests : /\ req'[q].bot = req[q].bot
                            /\ req'[q].new = req[q].new
                            /\ req'[q].old = req[q].old
    BY <1>11, <2>1 DEF ReqExit, Jobs, TypeInv, TypeOK
  <2>3. UNCHANGED <<db, pending, lock>>
    BY <1>11 DEF ReqExit
  <2> QED
    BY <2>2, <2>3 DEF MergeInv
<1>12. ASSUME NEW r \in Requests, ReqCommit(r) PROVE MergeInv'
  BY <1>12 DEF ReqCommit, MergeInv
<1>13. CASE NextDay
  <2>1. UNCHANGED <<req, lock>>
    BY <1>13 DEF NextDay
  <2>2. \A b \in Bots : /\ db'[b].status = db[b].status
                        /\ pending'[b].status = pending[b].status
                        /\ db'[b].setting = db[b].setting
                        /\ pending'[b].setting = pending[b].setting
    BY <1>13, Midnight
  <2> QED
    BY <2>1, <2>2 DEF MergeInv
<1>14. CASE Crash
  BY <1>14 DEF Crash, MergeInv
<1>15. CASE UNCHANGED vars
  BY <1>15 DEF vars, MergeInv
<1> QED
  BY <1>1, <1>2, <1>3, <1>4, <1>5, <1>6, <1>7, <1>8, <1>9, <1>10, <1>11, <1>12,
     <1>13, <1>14, <1>15, NextCases

\* The core of the strengthening holds in every instance.
THEOREM CoreInvariance == Spec => []CoreInv
<1>1. Init => CoreInv
  BY TypeInit, LockInit, MoneyInit, LateInit, MergeInit DEF CoreInv, TypeInv, MoneyInv
<1>2. CoreInv <=> TypeInv /\ LockInv /\ MoneyInv /\ LateInv /\ MergeInv
  BY DEF CoreInv, TypeInv, MoneyInv
<1>3. TypeInv /\ LockInv /\ MoneyInv /\ LateInv /\ MergeInv /\ [Next]_vars
        => (TypeInv /\ LockInv /\ MoneyInv /\ LateInv /\ MergeInv)'
  BY TypeStep, LockStep, MoneyStep, LateStep, MergeStep
<1> QED
  BY <1>1, <1>2, <1>3, PTL DEF Spec

\* After a bot has been stopped, paused or put into ERROR, the passes commit at
\* most one more row for it before it is started again.
THEOREM StopIsBounded == Spec => []StopBoundsTrading
<1>1. CoreInv => StopBoundsTrading
  BY DEF CoreInv, LateInv, StopBoundsTrading
<1> QED
  BY <1>1, CoreInvariance, PTL

-------------------------------------------------------------------------------
(* What a step may not do.                                                  *)

\* The ways a tick's write can end that add a row: the loss cut's sale, and an
\* order that the strategy asked for and no risk control overruled.
LEMMA TickRows ==
  ASSUME TypeInv, TickFail \/ TickAct,
         pending'[cur].book.rows # pending[cur].book.rows
  PROVE  \E t \in Tickers, fx \in Rates(loaded[cur].setting) :
           \/ TickWrite("PAUSED_BY_RISK",
                        ManualSell(loaded[cur].setting, trader, t.bid, None))
           \/ \E signal \in Signals, price \in {t.ask, t.bid} :
                /\ signal = Decide(loaded[cur].setting, trader, t.trade, fx)
                /\ TickWrite("RUNNING",
                             Execute(loaded[cur].setting, trader, signal, price,
                                     RemainingAmount(loaded[cur].setting)))
<1>1. /\ phase \in {"await", "blocked"}
      /\ cur \in DOMAIN loaded /\ loaded[cur].status = "RUNNING"
  BY DEF TypeInv, TurnInv, TickFail, TickAct
<1>2. ASSUME NEW status \in Statuses, TickWrite(status, NoTrade)
      PROVE  FALSE
  <2>1. NoTrade \in TradeRows /\ NoTrade.side = "NONE"
    BY DEF NoTrade, TradeRows
  <2>2. pending'[cur].book = Record(pending[cur].book, NoTrade)
    BY <1>1, <1>2, <2>1, TickWriteEffect
  <2>3. Record(pending[cur].book, NoTrade) = pending[cur].book
    BY <2>1 DEF Record
  <2> QED
    BY <2>2, <2>3
<1>3. CASE TickFail
  BY <1>1, <1>2, <1>3 DEF TickFail, Statuses
<1>4. CASE TickAct
  <2> DEFINE s == loaded[cur].setting
             Signal(t, fx) == Decide(s, trader, t.trade, fx)
  <2>1. PICK t \in Tickers, fx \in Rates(s) :
          \/ TickWrite("ERROR", NoTrade)
          \/ TickWrite("PAUSED_BY_RISK", ManualSell(s, trader, t.bid, None))
          \/ TickWrite("PAUSED_BY_RISK", NoTrade)
          \/ /\ Signal(t, fx) # "RAISE"
             /\ TickWrite(loaded[cur].status,
                          Execute(s, trader, Signal(t, fx),
                                  OrderPrice(Signal(t, fx), t),
                                  RemainingAmount(s)))
    BY <1>4 DEF TickAct, TickOn
  <2>2. Signal(t, fx) # "RAISE" => Signal(t, fx) \in Signals
    BY DEF Decide, BasePriceGap, PremiumRebalance, Signals
  <2>3. ~TickWrite("ERROR", NoTrade) /\ ~TickWrite("PAUSED_BY_RISK", NoTrade)
    BY <1>2 DEF Statuses
  <2>4. OrderPrice(Signal(t, fx), t) \in {t.ask, t.bid}
    BY DEF OrderPrice
  <2> SUFFICES \/ TickWrite("PAUSED_BY_RISK", ManualSell(s, trader, t.bid, None))
               \/ \E signal \in Signals, price \in {t.ask, t.bid} :
                    /\ signal = Signal(t, fx)
                    /\ TickWrite("RUNNING", Execute(s, trader, signal, price,
                                                   RemainingAmount(s)))
    OBVIOUS
  <2> HIDE DEF Signal, s
  <2> QED
    BY <1>1, <2>1, <2>2, <2>3, <2>4 DEF s
<1> QED
  BY <1>3, <1>4

\* Only the pass's writes make the lock its own or change what it has pending.
LEMMA PendingChanges ==
  ASSUME TypeInv, LockInv, [Next]_vars, lock' = "tick", pending' # pending
  PROVE  \/ /\ TickFail \/ TickAct
            /\ phase \in {"await", "blocked"}
            /\ lock \in {"free", "tick"}
         \/ NextDay
<1> USE LockAssumption
<1>1. CASE TickFail \/ TickAct
  BY <1>1 DEF TickFail, TickAct, TypeInv, TypeOK, TurnInv
<1>2. CASE \E r \in Requests, b \in Bots : ReqArrive(r, b)
  BY <1>2, ArriveType
<1>3. CASE \E r \in Requests : ReqStep(r)
  BY <1>3 DEF ReqStep, ReqWrite, ReqTimeout, ReqExit, ReqCommit
<1> QED
  BY <1>1, <1>2, <1>3
     DEF Next, TickStep, PassStart, TickRead, TickBlock, TickTimeout, PassEnd,
         Crash, vars

\* A tick's order keeps the day's amount within the limit: what was traded by
\* hand during its await is taken off, and nothing more can be traded between
\* that and its own row.
LEMMA CapStep ==
  ASSUME TypeInv, LockInv, [Next]_vars, NEW b \in Bots, cur = b,
         pending'[b].book.rows > pending[b].book.rows,
         lock' = "tick", pending'[b].status # "PAUSED_BY_RISK"
  PROVE  pending'[b].book.today <= loaded[b].setting.daily_max_trade_amount
<1>1. /\ TickFail \/ TickAct
      /\ phase \in {"await", "blocked"}
  <2>1. pending[b].book.rows \in Nat
    BY DEF TypeInv, TypeOK, BotRows, Books
  <2> QED
    BY <2>1, PendingChanges, Midnight
<1> DEFINE s == loaded[cur].setting
           limit == RemainingAmount(s)
<1>2. /\ cur \in Bots /\ cur \in DOMAIN loaded
      /\ s \in Settings /\ trader \in Books
      /\ pending[cur].book \in Books
      /\ pending[cur].book.rows \in Nat /\ pending[cur].book.today \in Nat
      /\ s.daily_max_trade_amount \in Int
  BY <1>1 DEF TypeInv, TypeOK, TurnInv, Views, BotRows, Books, Settings
<1>3. limit \in Int /\ pending[cur].book.today + limit = s.daily_max_trade_amount
  BY <1>2 DEF RemainingAmount, TodayAmount
<1>4. PICK t \in Tickers :
        \/ TickWrite("PAUSED_BY_RISK", ManualSell(s, trader, t.bid, None))
        \/ \E signal \in Signals, price \in {t.ask, t.bid} :
             TickWrite("RUNNING", Execute(s, trader, signal, price, limit))
  <2>1. pending'[cur].book.rows # pending[cur].book.rows
    BY <1>2
  <2> QED
    BY <1>1, <2>1, TickRows
<1>5. t.ask \in Nat \ {0} /\ t.bid \in Nat \ {0}
  BY QuoteType
<1> HIDE DEF s, limit
<1>6. ~TickWrite("PAUSED_BY_RISK", ManualSell(s, trader, t.bid, None))
  <2>1. ManualSell(s, trader, t.bid, None) \in TradeRows
    BY <1>2, <1>5, ManualSellRow DEF SaleRows
  <2> QED
    BY <1>1, <2>1, TickWriteEffect DEF Statuses
<1>7. PICK signal \in Signals, price \in {t.ask, t.bid} :
        TickWrite("RUNNING", Execute(s, trader, signal, price, limit))
  BY <1>4, <1>6
<1> DEFINE row == Execute(s, trader, signal, price, limit)
<1>8. /\ row \in TradeRows
      /\ row = NoTrade \/ row.price * row.volume <= limit
  BY <1>2, <1>3, <1>5, ExecuteRow
<1>9. pending'[cur].book = Record(pending[cur].book, row)
  BY <1>1, <1>7, <1>8, TickWriteEffect DEF Statuses
<1> HIDE DEF row
<1>10. /\ row.side # "NONE"
       /\ pending'[cur].book.today = pending[cur].book.today + row.price * row.volume
  BY <1>2, <1>8, <1>9, RecordSums
<1>11. row.price * row.volume \in Int /\ row.price * row.volume <= limit
  BY <1>8, <1>10 DEF TradeRows, NoTrade
<1> QED
  BY <1>2, <1>3, <1>10, <1>11 DEF s

\* The daily limit on a tick's own orders holds whatever requests trade while it
\* awaits its quotes.
THEOREM DailyCapHolds == Spec => DailyCap
<1>1. TypeInv /\ LockInv /\ [Next]_vars =>
        [\A b \in Bots :
           (/\ phase # "idle" /\ cur = b
            /\ pending'[b].book.rows > pending[b].book.rows
            /\ lock' = "tick"
            /\ pending'[b].status # "PAUSED_BY_RISK")
             => pending'[b].book.today
                  <= loaded[b].setting.daily_max_trade_amount]_vars
  BY CapStep
<1>2. CoreInv => TypeInv /\ LockInv
  BY DEF CoreInv, TypeInv
<1> QED
  BY <1>1, <1>2, CoreInvariance, PTL DEF Spec, DailyCap

\* What the committed bots become in a step: nothing new in status and settings,
\* or what the open transaction has for them.
LEMMA CommitChanges ==
  ASSUME TypeInv, LockInv, [Next]_vars
  PROVE  \/ \A b \in Bots : /\ db'[b].status = db[b].status
                            /\ db'[b].setting = db[b].setting
         \/ lock = "tick" /\ db' = pending
         \/ \E r \in Requests : lock = r /\ req[r].pc = "exiting" /\ db' = pending
<1>1. CASE NextDay
  BY <1>1, Midnight
<1>2. CASE PassEnd
  BY <1>2 DEF PassEnd, PassView
<1>3. CASE \E r \in Requests : ReqStep(r)
  <2>1. ASSUME NEW r \in Requests, ReqCommit(r)
        PROVE  lock = r /\ req[r].pc = "exiting" /\ db' = pending
    BY <2>1 DEF ReqCommit, LockInv
  <2> QED
    BY <1>3, <2>1 DEF ReqStep, ReqWrite, ReqTimeout, ReqExit
<1>4. CASE TickFail \/ TickAct
  BY <1>4 DEF TickFail, TickAct
<1>5. CASE \E r \in Requests, b \in Bots : ReqArrive(r, b)
  BY <1>5 DEF ReqArrive, Start, Stop, UpdateSettings, SellNow, ReqRead
<1> QED
  BY <1>1, <1>2, <1>3, <1>4, <1>5
     DEF Next, TickStep, PassStart, TickRead, TickBlock, TickTimeout, Crash, vars

\* A bot that is not running is made running by the commit of a request that found
\* it not running and starts it, and by nothing else: what the pass and the other
\* requests have read as RUNNING they never write back.
THEOREM NothingResurrects == Spec => NoResurrection
<1>1. ASSUME TypeInv, LockInv, MergeInv, [Next]_vars, NEW b \in Bots,
             db[b].status # "RUNNING", db'[b].status = "RUNNING"
      PROVE  \E r \in Requests : /\ req[r].pc = "exiting"
                                /\ req[r].bot = b
                                /\ req[r].old.status # "RUNNING"
                                /\ req[r].new.status = "RUNNING"
  <2>1. PICK r \in Requests : /\ lock = r /\ req[r].bot = b
                              /\ req[r].old.status # "RUNNING"
                              /\ req[r].new.status = "RUNNING"
    BY <1>1, CommitChanges DEF MergeInv
  <2>2. req[r].pc = "exiting"
    BY <1>1, <2>1, CommitChanges, LockAssumption
  <2> QED
    BY <2>1, <2>2
<1>2. CoreInv => TypeInv /\ LockInv /\ MergeInv
  BY DEF CoreInv, TypeInv
<1>3. CoreInv /\ [Next]_vars =>
        [\A b \in Bots :
           (db[b].status # "RUNNING" /\ db'[b].status = "RUNNING")
             => \E r \in Requests : /\ req[r].pc = "exiting"
                                    /\ req[r].bot = b
                                    /\ req[r].old.status # "RUNNING"
                                    /\ req[r].new.status = "RUNNING"]_vars
  BY <1>1, <1>2
<1> QED
  BY <1>3, CoreInvariance, PTL DEF Spec, NoResurrection

\* Settings change by the commit of a request that saved other ones and by
\* nothing else: no pass, start, stop or sale writes back what it read.
THEOREM SettingsAreKept == Spec => SettingsSurvive
<1>1. ASSUME TypeInv, LockInv, MergeInv, [Next]_vars, NEW b \in Bots,
             db'[b].setting # db[b].setting
      PROVE  \E r \in Requests : /\ req[r].pc = "exiting"
                                /\ req[r].bot = b
                                /\ req[r].new.setting # req[r].old.setting
  <2>1. PICK r \in Requests : /\ lock = r /\ req[r].bot = b
                              /\ req[r].new.setting # req[r].old.setting
    BY <1>1, CommitChanges DEF MergeInv
  <2>2. req[r].pc = "exiting"
    BY <1>1, <2>1, CommitChanges, LockAssumption
  <2> QED
    BY <2>1, <2>2
<1>2. CoreInv => TypeInv /\ LockInv /\ MergeInv
  BY DEF CoreInv, TypeInv
<1>3. CoreInv /\ [Next]_vars =>
        [\A b \in Bots :
           db'[b].setting # db[b].setting
             => \E r \in Requests : /\ req[r].pc = "exiting"
                                    /\ req[r].bot = b
                                    /\ req[r].new.setting # req[r].old.setting]_vars
  BY <1>1, <1>2
<1> QED
  BY <1>3, CoreInvariance, PTL DEF Spec, SettingsSurvive
===============================================================================
