------------------------------ MODULE PaperTrade ------------------------------
(***************************************************************************)
(* Paper trading: how an order is sized against a portfolio, and what one  *)
(* row of the trades table does to the portfolio replayed from that table. *)
(*                                                                         *)
(* The trades table of a bot only ever grows, and the program only reads   *)
(* it through the replay and through the sum of today's amounts.  A book   *)
(* is the table as those readings see it:                                  *)
(*   krw, usdt, avg   the replayed portfolio                               *)
(*   today            today's sum of price * volume                        *)
(*   rows             the number of rows                                   *)
(*   live             how many of them carry trade_mode "live"             *)
(*   short            the volume sold that the replay found not to be held *)
(*                    (the replay sets a negative balance to zero, so this *)
(*                    is visible in the table only)                        *)
(*                                                                         *)
(* Amounts are integers and quotients are truncated; a fee rate is a       *)
(* round-trip percentage, so that a side costs half of it.                 *)
(***************************************************************************)
EXTENDS Strategy

CONSTANT InitialBalance

ASSUME BalanceAssumption == InitialBalance \in Nat \ {0}

\* The columns of trading_bots and bot_settings that steer a tick.
Settings ==
  [trade_mode             : {"paper", "live"},
   strategy_type          : {"premium_rebalance", "base_price_gap"},
   buy_premium_threshold  : Int,
   sell_premium_threshold : Int,
   base_price             : Int \cup {None},
   price_gap              : Int,
   round_trip_fee_rate    : 0..200,
   max_order_amount       : Int,
   daily_max_trade_amount : Int,
   daily_max_loss_rate    : Int,
   base_loss_cut_price    : Int \cup {None},
   fx_provider            : {"manual", "api"},
   manual_usd_krw_rate    : Nat]

Books == [krw : Int, usdt : Nat, avg : Nat, today : Nat, rows : Nat,
          live : Nat, short : Nat]

TradeRows == [side : {"NONE", "BUY", "SELL"}, price : Nat, volume : Nat,
              fee : Nat, trade_mode : {"paper", "live"}]

\* The rows an API request writes: none, or a sale.
SaleRows == {row \in TradeRows : row.side # "BUY"}

EmptyBook == [krw |-> InitialBalance, usdt |-> 0, avg |-> 0,
              today |-> 0, rows |-> 0, live |-> 0, short |-> 0]

\* No row is inserted.
NoTrade == [side |-> "NONE", price |-> 0, volume |-> 0, fee |-> 0,
            trade_mode |-> "paper"]

AtMost(x, y) == IF x <= y THEN x ELSE y

Fee(s, amount) == (amount * s.round_trip_fee_rate) \div 200

TotalAsset(portfolio, mark_price) ==
  portfolio.krw + portfolio.usdt * mark_price

\* A row as _insert_trade writes it; it is stamped with the bot's trade mode.
Row(s, side, price, volume, fee) ==
  [side |-> side, price |-> price, volume |-> volume, fee |-> fee,
   trade_mode |-> s.trade_mode]

SellVolume(s, price, volume) ==
  IF volume <= 0 THEN NoTrade
  ELSE Row(s, "SELL", price, volume, Fee(s, price * volume))

\* Mutants: a volume is not held against the balance; a sale of everything is
\* held against the order limit.
ManualSell_AnyVolume(s, portfolio, price, volume) ==
  IF portfolio.usdt <= 0 THEN NoTrade
  ELSE SellVolume(s, price, IF volume = None THEN portfolio.usdt ELSE volume)

ManualSell_OrderLimit(s, portfolio, price, volume) ==
  IF portfolio.usdt <= 0 THEN NoTrade
  ELSE SellVolume(s, price, AtMost(s.max_order_amount \div price, portfolio.usdt))

\* A manual or forced sale: the whole balance unless a volume is asked for.
ManualSell(s, portfolio, price, volume) ==
  IF portfolio.usdt <= 0 THEN NoTrade
  ELSE SellVolume(s, price,
                  IF volume = None THEN portfolio.usdt
                                   ELSE AtMost(volume, portfolio.usdt))

OrderLimit(s, max_order_amount) ==
  IF max_order_amount = None THEN s.max_order_amount ELSE max_order_amount

\* Mutants: the KRW held does not limit an order; the fee comes on top of it.
Buy_NoKrwLimit(s, portfolio, price, max_order_amount) ==
  LET order_amount == OrderLimit(s, max_order_amount)
      fee          == Fee(s, order_amount)
      volume       == (order_amount - fee) \div price
  IN  IF order_amount <= 0 \/ volume <= 0 THEN NoTrade
      ELSE Row(s, "BUY", price, volume, fee)

Buy_FeeOnTop(s, portfolio, price, max_order_amount) ==
  LET order_amount == AtMost(OrderLimit(s, max_order_amount), portfolio.krw)
      volume       == order_amount \div price
  IN  IF order_amount <= 0 \/ volume <= 0 THEN NoTrade
      ELSE Row(s, "BUY", price, volume, Fee(s, order_amount))

\* An order is limited by its amount and by the KRW held, and pays its fee out
\* of that.  An order too small for one unit of volume is not placed: that case
\* is the truncation's, in floats every positive amount buys something.
Buy(s, portfolio, price, max_order_amount) ==
  LET order_amount == AtMost(OrderLimit(s, max_order_amount), portfolio.krw)
      fee          == Fee(s, order_amount)
      volume       == (order_amount - fee) \div price
  IN  IF order_amount <= 0 \/ volume <= 0 THEN NoTrade
      ELSE Row(s, "BUY", price, volume, fee)

Sell(s, portfolio, price, max_order_amount) ==
  IF portfolio.usdt <= 0 THEN NoTrade
  ELSE SellVolume(s, price,
                  AtMost(portfolio.usdt,
                         OrderLimit(s, max_order_amount) \div price))

Execute(s, portfolio, signal, price, max_order_amount) ==
  CASE signal = "BUY"  -> Buy(s, portfolio, price, max_order_amount)
    [] signal = "SELL" -> Sell(s, portfolio, price, max_order_amount)
    [] OTHER           -> NoTrade

-------------------------------------------------------------------------------
\* The replay of one row.

\* Mutant: the average forgets what was paid for the USDT held before.
ReplayBuy_ForgetsCost(book, row) ==
  LET cost == row.price * row.volume
      usdt == book.usdt + row.volume
  IN  [book EXCEPT !.krw  = @ - (cost + row.fee),
                   !.usdt = usdt,
                   !.avg  = cost \div usdt]

ReplayBuy(book, row) ==
  LET cost == row.price * row.volume
      usdt == book.usdt + row.volume
  IN  [book EXCEPT !.krw  = @ - (cost + row.fee),
                   !.usdt = usdt,
                   !.avg  = (book.avg * book.usdt + cost) \div usdt]

\* Mutant: a balance sold below zero stays negative.
ReplaySell_NoClamp(book, row) ==
  LET left == book.usdt - row.volume
  IN  [book EXCEPT !.krw   = @ + (row.price * row.volume - row.fee),
                   !.usdt  = left,
                   !.avg   = IF left = 0 THEN 0 ELSE @]

\* Mutant: the average is the price of the last trade, be it a sale.
ReplaySell_LastPrice(book, row) ==
  LET left == book.usdt - row.volume
  IN  [book EXCEPT !.krw   = @ + (row.price * row.volume - row.fee),
                   !.usdt  = IF left <= 0 THEN 0 ELSE left,
                   !.avg   = IF left <= 0 THEN 0 ELSE row.price,
                   !.short = IF left < 0 THEN @ - left ELSE @]

ReplaySell(book, row) ==
  LET left == book.usdt - row.volume
  IN  [book EXCEPT !.krw   = @ + (row.price * row.volume - row.fee),
                   !.usdt  = IF left <= 0 THEN 0 ELSE left,
                   !.avg   = IF left <= 0 THEN 0 ELSE @,
                   !.short = IF left < 0 THEN @ - left ELSE @]

\* The table with one more row, as _restore_from_trades and today_trade_amount
\* read it.
Record(book, row) ==
  LET replayed == IF row.side = "BUY" THEN ReplayBuy(book, row)
                                      ELSE ReplaySell(book, row)
  IN  IF row.side = "NONE" THEN book
      ELSE [replayed EXCEPT
              !.today = @ + row.price * row.volume,
              !.rows  = @ + 1,
              !.live  = IF row.trade_mode = "live" THEN @ + 1 ELSE @]
===============================================================================
