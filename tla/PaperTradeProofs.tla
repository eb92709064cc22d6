--------------------------- MODULE PaperTradeProofs ---------------------------
(***************************************************************************)
(* What the order sizing and the replay of PaperTrade guarantee, for every *)
(* setting, portfolio and price.                                           *)
(***************************************************************************)
EXTENDS PaperTrade, TLAPS

\* A sale's proceeds pay for its fee.
SalePays(row) == row.fee <= row.price * row.volume

\* A buy is of something, and is paid with its fee from the portfolio's KRW.
Affordable(row, portfolio) ==
  row.volume > 0 /\ row.price * row.volume + row.fee <= portfolio.krw

\* An amount divided by a price and multiplied again is at most the amount.
LEMMA Division ==
  ASSUME NEW x \in Int, NEW p \in Nat \ {0}
  PROVE  /\ x \div p \in Int
         /\ p * (x \div p) <= x
         /\ x >= 0 => x \div p >= 0
  OBVIOUS

\* A fee is between nothing and the whole amount (fee_rate_per_side).
LEMMA FeeBounds ==
  ASSUME NEW s \in Settings, NEW amount \in Nat
  PROVE  Fee(s, amount) \in Nat /\ Fee(s, amount) <= amount
<1> DEFINE rate == s.round_trip_fee_rate
<1>1. rate \in 0..200
  BY DEF Settings
<1>2. /\ (amount * rate) \div 200 \in Nat
      /\ (amount * rate) \div 200 <= amount
  BY <1>1
<1> QED
  BY <1>2 DEF Fee

LEMMA NoTradeType == NoTrade \in SaleRows
  BY DEF NoTrade, SaleRows, TradeRows

\* A sale row is for the volume asked, if that is more than nothing, and its fee
\* is paid from its proceeds.
LEMMA SellVolumeRow ==
  ASSUME NEW s \in Settings, NEW price \in Nat, NEW volume \in Int
  PROVE  /\ SellVolume(s, price, volume) \in SaleRows
         /\ SalePays(SellVolume(s, price, volume))
         /\ SellVolume(s, price, volume).side = "SELL" =>
              /\ SellVolume(s, price, volume).price = price
              /\ SellVolume(s, price, volume).volume = volume
              /\ volume > 0
<1>1. CASE volume <= 0
  BY <1>1, NoTradeType DEF SellVolume, NoTrade, SalePays
<1>2. CASE volume > 0
  <2> DEFINE gross == price * volume
  <2>1. gross \in Nat
    BY <1>2
  <2>2. Fee(s, gross) \in Nat /\ Fee(s, gross) <= gross
    BY <2>1, FeeBounds
  <2>3. SellVolume(s, price, volume) = Row(s, "SELL", price, volume, Fee(s, gross))
    BY <1>2 DEF SellVolume
  <2>4. s.trade_mode \in {"paper", "live"}
    BY DEF Settings
  <2> QED
    BY <1>2, <2>2, <2>3, <2>4 DEF Row, SaleRows, TradeRows, SalePays
<1> QED
  BY <1>1, <1>2

\* A manual sale is of no more than the portfolio holds, of all of it if no
\* volume is given.
LEMMA ManualSellRow ==
  ASSUME NEW s \in Settings, NEW portfolio \in Books, NEW price \in Nat,
         NEW volume \in Int \cup {None}
  PROVE  /\ ManualSell(s, portfolio, price, volume) \in SaleRows
         /\ SalePays(ManualSell(s, portfolio, price, volume))
         /\ ManualSell(s, portfolio, price, volume).side = "SELL" =>
              /\ ManualSell(s, portfolio, price, volume).price = price
              /\ ManualSell(s, portfolio, price, volume).volume <= portfolio.usdt
              /\ volume = None =>
                   ManualSell(s, portfolio, price, volume).volume = portfolio.usdt
<1>1. portfolio.usdt \in Nat
  BY DEF Books
<1>2. CASE portfolio.usdt <= 0
  BY <1>1, <1>2, NoTradeType DEF ManualSell, NoTrade, SalePays
<1>3. CASE portfolio.usdt > 0
  <2> DEFINE target == IF volume = None THEN portfolio.usdt
                                        ELSE AtMost(volume, portfolio.usdt)
  <2>1. /\ target \in Int /\ target <= portfolio.usdt
        /\ volume = None => target = portfolio.usdt
    BY <1>1 DEF AtMost
  <2>2. ManualSell(s, portfolio, price, volume) = SellVolume(s, price, target)
    BY <1>1, <1>3 DEF ManualSell
  <2> HIDE DEF target
  <2>3. /\ SellVolume(s, price, target) \in SaleRows
        /\ SalePays(SellVolume(s, price, target))
        /\ SellVolume(s, price, target).side = "SELL" =>
             /\ SellVolume(s, price, target).price = price
             /\ SellVolume(s, price, target).volume = target
    BY <2>1, SellVolumeRow
  <2> QED
    BY <2>1, <2>2, <2>3
<1> QED
  BY <1>1, <1>2, <1>3

\* A tick's sale is of something, of no more than is held and of no more than the
\* limit.
LEMMA SellRow ==
  ASSUME NEW s \in Settings, NEW portfolio \in Books, NEW price \in Nat \ {0},
         NEW limit \in Int
  PROVE  /\ Sell(s, portfolio, price, limit) \in SaleRows
         /\ SalePays(Sell(s, portfolio, price, limit))
         /\ Sell(s, portfolio, price, limit).side = "SELL" =>
              /\ Sell(s, portfolio, price, limit).price = price
              /\ Sell(s, portfolio, price, limit).volume <= portfolio.usdt
              /\ Sell(s, portfolio, price, limit).volume > 0
              /\ Sell(s, portfolio, price, limit).price
                   * Sell(s, portfolio, price, limit).volume <= limit
<1>1. portfolio.usdt \in Nat
  BY DEF Books
<1>2. CASE portfolio.usdt <= 0
  BY <1>1, <1>2, NoTradeType DEF Sell, NoTrade, SalePays
<1>3. CASE portfolio.usdt > 0
  <2> DEFINE volume == AtMost(portfolio.usdt, limit \div price)
  <2>1. limit \div price \in Int /\ price * (limit \div price) <= limit
    BY Division
  <2>2. volume \in Int /\ volume <= portfolio.usdt /\ volume <= limit \div price
    BY <1>1, <2>1 DEF AtMost
  <2>3. price * volume <= price * (limit \div price)
    BY <2>1, <2>2
  <2>4. price * volume <= limit
    BY <2>1, <2>2, <2>3
  <2>5. Sell(s, portfolio, price, limit) = SellVolume(s, price, volume)
    BY <1>1, <1>3, NoneAssumption DEF Sell, OrderLimit
  <2> HIDE DEF volume
  <2>6. /\ SellVolume(s, price, volume) \in SaleRows
        /\ SalePays(SellVolume(s, price, volume))
        /\ SellVolume(s, price, volume).side = "SELL" =>
             /\ SellVolume(s, price, volume).price = price
             /\ SellVolume(s, price, volume).volume = volume
             /\ volume > 0
    BY <2>2, SellVolumeRow
  <2> QED
    BY <2>2, <2>4, <2>5, <2>6
<1> QED
  BY <1>1, <1>2, <1>3

\* A buy pays its cost and its fee from the KRW held, and from the limit.
LEMMA BuyRow ==
  ASSUME NEW s \in Settings, NEW portfolio \in Books, NEW price \in Nat \ {0},
         NEW limit \in Int
  PROVE  /\ Buy(s, portfolio, price, limit) \in TradeRows
         /\ \/ Buy(s, portfolio, price, limit) = NoTrade
            \/ /\ Buy(s, portfolio, price, limit).side = "BUY"
               /\ Buy(s, portfolio, price, limit).price = price
               /\ Affordable(Buy(s, portfolio, price, limit), portfolio)
               /\ Buy(s, portfolio, price, limit).price
                    * Buy(s, portfolio, price, limit).volume <= limit
<1> DEFINE amount == AtMost(limit, portfolio.krw)
           fee    == Fee(s, amount)
           volume == (amount - fee) \div price
<1>1. portfolio.krw \in Int
  BY DEF Books
<1>2. amount \in Int /\ amount <= limit /\ amount <= portfolio.krw
  BY <1>1 DEF AtMost
<1>3. OrderLimit(s, limit) = limit
  BY NoneAssumption DEF OrderLimit
<1>4. CASE amount <= 0 \/ volume <= 0
  <2>1. Buy(s, portfolio, price, limit) = NoTrade
    BY <1>3, <1>4 DEF Buy
  <2> QED
    BY <2>1 DEF NoTrade, TradeRows
<1>5. CASE ~(amount <= 0 \/ volume <= 0)
  <2>1. amount \in Nat
    BY <1>2, <1>5
  <2>2. fee \in Nat /\ fee <= amount
    BY <2>1, FeeBounds
  <2>3. volume \in Int /\ price * volume <= amount - fee
    <3>1. amount - fee \in Nat
      BY <2>1, <2>2
    <3> QED
      BY ONLY <3>1, price \in Nat \ {0}, Division
  <2>4. Buy(s, portfolio, price, limit) = Row(s, "BUY", price, volume, fee)
    BY <1>3, <1>5 DEF Buy
  <2>5. s.trade_mode \in {"paper", "live"}
    BY DEF Settings
  <2>6. volume \in Nat /\ volume > 0
    BY <1>5, <2>3
  <2> HIDE DEF amount, fee, volume
  <2>7. /\ price * volume \in Nat
        /\ price * volume + fee <= portfolio.krw
        /\ price * volume <= limit
    BY <1>1, <1>2, <2>2, <2>3, <2>6
  <2> QED
    BY <2>2, <2>4, <2>5, <2>6, <2>7 DEF Row, TradeRows, Affordable
<1> QED
  BY <1>4, <1>5

\* Whatever the signal, a tick's order costs no more than the KRW held, or sells
\* some of what is held, and its amount stays within the limit.
LEMMA ExecuteRow ==
  ASSUME NEW s \in Settings, NEW portfolio \in Books, NEW price \in Nat \ {0},
         NEW limit \in Int, NEW signal
  PROVE  /\ Execute(s, portfolio, signal, price, limit) \in TradeRows
         /\ \/ Execute(s, portfolio, signal, price, limit) = NoTrade
            \/ /\ \/ /\ signal = "BUY"
                     /\ Execute(s, portfolio, signal, price, limit).side = "BUY"
                     /\ Affordable(Execute(s, portfolio, signal, price, limit),
                                   portfolio)
                  \/ /\ signal = "SELL"
                     /\ Execute(s, portfolio, signal, price, limit) \in SaleRows
                     /\ SalePays(Execute(s, portfolio, signal, price, limit))
                     /\ Execute(s, portfolio, signal, price, limit).volume
                          <= portfolio.usdt
                     /\ Execute(s, portfolio, signal, price, limit).volume > 0
               /\ Execute(s, portfolio, signal, price, limit).price = price
               /\ Execute(s, portfolio, signal, price, limit).price
                    * Execute(s, portfolio, signal, price, limit).volume <= limit
<1> DEFINE row == Execute(s, portfolio, signal, price, limit)
<1>1. CASE signal = "BUY"
  <2>1. row = Buy(s, portfolio, price, limit)
    BY <1>1 DEF Execute
  <2>2. /\ row \in TradeRows
        /\ row = NoTrade \/ /\ row.side = "BUY" /\ row.price = price
                            /\ Affordable(row, portfolio)
                            /\ row.price * row.volume <= limit
    BY <2>1, BuyRow
  <2> HIDE DEF row
  <2> SUFFICES /\ row \in TradeRows
               /\ row = NoTrade \/ /\ row.side = "BUY" /\ row.price = price
                                   /\ Affordable(row, portfolio)
                                   /\ row.price * row.volume <= limit
    BY <1>1, Zenon DEF row
  <2> QED
    BY <2>2
<1>2. CASE signal = "SELL"
  <2>1. row = Sell(s, portfolio, price, limit)
    BY <1>2 DEF Execute
  <2>2. /\ row \in SaleRows
        /\ SalePays(row)
        /\ row.side = "SELL" => /\ row.price = price
                                /\ row.price * row.volume <= limit
                                /\ row.volume <= portfolio.usdt
                                /\ row.volume > 0
    BY <2>1, SellRow
  <2>3. row = NoTrade \/ row.side = "SELL"
    BY <2>1 DEF Sell, SellVolume, Row
  <2> HIDE DEF row
  <2>4. row \in TradeRows
    BY <2>2 DEF SaleRows
  <2> SUFFICES /\ row \in TradeRows
               /\ row = NoTrade \/ /\ row \in SaleRows /\ SalePays(row)
                                   /\ row.volume <= portfolio.usdt
                                   /\ row.volume > 0
                                   /\ row.price = price
                                   /\ row.price * row.volume <= limit
    BY <1>2, Zenon DEF row
  <2> QED
    BY <2>2, <2>3, <2>4
<1>3. CASE signal \notin {"BUY", "SELL"}
  BY <1>3, NoTradeType DEF Execute, SaleRows
<1> QED
  BY <1>1, <1>2, <1>3

-------------------------------------------------------------------------------
\* A table with one more row is still one, whatever was sold: a balance that
\* the rows sell below zero is replayed as zero (_restore_from_trades).
LEMMA RecordType ==
  ASSUME NEW book \in Books, NEW row \in TradeRows,
         row.side = "BUY" => row.volume > 0
  PROVE  Record(book, row) \in Books
<1> DEFINE cost == row.price * row.volume
<1>1. /\ book.krw \in Int /\ book.usdt \in Nat /\ book.avg \in Nat
      /\ book.today \in Nat /\ book.rows \in Nat /\ book.live \in Nat
      /\ book.short \in Nat
  BY DEF Books
<1>2. /\ row.price \in Nat /\ row.volume \in Nat /\ row.fee \in Nat
      /\ row.side \in {"NONE", "BUY", "SELL"}
  BY DEF TradeRows
<1>3. cost \in Nat
  BY <1>2
<1>4. ASSUME NEW replayed \in Books
      PROVE  [replayed EXCEPT
                !.today = @ + cost, !.rows = @ + 1,
                !.live = IF row.trade_mode = "live" THEN @ + 1 ELSE @] \in Books
  <2> DEFINE today == replayed.today + cost
             rows  == replayed.rows + 1
             live  == IF row.trade_mode = "live" THEN replayed.live + 1
                                                 ELSE replayed.live
  <2>1. today \in Nat /\ rows \in Nat /\ live \in Nat
    BY <1>3 DEF Books
  <2> HIDE DEF today, rows, live
  <2>2. [replayed EXCEPT !.today = today, !.rows = rows, !.live = live] \in Books
    BY <2>1 DEF Books
  <2> QED
    BY <2>2 DEF today, rows, live
<1>5. CASE row.side = "BUY"
  <2> DEFINE usdt == book.usdt + row.volume
             avg  == (book.avg * book.usdt + cost) \div usdt
  <2>1. usdt \in Nat \ {0}
    BY <1>1, <1>2, <1>5
  <2>2. book.avg * book.usdt + cost \in Nat
    BY <1>1, <1>3
  <2>3. avg \in Nat
    BY <2>1, <2>2, Division
  <2>4. book.krw - (cost + row.fee) \in Int
    BY <1>1, <1>2, <1>3
  <2> DEFINE krw == book.krw - (cost + row.fee)
  <2>5. ReplayBuy(book, row) =
          [book EXCEPT !.krw = krw, !.usdt = usdt, !.avg = avg]
    BY DEF ReplayBuy
  <2> HIDE DEF krw, usdt, avg
  <2>6. [book EXCEPT !.krw = krw, !.usdt = usdt, !.avg = avg] \in Books
    BY <2>1, <2>3, <2>4 DEF krw, Books
  <2>7. ReplayBuy(book, row) \in Books
    BY <2>5, <2>6
  <2> QED
    BY <1>5, <1>4, <2>7 DEF Record
<1>6. CASE row.side = "SELL"
  <2> DEFINE left == book.usdt - row.volume
  <2>1. book.krw + (cost - row.fee) \in Int
    BY <1>1, <1>2, <1>3
  <2>2. /\ (IF left <= 0 THEN 0 ELSE left) \in Nat
        /\ (IF left <= 0 THEN 0 ELSE book.avg) \in Nat
        /\ (IF left < 0 THEN book.short - left ELSE book.short) \in Nat
    BY <1>1, <1>2
  <2> DEFINE krw   == book.krw + (cost - row.fee)
             usdt  == IF left <= 0 THEN 0 ELSE left
             avg   == IF left <= 0 THEN 0 ELSE book.avg
             short == IF left < 0 THEN book.short - left ELSE book.short
  <2>3. ReplaySell(book, row) =
          [book EXCEPT !.krw = krw, !.usdt = usdt, !.avg = avg, !.short = short]
    BY DEF ReplaySell
  <2>4. krw \in Int /\ usdt \in Nat /\ avg \in Nat /\ short \in Nat
    BY <2>1, <2>2
  <2> HIDE DEF krw, usdt, avg, short
  <2>5. [book EXCEPT !.krw = krw, !.usdt = usdt, !.avg = avg, !.short = short]
          \in Books
    BY <2>4 DEF Books
  <2>6. ReplaySell(book, row) \in Books
    BY <2>3, <2>5
  <2> QED
    BY <1>6, <1>4, <2>6 DEF Record
<1>7. CASE row.side = "NONE"
  BY <1>7 DEF Record
<1> QED
  BY <1>2, <1>5, <1>6, <1>7

\* What a row adds to the aggregates, whichever side it is of.
LEMMA RecordSums ==
  ASSUME NEW book \in Books, NEW row \in TradeRows
  PROVE  /\ row.side # "NONE" =>
              /\ Record(book, row).today = book.today + row.price * row.volume
              /\ Record(book, row).rows = book.rows + 1
         /\ row.side = "NONE" => Record(book, row) = book
  BY DEF Record, ReplayBuy, ReplaySell, Books, TradeRows

\* A sale that pays for its fee only adds KRW.
LEMMA RecordSale ==
  ASSUME NEW book \in Books, NEW row \in SaleRows, SalePays(row)
  PROVE  Record(book, row).krw >= book.krw
<1>1. /\ row \in TradeRows
      /\ row.side \in {"NONE", "SELL"}
      /\ row.price \in Nat /\ row.volume \in Nat /\ row.fee \in Nat
  BY DEF SaleRows, TradeRows
<1>2. book.krw \in Int
  BY DEF Books
<1>3. CASE row.side = "SELL"
  <2>1. Record(book, row).krw = book.krw + (row.price * row.volume - row.fee)
    BY <1>3 DEF Record, ReplaySell, Books
  <2> QED
    BY <1>1, <1>2, <2>1 DEF SalePays
<1>4. CASE row.side = "NONE"
  BY <1>2, <1>4 DEF Record
<1> QED
  BY <1>1, <1>3, <1>4

\* A buy that an older portfolio could afford leaves KRW in a book that has no
\* less of it.
LEMMA RecordBuy ==
  ASSUME NEW book \in Books, NEW portfolio \in Books, NEW row \in TradeRows,
         row.side = "BUY", Affordable(row, portfolio), portfolio.krw <= book.krw
  PROVE  Record(book, row).krw >= 0
<1>1. Record(book, row).krw = book.krw - (row.price * row.volume + row.fee)
  BY DEF Record, ReplayBuy, Books
<1>2. /\ book.krw \in Int /\ portfolio.krw \in Int
      /\ row.price * row.volume \in Nat /\ row.fee \in Nat
  BY DEF Books, TradeRows
<1> QED
  BY <1>1, <1>2 DEF Affordable

\* What a sale does: it takes USDT, and all there is if it is of that much; it
\* leaves the average of what it leaves; it adds to the shortfall only if it is of
\* more than there is.  Its proceeds are those of the USDT it takes and of the
\* shortfall it adds.
LEMMA RecordSold ==
  ASSUME NEW book \in Books, NEW row \in SaleRows, SalePays(row),
         row.side = "SELL"
  PROVE  /\ Record(book, row).rows = book.rows + 1
         /\ Record(book, row).krw >= book.krw
         /\ Record(book, row).usdt \in 0..book.usdt
         /\ row.volume >= book.usdt => Record(book, row).usdt = 0
         /\ row.volume > 0 /\ book.usdt > 0 => Record(book, row).usdt < book.usdt
         /\ Record(book, row).usdt = 0 \/ Record(book, row).avg = book.avg
         /\ Record(book, row).short >= book.short
         /\ row.volume <= book.usdt => Record(book, row).short = book.short
         /\ Record(book, row).krw <=
              book.krw + row.price * ((book.usdt - Record(book, row).usdt)
                                      + (Record(book, row).short - book.short))
<1>1. /\ book.usdt \in Nat /\ book.short \in Nat /\ row.volume \in Nat
      /\ row \in TradeRows
  BY DEF Books, SaleRows, TradeRows
<1>2. Record(book, row).usdt
        = IF book.usdt - row.volume <= 0 THEN 0 ELSE book.usdt - row.volume
  BY DEF Record, ReplaySell, Books
<1>3. Record(book, row).short
        = IF book.usdt - row.volume < 0
          THEN book.short - (book.usdt - row.volume) ELSE book.short
  BY DEF Record, ReplaySell, Books
<1>4. (book.usdt - Record(book, row).usdt) + (Record(book, row).short - book.short)
        = row.volume
  BY <1>1, <1>2, <1>3
<1>5. Record(book, row).krw = book.krw + (row.price * row.volume - row.fee)
  BY DEF Record, ReplaySell, Books
<1>6. /\ book.krw \in Int /\ row.fee \in Nat
      /\ row.price * row.volume \in Nat
  BY <1>1 DEF Books, TradeRows
<1>7. Record(book, row).krw <= book.krw + row.price * row.volume
  BY <1>5, <1>6
<1>8. Record(book, row).usdt = 0 \/ Record(book, row).avg = book.avg
  BY DEF Record, ReplaySell, Books
<1> QED
  BY <1>1, <1>2, <1>3, <1>4, <1>7, <1>8, RecordSums, RecordSale

\* What an order to buy does: it adds USDT and takes at least their price.
LEMMA RecordBought ==
  ASSUME NEW book \in Books, NEW row \in TradeRows,
         row.side = "BUY", row.volume > 0
  PROVE  /\ Record(book, row).rows = book.rows + 1
         /\ Record(book, row).krw
              + row.price * (Record(book, row).usdt - book.usdt) <= book.krw
         /\ Record(book, row).usdt > book.usdt
         /\ Record(book, row).short = book.short
<1>1. /\ book.usdt \in Nat /\ book.krw \in Int
      /\ row.volume \in Nat /\ row.price * row.volume \in Nat /\ row.fee \in Nat
  BY DEF Books, TradeRows
<1>2. Record(book, row).usdt = book.usdt + row.volume
  BY DEF Record, ReplayBuy, Books
<1>3. Record(book, row).krw = book.krw - (row.price * row.volume + row.fee)
  BY DEF Record, ReplayBuy, Books
<1>4. Record(book, row).short = book.short
  BY DEF Record, ReplayBuy, Books
<1>5. Record(book, row).usdt - book.usdt = row.volume
  BY <1>1, <1>2
<1>6. Record(book, row).krw + row.price * row.volume <= book.krw
  BY <1>1, <1>3
<1> QED
  BY <1>1, <1>2, <1>4, <1>5, <1>6, RecordSums

\* A multiple of the divisor that is not above the dividend bounds the quotient.
LEMMA Quotient ==
  ASSUME NEW x \in Nat, NEW n \in Nat \ {0}, NEW m \in Nat
  PROVE  /\ n * m <= x => m <= x \div n
         /\ x <= n * m => x \div n <= m
<1> DEFINE q == x \div n
<1>1. q \in Nat /\ n * q <= x /\ x < n * (q + 1)
  <2>1. q \in Int /\ n * q + (x % n) = x /\ x % n \in 0..(n - 1)
    OBVIOUS
  <2>2. q >= 0
    BY Division
  <2>3. n * (q + 1) = n * q + n
    BY <2>1
  <2> QED
    BY <2>1, <2>2, <2>3
<1> HIDE DEF q
<1>2. ASSUME n * m <= x, m > q PROVE FALSE
  <2>1. n * (q + 1) <= n * m
    BY <1>1, <1>2
  <2> QED
    BY <1>1, <1>2, <2>1
<1>3. ASSUME x <= n * m, q > m PROVE FALSE
  <2>1. n * (m + 1) <= n * q
    BY <1>1, <1>3
  <2>2. n * (m + 1) = n * m + n
    OBVIOUS
  <2> QED
    BY <1>1, <1>3, <2>1, <2>2
<1> QED
  BY <1>1, <1>2, <1>3 DEF q

\* The average after a buy lies between any bounds of the average before it and
\* of the price paid; a sale leaves it, or leaves nothing.
LEMMA RecordAverage ==
  ASSUME NEW book \in Books, NEW row \in TradeRows,
         row.side = "BUY" => row.volume > 0,
         NEW low \in Nat, NEW high \in Nat,
         book.usdt > 0 => low <= book.avg /\ book.avg <= high,
         row.side = "BUY" => low <= row.price /\ row.price <= high,
         Record(book, row).usdt > 0
  PROVE  low <= Record(book, row).avg /\ Record(book, row).avg <= high
<1>1. /\ book.usdt \in Nat /\ book.avg \in Nat
      /\ row.price \in Nat /\ row.volume \in Nat
      /\ row.side \in {"NONE", "BUY", "SELL"}
  BY DEF Books, TradeRows
<1>2. CASE row.side = "BUY"
  <2> DEFINE held == book.avg * book.usdt
             cost == row.price * row.volume
             usdt == book.usdt + row.volume
  <2>1. usdt \in Nat \ {0} /\ held \in Nat /\ cost \in Nat
    BY <1>1, <1>2
  <2>2. low * book.usdt <= held /\ held <= high * book.usdt
    BY <1>1
  <2>3. low * row.volume <= cost /\ cost <= high * row.volume
    BY <1>1, <1>2
  <2>4. /\ usdt * low = low * book.usdt + low * row.volume
        /\ usdt * high = high * book.usdt + high * row.volume
    BY <1>1
  <2>5. Record(book, row).avg = (held + cost) \div usdt
    BY <1>2 DEF Record, ReplayBuy, Books
  <2>6. /\ low * book.usdt \in Nat /\ low * row.volume \in Nat
        /\ high * book.usdt \in Nat /\ high * row.volume \in Nat
    BY <1>1
  <2> HIDE DEF held, cost, usdt
  <2>7. held + cost \in Nat /\ usdt * low <= held + cost
        /\ held + cost <= usdt * high
    BY <2>1, <2>2, <2>3, <2>4, <2>6
  <2> QED
    BY <2>1, <2>5, <2>7, Quotient
<1>3. CASE row.side = "SELL"
  <2>1. Record(book, row).usdt
          = IF book.usdt - row.volume <= 0 THEN 0 ELSE book.usdt - row.volume
    BY <1>3 DEF Record, ReplaySell, Books
  <2>2. Record(book, row).avg
          = IF book.usdt - row.volume <= 0 THEN 0 ELSE book.avg
    BY <1>3 DEF Record, ReplaySell, Books
  <2> QED
    BY <1>1, <2>1, <2>2
<1>4. CASE row.side = "NONE"
  BY <1>4, RecordSums
<1> QED
  BY <1>1, <1>2, <1>3, <1>4
===============================================================================
