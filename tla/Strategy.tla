------------------------------- MODULE Strategy -------------------------------
(***************************************************************************)
(* The two trading strategies, as pure operators: what a tick wants to do, *)
(* given the price it was quoted, the exchange rate and the portfolio.     *)
(*                                                                         *)
(* Prices, rates and thresholds are integers; thresholds are percentages.  *)
(* A quotient is compared by multiplying out, which is exact for a         *)
(* positive rate.  "RAISE" stands for the exception the code raises.       *)
(***************************************************************************)
EXTENDS Integers

CONSTANT None                        \* Python's None

ASSUME NoneAssumption == None \notin Int

Signals == {"BUY", "SELL", "HOLD"}

\* The premium of the quoted price over the exchange rate, compared with the
\* two thresholds in the order of the code: buying is tried first.
PremiumRebalance(buy_threshold, sell_threshold, trade_price, usd_krw_rate) ==
  LET gap == 100 * (trade_price - usd_krw_rate)
  IN  CASE usd_krw_rate = None                    -> "HOLD"
        [] usd_krw_rate = 0                       -> "RAISE"
        [] OTHER ->
             IF gap <= buy_threshold * usd_krw_rate THEN "BUY"
             ELSE IF gap >= sell_threshold * usd_krw_rate THEN "SELL"
             ELSE "HOLD"

\* Buys only from an empty position, sells only a position.
BasePriceGap(base_price, price_gap, trade_price, avg_buy_price, usdt_balance) ==
  CASE base_price = None -> "HOLD"
    [] /\ base_price # None
       /\ usdt_balance <= 0
       /\ trade_price <= base_price - price_gap -> "BUY"
    [] /\ base_price # None
       /\ usdt_balance > 0
       /\ trade_price >= avg_buy_price + price_gap -> "SELL"
    [] OTHER -> "HOLD"

\* The strategy the bot is set to, applied to the quote.
Decide(s, portfolio, trade_price, usd_krw_rate) ==
  IF s.strategy_type = "base_price_gap"
  THEN BasePriceGap(s.base_price, s.price_gap, trade_price,
                    portfolio.avg, portfolio.usdt)
  ELSE PremiumRebalance(s.buy_premium_threshold, s.sell_premium_threshold,
                        trade_price, usd_krw_rate)
===============================================================================
