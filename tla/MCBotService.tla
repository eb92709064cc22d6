----------------------------- MODULE MCBotService -----------------------------
(* Instances of BotService for TLC: the values its .cfg files choose from.  *)
EXTENDS BotService, TLC

\* Round-trip fee 20%, so that a side costs a tenth; the day allows 20 of the
\* 12 the account starts with, an order is meant to be of 6 at most.
BaseGap ==
  [trade_mode |-> "paper", strategy_type |-> "base_price_gap",
   buy_premium_threshold |-> -10, sell_premium_threshold |-> 10,
   base_price |-> 4, price_gap |-> 1, round_trip_fee_rate |-> 20,
   max_order_amount |-> 6, daily_max_trade_amount |-> 20,
   daily_max_loss_rate |-> -80, base_loss_cut_price |-> None,
   fx_provider |-> "manual", manual_usd_krw_rate |-> 4]

\* The default, as config.yml has it: the premium strategy.
Premium == [BaseGap EXCEPT !.strategy_type = "premium_rebalance",
                           !.base_price = None]

\* A loss cut at 3 of a position larger than an order is meant to be, a rate
\* from the API, and a base price that the request
\* leaves with the other strategy.
LossCutAt3 == [Premium EXCEPT !.base_loss_cut_price = 3, !.fx_provider = "api",
                              !.max_order_amount = 4]
GapAsked   == [BaseGap EXCEPT !.strategy_type = "premium_rebalance"]

\* A rate of 0, a day's limit that a single order reaches, a loss rate that the
\* spread alone reaches or a fee does, and live trading.
ZeroRate  == [Premium EXCEPT !.manual_usd_krw_rate = 0]
SmallDay  == [Premium EXCEPT !.daily_max_trade_amount = 6]
LowLoss   == [Premium EXCEPT !.daily_max_loss_rate = -10]
TightLoss == [Premium EXCEPT !.daily_max_loss_rate = -5]
LivePaper == [Premium EXCEPT !.trade_mode = "live"]

Quote(trade, bid, ask) == [trade |-> trade, bid |-> bid, ask |-> ask]
LowQuote  == Quote(3, 2, 3)
HighQuote == Quote(5, 5, 6)
Quotes    == {LowQuote, HighQuote}

\* A market in which nobody pays more than anybody asks.
FlatQuotes == {LowQuote, Quote(4, 3, 4)}

RequestSymmetry == Permutations(Requests)

ApiRates    == {4}
TwoRates    == {3, 6}
SalePrices  == {4}
LowPrices   == {2}
FlatPrices  == {3}
HighPrices  == {5}
PartVolume  == {1}
PartOrMore  == {1, 4}
WholeVolume == {None}

NoPayload       == {}
RiskPayloads    == {Premium, LossCutAt3, ZeroRate, SmallDay, LowLoss}
SkewPayloads    == {GapAsked, LossCutAt3}
LivePayloads    == {Premium, LivePaper}
===============================================================================
