----------------------------- MODULE MCDashboard ------------------------------
(* The instance of Dashboard for TLC: one key, of user u1 and the exchange a new
   bot has.  The user selects it or changes the exchange; other clients leave the
   bot of u1 as overlapping saves may: the key beside the other exchange, a base
   price beside the other strategy.  u2 has a new bot and no key: what u2 sees and
   edits is what u1 finds in the form. *)
EXTENDS Dashboard

CONSTANTS u1, u2, key, price

TwoUsers == {u1, u2}
OneKey == {key}
OnUpbit == [k \in OneKey |-> "upbit"]
OfU1 == [k \in OneKey |-> u1]
TheFields == {"exchange", "api_key_id", "strategy_type", "base_price"}
OneHidden == {"neutral_band"}

TheValues ==
  [exchange |-> {"upbit", "bithumb"}, api_key_id |-> {key, None},
   strategy_type |-> {"premium_rebalance", "base_price_gap"},
   base_price |-> {price, None}, neutral_band |-> {"zero", "other"}]

NewBot ==
  [exchange |-> "upbit", api_key_id |-> None, strategy_type |-> "premium_rebalance",
   base_price |-> None, neutral_band |-> "zero"]

BlankForm == [f \in TheFields |-> NewBot[f]]

SomeEdits == {<<"exchange", "bithumb">>, <<"api_key_id", key>>}

SomeSaves ==
  {<<u1, [exchange |-> "bithumb", api_key_id |-> key, strategy_type |-> "premium_rebalance",
          base_price |-> price, neutral_band |-> "other"]>>}
===============================================================================
