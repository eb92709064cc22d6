------------------------------ MODULE Lifecycle ------------------------------
(***************************************************************************)
(* What the users of the bots are promised: a bot has a status, settings   *)
(* and an account; an operation of a user takes effect at once and on one  *)
(* of them only; a pass trades at most once on each bot, on running bots,  *)
(* and at most once more on a bot that has left RUNNING; every trade is at *)
(* a price that was quoted or asked for; a saved column has the value of   *)
(* one request.                                                            *)
(*                                                                         *)
(* There are no sessions, locks or awaits here.  BotService implements     *)
(* this specification under a mapping from what is committed.              *)
(***************************************************************************)
EXTENDS Integers

CONSTANTS
  Bots, DefaultSetting, InitialBalance,
  SavedSettings,   \* the settings users may ask for
  Asks, Bids,      \* the prices the market may quote
  SellPrices       \* the prices users may sell at

VARIABLES
  status,     \* per bot, its bot_status
  setting,    \* per bot, its settings
  account,    \* per bot, krw, usdt, the number of trades and the USDT that
              \* were sold without being held
  grace       \* the bots on which a pass may still trade once, running or not

vars == <<status, setting, account, grace>>

Init ==
  /\ status = [b \in Bots |-> "STOPPED"]
  /\ setting = [b \in Bots |-> DefaultSetting]
  /\ account = [b \in Bots |-> [krw |-> InitialBalance, usdt |-> 0,
                               rows |-> 0, short |-> 0]]
  /\ grace = Bots

\* One more trade.  USDT are paid in full, from KRW the account has.
Purchase(before, after) ==
  /\ after.rows = before.rows + 1
  /\ after.usdt > before.usdt
  /\ after.short = before.short
  /\ \E price \in Asks :
       after.krw + price * (after.usdt - before.usdt) <= before.krw
  /\ after.krw >= 0

\* KRW come for USDT sold only, the ones that were not held included, and for
\* no more than a price in use makes of them.
Sale(before, after, prices) ==
  /\ after.rows = before.rows + 1
  /\ after.usdt <= before.usdt
  /\ after.short >= before.short
  /\ after.krw >= before.krw
  /\ \E price \in prices :
       after.krw <= before.krw + price * ((before.usdt - after.usdt)
                                          + (after.short - before.short))

\* Settings of which some columns, or all, have become those of s.
Merged(before, after, s) ==
  /\ DOMAIN after = DOMAIN before
  /\ \A c \in DOMAIN before : after[c] \in {before[c], s[c]}

\* POST /bot/start: RUNNING, or ERROR for a bot in live mode.
Start(b) ==
  /\ \/ /\ status' = [status EXCEPT ![b] = "RUNNING"]
        /\ grace' = grace \cup {b}
     \/ /\ status' = [status EXCEPT ![b] = "ERROR"]
        /\ UNCHANGED grace
  /\ UNCHANGED <<setting, account>>

\* POST /bot/stop.
Stop(b) ==
  /\ status' = [status EXCEPT ![b] = "STOPPED"]
  /\ UNCHANGED <<setting, account, grace>>

\* PUT /bot/settings.
Save(b) ==
  /\ setting' = [setting EXCEPT ![b] = setting'[b]]
  /\ \E s \in SavedSettings : Merged(setting[b], setting'[b], s)
  /\ UNCHANGED <<status, account, grace>>

\* POST /bot/manual-sell.
Sell(b) ==
  /\ account' = [account EXCEPT ![b] = account'[b]]
  /\ Sale(account[b], account'[b], SellPrices)
  /\ UNCHANGED <<status, setting, grace>>

\* What a pass may do to a bot: leave it alone; pause it or put it into ERROR;
\* trade once.  A trade that comes with the pause is the loss cut's, of all.
Handled(b) ==
  /\ status'[b] \in {status[b], "PAUSED_BY_RISK", "ERROR"}
  /\ \/ account'[b] = account[b]
     \/ /\ status[b] = "RUNNING" \/ b \in grace
        /\ \/ Purchase(account[b], account'[b])
           \/ Sale(account[b], account'[b], Bids)
        /\ status'[b] = "PAUSED_BY_RISK" => account'[b].usdt = 0

\* A pass: all bots together, or none of them.
Pass ==
  /\ status' = [b \in Bots |-> status'[b]]
  /\ account' = [b \in Bots |-> account'[b]]
  /\ \A b \in Bots : Handled(b)
  /\ grace' = {b \in grace : status[b] = "RUNNING" \/ account'[b] = account[b]}
  /\ UNCHANGED setting

Next ==
  \/ \E b \in Bots : Start(b) \/ Stop(b) \/ Save(b) \/ Sell(b)
  \/ Pass

Spec == Init /\ [][Next]_vars
===============================================================================
