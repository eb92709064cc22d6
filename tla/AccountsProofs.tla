---------------------------- MODULE AccountsProofs ----------------------------
(***************************************************************************)
(* Proofs about Accounts, for any number of users, requests and keys.      *)
(*                                                                         *)
(* The argument: what a request writes (Apply) keeps the tables good when  *)
(* it is applied to good tables; the open transaction is Apply of what is  *)
(* committed, because its holder alone can commit; so a commit goes from   *)
(* good tables to good tables, in which everything that was there before   *)
(* still is (Grown), and what requests and clients know stays true.        *)
(***************************************************************************)
EXTENDS Accounts, TLAPS

\* What IInv says of the tables.
Good(d) ==
  /\ d \in Databases
  /\ \A u, v \in DOMAIN d.users : d.users[u].login = d.users[v].login => u = v
  /\ \A b, c \in DOMAIN d.bots : d.bots[b].user = d.bots[c].user => b = c
  /\ \A b \in DOMAIN d.bots :
       d.bots[b].key # None =>
         /\ d.bots[b].key \in DOMAIN d.keys
         /\ d.keys[d.bots[b].key].user = d.bots[b].user
  /\ \A u \in DOMAIN d.users : \E b \in DOMAIN d.bots : d.bots[b].user = u
  /\ \A b \in DOMAIN d.bots : d.bots[b].user \in DOMAIN d.users
  /\ \A k \in DOMAIN d.keys : d.keys[k].user \in DOMAIN d.users

\* e has what d has: its users and keys, and its bots with their users.
Grown(d, e) ==
  /\ \A u \in DOMAIN d.users : u \in DOMAIN e.users /\ e.users[u] = d.users[u]
  /\ \A k \in DOMAIN d.keys : k \in DOMAIN e.keys /\ e.keys[k] = d.keys[k]
  /\ \A b \in DOMAIN d.bots : b \in DOMAIN e.bots /\ e.bots[b].user = d.bots[b].user

Jobs == Registrations \cup KeyCreations \cup Saves

\* What SaveInv says of one request's job, given the tables.
Known(d, j) ==
  /\ j.job \in {"key", "save"} => j.user \in DOMAIN d.users
  /\ j.job = "save" =>
       /\ j.bot \in DOMAIN d.bots
       /\ d.bots[j.bot].user = j.user
       /\ (j.pc \in {"read", "flushed"} /\ j.key # None)
            => KeyFound(d, j.key, j.user, j.exchange)

\* A row added at the end of a table leaves the other rows (Session.add).
LEMMA Appended ==
  ASSUME NEW S, NEW s \in Seq(S), NEW e \in S
  PROVE  /\ Append(s, e) \in Seq(S)
         /\ Len(Append(s, e)) = Len(s) + 1
         /\ DOMAIN s = 1 .. Len(s)
         /\ DOMAIN Append(s, e) = DOMAIN s \cup {Len(s) + 1}
         /\ Len(s) + 1 \notin DOMAIN s
         /\ \A i \in DOMAIN s : Append(s, e)[i] = s[i] /\ s[i] \in S
         /\ Append(s, e)[Len(s) + 1] = e
  OBVIOUS

\* A row of a table has an id and its columns.
LEMMA Rows ==
  ASSUME NEW S, NEW s \in Seq(S), NEW i \in DOMAIN s
  PROVE  i \in Nat \ {0} /\ s[i] \in S
  OBVIOUS

\* Registration keeps the tables good: the login is new, and the new user's bot is
\* the only row of that user (register, ensure_default_bot).
LEMMA RegisteredGood ==
  ASSUME NEW d, Good(d), NEW j \in Registrations, ~HasLogin(d, j.login)
  PROVE  /\ Good(Registered(d, j)) /\ Grown(d, Registered(d, j))
         /\ Registered(d, j).keys = d.keys
         /\ Len(Registered(d, j).users) \in DOMAIN Registered(d, j).users
         /\ Registered(d, j).users[Len(Registered(d, j).users)]
              = [login |-> j.login, password |-> j.password]
         /\ \A b \in DOMAIN d.bots : Registered(d, j).bots[b] = d.bots[b]
<1> DEFINE row == [login |-> j.login, password |-> j.password]
           n   == Len(d.users) + 1
           bot == DefaultBot(n)
           e   == Registered(d, j)
<1>1. /\ d.users \in Seq(Users) /\ d.bots \in Seq(BotRows) /\ d.keys \in Seq(Keys)
      /\ row \in Users /\ n \in Nat
  BY DEF Good, Databases, Registrations, Users
<1>2. bot \in BotRows /\ bot.user = n /\ bot.key = None
  BY <1>1, AccountsAssumption DEF DefaultBot, BotRows
<1>3. /\ e \in Databases
      /\ e.users = Append(d.users, row)
      /\ e.bots = Append(d.bots, bot)
      /\ e.keys = d.keys
  BY <1>1, <1>2, Appended DEF Registered, Good, Databases
<1>4. /\ DOMAIN e.users = DOMAIN d.users \cup {n} /\ n \notin DOMAIN d.users
      /\ Len(e.users) = n /\ e.users[n] = row
      /\ \A u \in DOMAIN d.users : e.users[u] = d.users[u]
  BY <1>1, <1>3, Appended
<1>5. /\ DOMAIN e.bots = DOMAIN d.bots \cup {Len(d.bots) + 1}
      /\ e.bots[Len(d.bots) + 1] = bot
      /\ \A b \in DOMAIN d.bots : e.bots[b] = d.bots[b]
  BY <1>1, <1>2, <1>3, Appended
<1>6. row.login = j.login
  OBVIOUS
<1>7. \A u \in DOMAIN d.users : d.users[u].login # j.login
  BY DEF HasLogin
<1>8. \A u, v \in DOMAIN e.users : e.users[u].login = e.users[v].login => u = v
  BY <1>4, <1>6, <1>7 DEF Good
<1>9. \A b, c \in DOMAIN e.bots : e.bots[b].user = e.bots[c].user => b = c
  BY <1>2, <1>4, <1>5 DEF Good
<1>10. \A b \in DOMAIN e.bots :
         e.bots[b].key # None => /\ e.bots[b].key \in DOMAIN e.keys
                                 /\ e.keys[e.bots[b].key].user = e.bots[b].user
  BY <1>2, <1>3, <1>5 DEF Good
<1>11. \A u \in DOMAIN e.users : \E b \in DOMAIN e.bots : e.bots[b].user = u
  BY <1>2, <1>4, <1>5 DEF Good
<1>12. /\ \A b \in DOMAIN e.bots : e.bots[b].user \in DOMAIN e.users
       /\ \A k \in DOMAIN e.keys : e.keys[k].user \in DOMAIN e.users
  BY <1>2, <1>3, <1>4, <1>5 DEF Good
<1>13. Good(e)
  BY <1>3, <1>8, <1>9, <1>10, <1>11, <1>12 DEF Good
<1>14. Grown(d, e)
  BY <1>3, <1>4, <1>5 DEF Grown
<1> QED
  BY <1>3, <1>4, <1>5, <1>13, <1>14

\* A new key keeps the tables good: bots keep the keys they have (create_api_key).
LEMMA KeyAddedGood ==
  ASSUME NEW d, Good(d), NEW j \in KeyCreations, j.user \in DOMAIN d.users
  PROVE  /\ Good(KeyAdded(d, j)) /\ Grown(d, KeyAdded(d, j))
         /\ \A b \in DOMAIN d.bots : KeyAdded(d, j).bots[b] = d.bots[b]
<1> DEFINE row == [user |-> j.user, exchange |-> j.exchange]
           e   == KeyAdded(d, j)
<1>1. d.keys \in Seq(Keys) /\ row \in Keys
  BY DEF Good, Databases, KeyCreations, Keys
<1>2. /\ e \in Databases
      /\ e.users = d.users /\ e.bots = d.bots
      /\ e.keys = Append(d.keys, row)
  BY <1>1, Appended DEF KeyAdded, Good, Databases
<1>3. /\ DOMAIN e.keys = DOMAIN d.keys \cup {Len(d.keys) + 1}
      /\ e.keys[Len(d.keys) + 1] = row
      /\ \A k \in DOMAIN d.keys : e.keys[k] = d.keys[k]
  BY <1>1, <1>2, Appended
<1>4. row.user = j.user
  OBVIOUS
<1>5. Good(e)
  BY <1>2, <1>3, <1>4 DEF Good
<1> QED
  BY <1>2, <1>3, <1>5 DEF Grown

\* A save keeps the tables good, and a bot whose row it had loaded as it is gets
\* the exchange and the key it asked for (update_settings).
LEMMA SavedGood ==
  ASSUME NEW d, Good(d), NEW j \in Saves, Known(d, j), j.pc # "check"
  PROVE  /\ Good(Saved(d, j)) /\ Grown(d, Saved(d, j))
         /\ Saved(d, j).keys = d.keys
         /\ \A b \in DOMAIN d.bots : b # j.bot => Saved(d, j).bots[b] = d.bots[b]
         /\ j.old = d.bots[j.bot]
              => /\ Saved(d, j).bots[j.bot].exchange = j.exchange
                 /\ Saved(d, j).bots[j.bot].key = j.key
<1> DEFINE e   == Saved(d, j)
           old == d.bots[j.bot]
           row == [user     |-> old.user,
                   exchange |-> IF j.exchange = j.old.exchange
                                THEN old.exchange ELSE j.exchange,
                   key      |-> IF j.key = j.old.key THEN old.key ELSE j.key]
<1>1. /\ j.job = "save" /\ j.pc \in {"read", "flushed"}
      /\ j.exchange \in Exchanges /\ j.key \in Nat \cup {None}
  BY DEF Saves
<1>2. /\ j.bot \in DOMAIN d.bots /\ old.user = j.user
      /\ j.key # None => KeyFound(d, j.key, j.user, j.exchange)
  BY <1>1 DEF Known
<1>3. d \in Databases /\ d.bots \in Seq(BotRows)
  BY DEF Good, Databases
<1>4. old \in BotRows /\ j.bot # NoBot
  BY <1>2, <1>3, Rows DEF NoBot
<1>5. row \in BotRows /\ row.user = old.user
  BY <1>1, <1>4 DEF BotRows
<1>6. [d.bots EXCEPT ![j.bot] = row] \in Seq(BotRows)
  BY <1>2, <1>3, <1>5
<1>7. e = [d EXCEPT !.bots[j.bot] = row]
  BY <1>4 DEF Saved
<1>8. /\ e.users = d.users /\ e.keys = d.keys
      /\ e.bots = [d.bots EXCEPT ![j.bot] = row]
      /\ e \in Databases
  BY <1>3, <1>6, <1>7 DEF Databases
<1>9. /\ DOMAIN e.bots = DOMAIN d.bots
      /\ e.bots[j.bot] = row
      /\ \A b \in DOMAIN d.bots : b # j.bot => e.bots[b] = d.bots[b]
      /\ \A b \in DOMAIN d.bots : e.bots[b].user = d.bots[b].user
  BY <1>2, <1>3, <1>5, <1>8
<1>10. row.key # None => /\ row.key \in DOMAIN d.keys
                         /\ d.keys[row.key].user = row.user
  <2>1. CASE j.key = j.old.key
    <3>1. row.key = old.key
      BY <2>1
    <3> QED
      BY <3>1, <1>2, <1>5 DEF Good
  <2>2. CASE j.key # j.old.key
    <3>1. row.key = j.key
      BY <2>2
    <3>2. j.key # None => /\ j.key \in DOMAIN d.keys
                          /\ d.keys[j.key].user = j.user
      BY <1>2 DEF KeyFound
    <3> QED
      BY <3>1, <3>2, <1>2, <1>5
  <2> QED
    BY <2>1, <2>2
<1>11. \A b \in DOMAIN e.bots :
         e.bots[b].key # None => /\ e.bots[b].key \in DOMAIN e.keys
                                 /\ e.keys[e.bots[b].key].user = e.bots[b].user
  <2> SUFFICES ASSUME NEW b \in DOMAIN d.bots, e.bots[b].key # None
               PROVE  /\ e.bots[b].key \in DOMAIN d.keys
                      /\ d.keys[e.bots[b].key].user = e.bots[b].user
    BY <1>8, <1>9
  <2> HIDE DEF row, e, old
  <2>1. CASE b = j.bot
    <3>1. e.bots[b] = row
      BY <2>1, <1>9
    <3>2. row.key # None
      BY <3>1
    <3> QED
      BY <3>1, <3>2, <1>10, Zenon
  <2>2. CASE b # j.bot
    <3>1. e.bots[b] = d.bots[b]
      BY <2>2, <1>9
    <3> QED
      BY <3>1 DEF Good
  <2> QED
    BY <2>1, <2>2
<1>12. Good(e)
  <2>1. \A b, c \in DOMAIN e.bots : e.bots[b].user = e.bots[c].user => b = c
    BY <1>9 DEF Good
  <2>2. \A u \in DOMAIN e.users : \E b \in DOMAIN e.bots : e.bots[b].user = u
    BY <1>8, <1>9 DEF Good
  <2>3. /\ \A b \in DOMAIN e.bots : e.bots[b].user \in DOMAIN e.users
        /\ \A k \in DOMAIN e.keys : e.keys[k].user \in DOMAIN e.users
    BY <1>8, <1>9 DEF Good
  <2>4. \A u, v \in DOMAIN e.users : e.users[u].login = e.users[v].login => u = v
    BY <1>8 DEF Good
  <2> QED
    BY <1>8, <1>11, <2>1, <2>2, <2>3, <2>4, Zenon DEF Good
<1>13. Grown(d, e)
  BY <1>8, <1>9 DEF Grown
<1>14. j.old = old => row.exchange = j.exchange /\ row.key = j.key
  OBVIOUS
<1> QED
  BY <1>8, <1>9, <1>12, <1>13, <1>14

\* So whatever a request writes keeps the tables good and loses nothing.
LEMMA ApplyGood ==
  ASSUME NEW d, Good(d), NEW j \in Jobs, Known(d, j), j.pc # "check",
         ~Conflict(d, j)
  PROVE  Good(Apply(d, j)) /\ Grown(d, Apply(d, j))
<1>1. CASE j \in Registrations
  <2>1. j.job = "register" /\ Apply(d, j) = Registered(d, j)
    BY <1>1 DEF Registrations, Apply
  <2>2. ~HasLogin(d, j.login)
    BY <2>1 DEF Conflict
  <2>3. Good(Registered(d, j)) /\ Grown(d, Registered(d, j))
    BY <1>1, <2>2, RegisteredGood
  <2> QED
    BY <2>1, <2>3
<1>2. CASE j \in KeyCreations
  <2>1. j.job = "key" /\ Apply(d, j) = KeyAdded(d, j)
    BY <1>2 DEF KeyCreations, Apply
  <2> QED
    BY <1>2, <2>1, KeyAddedGood DEF Known
<1>3. CASE j \in Saves
  <2>1. j.job = "save" /\ Apply(d, j) = Saved(d, j)
    BY <1>3 DEF Saves, Apply
  <2> QED
    BY <1>3, <2>1, SavedGood
<1> QED
  BY <1>1, <1>2, <1>3 DEF Jobs

\* What a request knows of the tables stays true when they grow.
LEMMA KnownGrown ==
  ASSUME NEW d, NEW e, Grown(d, e), NEW j, Known(d, j)
  PROVE  Known(e, j)
BY DEF Grown, Known, KeyFound

\* A request that has been flushed is the request that was read.
LEMMA Flushed ==
  ASSUME NEW d, NEW j \in Jobs, j.pc = "read"
  PROVE  LET k == [j EXCEPT !.pc = "flushed"]
         IN  /\ k \in Jobs
             /\ k.pc = "flushed"
             /\ Apply(d, k) = Apply(d, j)
             /\ Conflict(d, k) <=> Conflict(d, j)
             /\ Known(d, j) => Known(d, k)
<1> DEFINE k == [j EXCEPT !.pc = "flushed"]
<1>1. CASE j \in Registrations
  <2>1. /\ k \in Registrations /\ k.pc = "flushed" /\ k.job = j.job
        /\ k.job = "register" /\ k.login = j.login /\ k.password = j.password
    BY <1>1 DEF Registrations
  <2> QED
    BY <2>1 DEF Jobs, Apply, Registered, Conflict, Known
<1>2. CASE j \in KeyCreations
  <2>1. /\ k \in KeyCreations /\ k.pc = "flushed" /\ k.job = j.job
        /\ k.job = "key" /\ k.user = j.user /\ k.exchange = j.exchange
    BY <1>2 DEF KeyCreations
  <2> QED
    BY <2>1 DEF Jobs, Apply, KeyAdded, Conflict, Known
<1>3. CASE j \in Saves
  <2>1. /\ k \in Saves /\ k.pc = "flushed" /\ k.job = j.job /\ k.job = "save"
        /\ k.user = j.user /\ k.exchange = j.exchange /\ k.key = j.key
        /\ k.bot = j.bot /\ k.old = j.old
    BY <1>3 DEF Saves
  <2>2. Apply(d, k) = Apply(d, j)
    BY <2>1 DEF Apply, Saved
  <2>3. Conflict(d, k) <=> Conflict(d, j)
    BY <2>1 DEF Conflict
  <2>4. Known(d, j) => Known(d, k)
    BY <2>1 DEF Known
  <2> QED
    BY <2>1, <2>2, <2>3, <2>4 DEF Jobs
<1> QED
  BY <1>1, <1>2, <1>3 DEF Jobs

-------------------------------------------------------------------------------
(* The invariant.                                                           *)

Inv ==
  /\ Good(db)
  /\ Good(pending)
  /\ lock \in {"free"} \cup Requests
  /\ req \in [Requests -> {Idle} \cup Jobs]
  /\ tokens \subseteq Tokens
  /\ TokensIdentify
  /\ TransactionInv
  /\ \A r \in Requests : req[r].pc # "idle" => Known(db, req[r])

\* A request is made for a user some client has a token of.
MeantInv ==
  \A r \in Requests :
    req[r].pc # "idle" /\ req[r].job \in {"key", "save"}
      => \E t \in tokens : t.sub = req[r].user

\* Inv is IInv, said of whole tables, and a little more of the open ones.
LEMMA Forms == Inv /\ MeantInv => IInv
<1> SUFFICES ASSUME Inv, MeantInv PROVE IInv
  OBVIOUS
<1>1. TypeOK /\ UniqueLogins /\ NoSecondBot
  BY DEF Inv, Good, Jobs, TypeOK, UniqueLogins, NoSecondBot
<1>2. KeysOwned
  BY DEF Inv, Good, KeysOwned
<1>3. References
  BY DEF Inv, Good, References, BotsOf
<1>4. SaveInv
  BY DEF Inv, MeantInv, Known, SaveInv
<1> QED
  BY <1>1, <1>2, <1>3, <1>4 DEF IInv, Inv

LEMMA InitInv == Init => Inv
<1> SUFFICES ASSUME Init PROVE Inv
  OBVIOUS
<1>1. db.users = <<>> /\ db.bots = <<>> /\ db.keys = <<>> /\ pending = db
  BY DEF Init
<1>2. db \in Databases
  BY DEF Init, Databases
<1>3. DOMAIN db.users = {} /\ DOMAIN db.bots = {} /\ DOMAIN db.keys = {}
  BY <1>1
<1>4. Good(db)
  BY <1>2, <1>3 DEF Good
<1>5. \A r \in Requests : req[r] = Idle /\ req[r].pc = "idle"
  BY DEF Init, Idle
<1>6. lock = "free" /\ req \in [Requests -> {Idle} \cup Jobs] /\ tokens = {}
  BY DEF Init
<1>7. TransactionInv
  BY <1>1, <1>5, <1>6, AccountsAssumption DEF TransactionInv
<1>8. Good(pending)
  BY <1>1, <1>4
<1> QED
  BY <1>4, <1>5, <1>6, <1>7, <1>8 DEF Inv, TokensIdentify

\* A request that begins, or learns that its key exists, and writes nothing yet.
LEMMA JobStep ==
  ASSUME Inv, NEW r \in Requests, req[r].pc # "flushed",
         NEW j \in {Idle} \cup Jobs, j.pc # "flushed",
         j.pc # "idle" => Known(db, j),
         req' = [req EXCEPT ![r] = j], UNCHANGED <<db, pending, lock, tokens>>
  PROVE  Inv'
<1>1. /\ req' \in [Requests -> {Idle} \cup Jobs]
      /\ req'[r] = j
      /\ \A q \in Requests : q # r => req'[q] = req[q]
  BY DEF Inv
<1>2. TransactionInv'
  BY <1>1 DEF Inv, TransactionInv
<1>3. TokensIdentify'
  BY DEF Inv, TokensIdentify
<1>4. \A q \in Requests : req'[q].pc # "idle" => Known(db', req'[q])
  BY <1>1 DEF Inv
<1> QED
  BY <1>1, <1>2, <1>3, <1>4 DEF Inv

\* The bot of a user is the one there is.
LEMMA BotFound ==
  ASSUME NEW d, Good(d), NEW u \in DOMAIN d.users
  PROVE  /\ BotOf(d, u) \in DOMAIN d.bots /\ d.bots[BotOf(d, u)].user = u
         /\ BotOf(d, u) \in Nat \ {0} /\ d.bots[BotOf(d, u)] \in BotRows
<1>1. PICK b \in DOMAIN d.bots : d.bots[b].user = u
  BY DEF Good
<1>2. \A c \in BotsOf(d, u) : c = b
  BY <1>1 DEF Good, BotsOf
<1>3. b \in BotsOf(d, u)
  BY <1>1 DEF BotsOf
<1>4. d.bots \in Seq(BotRows)
  BY DEF Good, Databases
<1>5. b \in Nat \ {0} /\ d.bots[b] \in BotRows
  BY <1>1, <1>4, Rows
<1>6. BotOf(d, u) = b
  BY <1>2, <1>3, <1>5 DEF BotOf
<1> QED
  BY <1>1, <1>5, <1>6

LEMMA RegisterStep ==
  ASSUME Inv, NEW r \in Requests, NEW login \in Logins,
         NEW password \in Passwords, Register(r, login, password)
  PROVE  Inv'
<1> DEFINE j == [pc |-> "read", job |-> "register",
                 login |-> login, password |-> password]
<1>1. j \in Registrations /\ j.pc = "read" /\ j.job = "register"
  BY DEF Registrations
<1>2. Known(db, j)
  BY <1>1 DEF Known
<1>3. /\ req[r].pc # "flushed" /\ req' = [req EXCEPT ![r] = j]
      /\ UNCHANGED <<db, pending, lock, tokens>>
  BY DEF Register, Begin
<1> QED
  BY <1>1, <1>2, <1>3, JobStep DEF Jobs

LEMMA CreateKeyStep ==
  ASSUME Inv, NEW r \in Requests, NEW t \in tokens, NEW exchange \in Exchanges,
         CreateKey(r, t, exchange)
  PROVE  Inv'
<1> DEFINE j == [pc |-> "read", job |-> "key", user |-> t.sub,
                 exchange |-> exchange]
<1>1. t.sub \in DOMAIN db.users /\ t.sub \in Nat
  BY DEF CreateKey, CurrentUser, Inv, Tokens
<1>2. j \in KeyCreations /\ j.pc = "read" /\ j.job = "key" /\ j.user = t.sub
  BY <1>1 DEF KeyCreations
<1>3. Known(db, j)
  BY <1>1, <1>2 DEF Known
<1>4. /\ req[r].pc # "flushed" /\ req' = [req EXCEPT ![r] = j]
      /\ UNCHANGED <<db, pending, lock, tokens>>
  BY DEF CreateKey, Begin
<1> QED
  BY <1>2, <1>3, <1>4, JobStep DEF Jobs

LEMMA SaveSettingsStep ==
  ASSUME Inv, NEW r \in Requests, NEW t \in tokens, NEW exchange \in Exchanges,
         NEW key \in Nat \cup {None}, SaveSettings(r, t, exchange, key)
  PROVE  Inv'
<1> DEFINE b == BotOf(db, t.sub)
           j == [pc   |-> IF key = None THEN "read" ELSE "check",
                 job  |-> "save", user |-> t.sub,
                 exchange |-> exchange, key |-> key, bot |-> b,
                 old  |-> IF b = NoBot THEN DefaultBot(t.sub) ELSE db.bots[b]]
<1>1. t.sub \in DOMAIN db.users /\ t.sub \in Nat
  BY DEF SaveSettings, CurrentUser, Inv, Tokens
<1>2. /\ b \in DOMAIN db.bots /\ db.bots[b].user = t.sub
      /\ b \in Nat \ {0} /\ db.bots[b] \in BotRows
  BY <1>1, BotFound DEF Inv
<1>3. j.old = db.bots[b]
  BY <1>2 DEF NoBot
<1>4. j \in Saves
  BY <1>1, <1>2, <1>3 DEF Saves
<1>5. /\ j.job = "save" /\ j.user = t.sub /\ j.bot = b /\ j.key = key
      /\ j.pc = IF key = None THEN "read" ELSE "check"
  OBVIOUS
<1> HIDE DEF j
<1>6. Known(db, j)
  BY <1>1, <1>2, <1>5 DEF Known
<1>7. /\ req[r].pc # "flushed" /\ req' = [req EXCEPT ![r] = j]
      /\ UNCHANGED <<db, pending, lock, tokens>>
  BY DEF SaveSettings, Begin, j
<1>8. j.pc # "flushed"
  BY <1>5
<1> QED
  BY <1>4, <1>6, <1>7, <1>8, JobStep DEF Jobs

LEMMA CheckKeyStep ==
  ASSUME Inv, NEW r \in Requests, CheckKey(r)
  PROVE  Inv'
<1> DEFINE j == req[r]
           k == [j EXCEPT !.pc = "read"]
<1>1. j \in Saves /\ j.job = "save" /\ Known(db, j)
  BY DEF CheckKey, Inv, Jobs, Registrations, KeyCreations, Saves, Idle
<1>2. CASE KeyFound(db, j.key, j.user, j.exchange)
  <2>1. /\ k \in Saves /\ k.pc = "read" /\ k.job = "save" /\ k.user = j.user
        /\ k.key = j.key /\ k.bot = j.bot /\ k.exchange = j.exchange
    BY <1>1 DEF Saves
  <2>2. Known(db, k)
    BY <1>1, <1>2, <2>1 DEF Known
  <2>3. /\ req[r].pc # "flushed" /\ req' = [req EXCEPT ![r] = k]
        /\ UNCHANGED <<db, pending, lock, tokens>>
    BY <1>2 DEF CheckKey
  <2> QED
    BY <2>1, <2>2, <2>3, JobStep DEF Jobs
<1>3. CASE ~KeyFound(db, j.key, j.user, j.exchange)
  <2>1. /\ req[r].pc # "flushed" /\ req' = [req EXCEPT ![r] = Idle]
        /\ UNCHANGED <<db, pending, lock, tokens>>
    BY <1>3 DEF CheckKey
  <2> QED
    BY <2>1, JobStep DEF Idle
<1> QED
  BY <1>2, <1>3

LEMMA RejectStep ==
  ASSUME Inv, NEW r \in Requests, Reject(r)
  PROVE  Inv'
BY JobStep DEF Reject, Idle

LEMMA WriteStep ==
  ASSUME Inv, NEW r \in Requests, Write(r)
  PROVE  Inv'
<1> DEFINE j == req[r]
           k == [j EXCEPT !.pc = "flushed"]
<1>1. j \in Jobs /\ j.pc = "read" /\ Known(db, j)
  BY DEF Write, Inv, Idle
<1>2. /\ lock = "free" /\ ~Conflict(db, j) /\ lock' = r
      /\ pending' = Apply(db, j) /\ req' = [req EXCEPT ![r] = k]
      /\ UNCHANGED <<db, tokens>>
  BY DEF Write
<1>3. /\ k \in Jobs /\ k.pc = "flushed" /\ Apply(db, k) = Apply(db, j)
      /\ ~Conflict(db, k) /\ Known(db, k)
  BY <1>1, <1>2, Flushed
<1> HIDE DEF k
<1>4. /\ req' \in [Requests -> {Idle} \cup Jobs]
      /\ req'[r] = k
      /\ \A q \in Requests : q # r => req'[q] = req[q]
  BY <1>2, <1>3 DEF Inv
<1>5. Good(pending')
  BY <1>1, <1>2, ApplyGood DEF Inv
<1>6. \A q \in Requests : req[q].pc # "flushed"
  BY <1>2, AccountsAssumption DEF Inv, TransactionInv
<1>7. TransactionInv'
  BY <1>2, <1>3, <1>4, <1>6, AccountsAssumption DEF TransactionInv
<1>8. \A q \in Requests : req'[q].pc # "idle" => Known(db', req'[q])
  BY <1>2, <1>3, <1>4 DEF Inv
<1>9. TokensIdentify' /\ Good(db)' /\ tokens' \subseteq Tokens
  BY <1>2 DEF Inv, TokensIdentify
<1> QED
  BY <1>2, <1>4, <1>5, <1>7, <1>8, <1>9 DEF Inv

\* The end of a transaction: its request becomes idle, what is committed is then
\* also what is pending, and has grown or stayed as it was.
LEMMA EndStep ==
  ASSUME Inv, NEW r \in Requests, req[r].pc = "flushed",
         Good(db)', pending' = db', Grown(db, db'), TokensIdentify',
         lock' = "free", req' = [req EXCEPT ![r] = Idle],
         tokens' \subseteq Tokens
  PROVE  Inv'
<1>1. /\ req' \in [Requests -> {Idle} \cup Jobs]
      /\ req'[r] = Idle
      /\ \A q \in Requests : q # r => req'[q] = req[q]
  BY DEF Inv
<1>2. \A q \in Requests : q # r => req[q].pc # "flushed"
  BY DEF Inv, TransactionInv
<1>3. TransactionInv'
  BY <1>1, <1>2, AccountsAssumption DEF TransactionInv, Idle
<1>4. ASSUME NEW q \in Requests, req'[q].pc # "idle"
      PROVE  Known(db', req'[q])
  <2>1. q # r /\ req'[q] = req[q]
    BY <1>1, <1>4 DEF Idle
  <2> QED
    BY <2>1, <1>4, KnownGrown DEF Inv
<1>5. Good(pending)'
  OBVIOUS
<1> QED
  BY <1>1, <1>3, <1>4, <1>5 DEF Inv

LEMMA CommitStep ==
  ASSUME Inv, NEW r \in Requests, Commit(r)
  PROVE  Inv'
<1> DEFINE j == req[r]
<1>1. j \in Jobs /\ j.pc = "flushed" /\ Known(db, j)
  BY DEF Commit, Inv, Idle
<1>2. ~Conflict(db, j) /\ pending = Apply(db, j)
  BY <1>1 DEF Inv, TransactionInv
<1>3. /\ db' = pending /\ pending' = db' /\ lock' = "free"
      /\ req' = [req EXCEPT ![r] = Idle]
      /\ tokens' = tokens \cup Answer(pending, j)
  BY DEF Commit
<1>4. Good(db)' /\ Grown(db, db')
  BY <1>1, <1>2, <1>3, ApplyGood DEF Inv
<1>5. \A t \in Answer(pending, j) :
        /\ t \in Tokens
        /\ t.sub \in DOMAIN pending.users
        /\ pending.users[t.sub] = [login |-> t.login, password |-> t.password]
  <2> SUFFICES ASSUME j.job = "register", NEW t,
                      t = [sub |-> Len(pending.users), login |-> j.login,
                           password |-> j.password]
               PROVE  /\ t \in Tokens
                      /\ t.sub \in DOMAIN pending.users
                      /\ pending.users[t.sub]
                           = [login |-> t.login, password |-> t.password]
    BY DEF Answer
  <2>1. j \in Registrations
    BY <1>1 DEF Jobs, KeyCreations, Saves
  <2>2. pending = Registered(db, j) /\ ~HasLogin(db, j.login)
    BY <1>2 DEF Apply, Conflict
  <2>3. /\ Len(pending.users) \in DOMAIN pending.users
        /\ pending.users[Len(pending.users)]
             = [login |-> j.login, password |-> j.password]
    BY <2>1, <2>2, RegisteredGood DEF Inv
  <2>4. Len(pending.users) \in Nat
    BY DEF Inv, Good, Databases
  <2> QED
    BY <2>1, <2>3, <2>4 DEF Registrations, Tokens
<1>6. TokensIdentify'
  <2> SUFFICES ASSUME NEW t \in tokens'
               PROVE  /\ t.sub \in DOMAIN db'.users
                      /\ db'.users[t.sub]
                           = [login |-> t.login, password |-> t.password]
    BY DEF TokensIdentify
  <2>1. CASE t \in tokens
    BY <2>1, <1>4 DEF Inv, TokensIdentify, Grown
  <2>2. CASE t \in Answer(pending, j)
    BY <2>2, <1>3, <1>5
  <2> QED
    BY <2>1, <2>2, <1>3
<1>7. tokens' \subseteq Tokens
  BY <1>3, <1>5 DEF Inv
<1> QED
  BY <1>1, <1>3, <1>4, <1>6, <1>7, EndStep

LEMMA AbortStep ==
  ASSUME Inv, NEW r \in Requests, Abort(r)
  PROVE  Inv'
<1>1. Grown(db, db') /\ TokensIdentify' /\ Good(db)' /\ tokens' \subseteq Tokens
  BY DEF Abort, Grown, Inv, TokensIdentify
<1> QED
  BY <1>1, EndStep DEF Abort

LEMMA LoginStep ==
  ASSUME Inv, NEW u, Login(u)
  PROVE  Inv'
<1> DEFINE t == [sub |-> u, login |-> db.users[u].login,
                 password |-> db.users[u].password]
<1>1. u \in DOMAIN db.users /\ db.users \in Seq(Users)
  BY DEF Login, Inv, Good, Databases
<1>2. u \in Nat /\ db.users[u] \in Users
  BY <1>1
<1>3. t \in Tokens
  BY <1>2 DEF Tokens, Users
<1>4. db.users[t.sub] = [login |-> t.login, password |-> t.password]
  BY <1>2 DEF Users
<1>5. tokens' = tokens \cup {t} /\ UNCHANGED <<db, pending, lock, req>>
  BY DEF Login
<1>6. TokensIdentify'
  <2> SUFFICES ASSUME NEW v \in tokens'
               PROVE  /\ v.sub \in DOMAIN db.users
                      /\ db.users[v.sub]
                           = [login |-> v.login, password |-> v.password]
    BY <1>5 DEF TokensIdentify
  <2>1. CASE v \in tokens
    BY <2>1 DEF Inv, TokensIdentify
  <2>2. CASE v = t
    BY <2>2, <1>1, <1>4
  <2> QED
    BY <2>1, <2>2, <1>5
<1>7. TransactionInv'
  BY <1>5 DEF Inv, TransactionInv
<1> QED
  BY <1>3, <1>5, <1>6, <1>7 DEF Inv

LEMMA CrashStep ==
  ASSUME Inv, Crash
  PROVE  Inv'
<1>1. \A r \in Requests : req'[r] = Idle /\ req'[r].pc = "idle"
  BY DEF Crash, Idle
<1>2. TransactionInv'
  BY <1>1, AccountsAssumption DEF Crash, TransactionInv
<1> QED
  BY <1>1, <1>2 DEF Inv, Crash, TokensIdentify

LEMMA NextStep ==
  ASSUME Inv, [Next]_vars
  PROVE  Inv'
<1>1. ASSUME NEW r \in Requests, Arrive(r) PROVE Inv'
  BY <1>1, RegisterStep, CreateKeyStep, SaveSettingsStep DEF Arrive
<1>2. ASSUME NEW r \in Requests, Proceed(r) PROVE Inv'
  BY <1>2, CheckKeyStep, WriteStep, RejectStep, CommitStep, AbortStep
     DEF Proceed
<1>3. CASE UNCHANGED vars
  BY <1>3 DEF vars, Inv, TransactionInv, TokensIdentify
<1> QED
  BY <1>1, <1>2, <1>3, LoginStep, CrashStep DEF Next

LEMMA InvHolds == Spec => []Inv
<1>1. Init => Inv
  BY InitInv
<1>2. Inv /\ [Next]_vars => Inv'
  BY NextStep
<1> QED
  BY <1>1, <1>2, PTL DEF Spec

\* How far a request is says nothing of what it is for.
LEMMA Onward ==
  ASSUME NEW j \in Jobs, NEW pc, NEW k, k = [j EXCEPT !.pc = pc]
  PROVE  k.job = j.job /\ (j.job \in {"key", "save"} => k.user = j.user)
BY DEF Jobs, Registrations, KeyCreations, Saves

\* A request keeps the user it began with, and clients keep their tokens.
LEMMA MeantStep ==
  ASSUME Inv, MeantInv, [Next]_vars
  PROVE  MeantInv'
<1>1. ASSUME NEW r \in Requests, NEW j, req' = [req EXCEPT ![r] = j],
             tokens \subseteq tokens',
             j.pc # "idle" /\ j.job \in {"key", "save"}
               => \E t \in tokens : t.sub = j.user
      PROVE  MeantInv'
  <2>1. req'[r] = j /\ \A q \in Requests : q # r => req'[q] = req[q]
    BY <1>1 DEF Inv
  <2> QED
    BY <1>1, <2>1 DEF MeantInv
<1>2. ASSUME NEW r \in Requests, Arrive(r) PROVE MeantInv'
  <2>1. ASSUME NEW login \in Logins, NEW password \in Passwords,
               Register(r, login, password)
        PROVE  MeantInv'
    BY <2>1, <1>1 DEF Register, Begin
  <2>2. ASSUME NEW t \in tokens, NEW exchange \in Exchanges,
               CreateKey(r, t, exchange)
        PROVE  MeantInv'
    BY <2>2, <1>1 DEF CreateKey, Begin
  <2>3. ASSUME NEW t \in tokens, NEW exchange \in Exchanges, NEW key,
               SaveSettings(r, t, exchange, key)
        PROVE  MeantInv'
    <3> DEFINE b == BotOf(db, t.sub)
               j == [pc   |-> IF key = None THEN "read" ELSE "check",
                     job  |-> "save", user |-> t.sub,
                     exchange |-> exchange, key |-> key, bot |-> b,
                     old  |-> IF b = NoBot THEN DefaultBot(t.sub) ELSE db.bots[b]]
    <3>1. req' = [req EXCEPT ![r] = j] /\ tokens' = tokens
      BY <2>3 DEF SaveSettings, Begin
    <3>2. j.user = t.sub
      OBVIOUS
    <3> HIDE DEF j
    <3> QED
      BY <3>1, <3>2, <1>1
  <2> QED
    BY <1>2, <2>1, <2>2, <2>3 DEF Arrive
<1>3. ASSUME NEW r \in Requests, NEW pc, req[r] \in Jobs, req[r].pc # "idle",
             req' = [req EXCEPT ![r] = [req[r] EXCEPT !.pc = pc]],
             tokens' = tokens
      PROVE  MeantInv'
  <2> DEFINE k == [req[r] EXCEPT !.pc = pc]
  <2>1. /\ k.job = req[r].job
        /\ req[r].job \in {"key", "save"} => k.user = req[r].user
    BY <1>3, Onward
  <2>2. k.job \in {"key", "save"} => \E t \in tokens : t.sub = k.user
    BY <1>3, <2>1 DEF MeantInv
  <2>3. req' = [req EXCEPT ![r] = k]
    BY <1>3
  <2> HIDE DEF k
  <2> QED
    BY <1>1, <1>3, <2>2, <2>3
<1>4. ASSUME NEW r \in Requests, Proceed(r) PROVE MeantInv'
  <2>1. ASSUME req' = [req EXCEPT ![r] = Idle], tokens \subseteq tokens'
        PROVE  MeantInv'
    BY <2>1, <1>1 DEF Idle
  <2>2. req[r] \in Jobs /\ req[r].pc # "idle"
    BY <1>4 DEF Proceed, CheckKey, Write, Reject, Commit, Abort, Inv, Idle
  <2>3. CheckKey(r) => MeantInv'
    BY <1>3, <2>1, <2>2 DEF CheckKey
  <2>4. Write(r) => MeantInv'
    BY <1>3, <2>2 DEF Write
  <2>5. Reject(r) \/ Commit(r) \/ Abort(r) => MeantInv'
    BY <2>1 DEF Reject, Commit, Abort
  <2> QED
    BY <1>4, <2>3, <2>4, <2>5 DEF Proceed
<1>5. ASSUME NEW u, Login(u) PROVE MeantInv'
  BY <1>5 DEF Login, MeantInv
<1>6. Crash => MeantInv'
  BY DEF Crash, Idle, MeantInv
<1>7. UNCHANGED vars => MeantInv'
  BY DEF vars, MeantInv
<1> QED
  BY <1>2, <1>4, <1>5, <1>6, <1>7 DEF Next

LEMMA MeantHolds == Spec => []MeantInv
<1>1. Init => MeantInv
  BY DEF Init, Idle, MeantInv
<1>2. Inv /\ MeantInv /\ [Next]_vars => MeantInv'
  BY MeantStep
<1> QED
  BY <1>1, <1>2, InvHolds, PTL DEF Spec

-------------------------------------------------------------------------------
(* The theorems.                                                            *)

\* The strengthening holds, of any number of users, requests and keys: what is
\* committed is consistent, and the open transaction is one request's writes on it.
THEOREM Invariance == Spec => []IInv
  BY InvHolds, MeantHolds, Forms, PTL

\* No interleaving of registrations creates two users of one login, whenever the
\* login was looked for before (register).
THEOREM LoginsAreUnique == Spec => []UniqueLogins
<1>1. IInv => UniqueLogins
  BY DEF IInv
<1> QED
  BY <1>1, Invariance, PTL

\* No user ever has two bots, although no constraint forbids it
\* (ensure_default_bot).
THEOREM OneBot == Spec => []NoSecondBot
<1>1. IInv => NoSecondBot
  BY DEF IInv
<1> QED
  BY <1>1, Invariance, PTL

\* A token stands for the account its client gave login and password of, through
\* rollbacks and crashes (register, login, current_user).
THEOREM TokensAreTrue == Spec => []TokensIdentify
<1>1. IInv => TokensIdentify
  BY DEF IInv
<1> QED
  BY <1>1, Invariance, PTL

\* A bot's key is one of its user (update_settings).
THEOREM KeysAreOwn == Spec => []KeysOwned
<1>1. IInv => KeysOwned
  BY DEF IInv
<1> QED
  BY <1>1, Invariance, PTL

\* The commit of a save that had loaded the row as it is leaves key and exchange
\* as requested, and they were checked; every other commit leaves them alone.
LEMMA CommitMatches ==
  ASSUME Inv, NEW r \in Requests, Commit(r), NEW b \in DOMAIN db.bots,
         Mismatch(db', b), ~Mismatch(db, b)
  PROVE  /\ req[r].pc = "flushed" /\ req[r].job = "save"
         /\ req[r].bot = b /\ req[r].old # db.bots[b]
<1> DEFINE j == req[r]
<1>1. j \in Jobs /\ j.pc = "flushed" /\ Known(db, j) /\ Good(db)
  BY DEF Commit, Inv, Idle
<1>2. ~Conflict(db, j) /\ db' = Apply(db, j)
  BY <1>1 DEF Commit, Inv, TransactionInv
<1>3. Grown(db, db')
  BY <1>1, <1>2, ApplyGood
<1>4. ASSUME db'.bots[b] = db.bots[b] PROVE FALSE
  <2>1. db.bots[b].key # None => db.bots[b].key \in DOMAIN db.keys
    BY <1>1 DEF Good
  <2>2. db.bots[b].key # None
          => db'.keys[db.bots[b].key] = db.keys[db.bots[b].key]
    BY <1>3, <2>1 DEF Grown
  <2> QED
    BY <1>4, <2>2 DEF Mismatch
<1>5. CASE j \in Registrations
  <2>1. db' = Registered(db, j) /\ ~HasLogin(db, j.login)
    BY <1>2, <1>5 DEF Registrations, Apply, Conflict
  <2>2. db'.bots[b] = db.bots[b]
    BY <1>1, <1>5, <2>1, RegisteredGood
  <2> QED
    BY <1>4, <2>2
<1>6. CASE j \in KeyCreations
  <2>1. db' = KeyAdded(db, j) /\ j.user \in DOMAIN db.users
    BY <1>1, <1>2, <1>6 DEF KeyCreations, Apply, Known
  <2>2. db'.bots[b] = db.bots[b]
    BY <1>1, <1>6, <2>1, KeyAddedGood
  <2> QED
    BY <1>4, <2>2
<1>7. CASE j \in Saves
  <2>1. j.job = "save" /\ db' = Saved(db, j) /\ j.pc # "check"
    BY <1>1, <1>2, <1>7 DEF Saves, Apply
  <2>2. /\ db'.keys = db.keys
        /\ b # j.bot => db'.bots[b] = db.bots[b]
        /\ j.old = db.bots[j.bot] => /\ db'.bots[j.bot].exchange = j.exchange
                                     /\ db'.bots[j.bot].key = j.key
    BY <1>1, <1>7, <2>1, SavedGood
  <2>3. j.bot = b
    BY <1>4, <2>2
  <2>4. j.key # None => KeyFound(db, j.key, j.user, j.exchange)
    BY <1>1, <2>1 DEF Known
  <2>5. j.key # None => db.keys[j.key].exchange = j.exchange
    BY <2>4 DEF KeyFound
  <2>6. ASSUME j.old = db.bots[b] PROVE FALSE
    BY <2>2, <2>3, <2>5, <2>6 DEF Mismatch
  <2> QED
    BY <1>1, <2>1, <2>3, <2>6
<1> QED
  BY <1>1, <1>5, <1>6, <1>7 DEF Jobs

\* Key and exchange of a bot come apart only through a save that had loaded an
\* older row of it (update_settings).
THEOREM MismatchNeedsStale == Spec => MismatchOnlyIfStale
<1> DEFINE A == \A b \in DOMAIN db.bots :
                  Mismatch(db', b) /\ ~Mismatch(db, b)
                    => \E r \in Requests :
                         /\ req[r].pc = "flushed" /\ req[r].job = "save"
                         /\ req[r].bot = b
                         /\ req[r].old # db.bots[b]
<1>1. Inv /\ [Next]_vars => [A]_vars
  <2> SUFFICES ASSUME Inv, Next PROVE A
    OBVIOUS
  <2>1. ASSUME db' = db PROVE A
    BY <2>1
  <2>2. ASSUME NEW r \in Requests, Commit(r) PROVE A
    BY <2>2, CommitMatches
  <2>3. ASSUME NEW r \in Requests, Arrive(r) PROVE db' = db
    BY <2>3 DEF Arrive, Register, CreateKey, SaveSettings, Begin
  <2>4. ASSUME NEW r \in Requests, Proceed(r), ~Commit(r) PROVE db' = db
    BY <2>4 DEF Proceed, CheckKey, Write, Reject, Abort
  <2>5. ASSUME NEW u, Login(u) PROVE db' = db
    BY <2>5 DEF Login
  <2>6. Crash => db' = db
    BY DEF Crash
  <2> HIDE DEF A
  <2> QED
    BY <2>1, <2>2, <2>3, <2>4, <2>5, <2>6 DEF Next
<1>2. Spec => [][A]_vars
  BY <1>1, InvHolds, PTL DEF Spec
<1> QED
  BY <1>2 DEF MismatchOnlyIfStale
===============================================================================
