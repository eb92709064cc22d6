---------------------------- MODULE RegistryProofs ----------------------------
(***************************************************************************)
(* Accounts implements Registry: for its users the service with its ids,   *)
(* sessions, flushes, rollbacks and crashes is one account per login, on   *)
(* which its user alone acts.                                              *)
(*                                                                         *)
(* The argument: a login has one user and a user has one bot, so what the  *)
(* users see of one table is found again in any that has grown from it     *)
(* (SeenAgain).  A commit is then the operation of its request, on what    *)
(* is committed then, and a login is Enter; every other step leaves alone  *)
(* what is committed, and the tokens.                                      *)
(***************************************************************************)
EXTENDS AccountsProofs

\* A login is of one user, and a bot is of one (users.login_id, ensure_default_bot).
LEMMA TheUser ==
  ASSUME NEW d, Good(d), NEW u \in DOMAIN d.users
  PROVE  UserOf(d, d.users[u].login) = u
BY DEF Good, UserOf

LEMMA TheBot ==
  ASSUME NEW d, Good(d), NEW b \in DOMAIN d.bots
  PROVE  d.bots[b].user \in DOMAIN d.users /\ BotOf(d, d.bots[b].user) = b
<1>1. d.bots[b].user \in DOMAIN d.users
  BY DEF Good
<1>2. /\ BotOf(d, d.bots[b].user) \in DOMAIN d.bots
      /\ d.bots[BotOf(d, d.bots[b].user)].user = d.bots[b].user
  BY <1>1, BotFound
<1> QED
  BY <1>1, <1>2 DEF Good

LEMMA TheLogin ==
  ASSUME NEW d, Good(d), NEW u \in DOMAIN d.users
  PROVE  d.users[u].login \in Logins
<1>1. d.users \in Seq(Users)
  BY DEF Good, Databases
<1>2. d.users[u] \in Users
  BY <1>1, Rows
<1> QED
  BY <1>2 DEF Users

\* A user's account is found under the user's login.
LEMMA Seen ==
  ASSUME NEW d, Good(d)
  PROVE  /\ DOMAIN AccountsOf(d) = {d.users[u].login : u \in DOMAIN d.users}
         /\ \A u \in DOMAIN d.users :
              AccountsOf(d)[d.users[u].login] = AccountOf(d, u)
         /\ DOMAIN KeysOf(d) = DOMAIN d.keys
BY TheUser DEF AccountsOf, KeysOf

\* What users see of their accounts and keys is still there when the tables have
\* grown, but for what their bot is tied to.
LEMMA SeenAgain ==
  ASSUME NEW d, NEW e, Good(d), Good(e), Grown(d, e)
  PROVE  /\ \A u \in DOMAIN d.users :
              /\ u \in DOMAIN e.users /\ e.users[u] = d.users[u]
              /\ BotOf(e, u) = BotOf(d, u) /\ BotOf(d, u) \in DOMAIN d.bots
         /\ \A k \in DOMAIN d.keys : KeysOf(e)[k] = KeysOf(d)[k]
<1>1. ASSUME NEW u \in DOMAIN d.users
      PROVE  /\ u \in DOMAIN e.users /\ e.users[u] = d.users[u]
             /\ BotOf(e, u) = BotOf(d, u) /\ BotOf(d, u) \in DOMAIN d.bots
  <2>1. BotOf(d, u) \in DOMAIN d.bots /\ d.bots[BotOf(d, u)].user = u
    BY BotFound
  <2>2. BotOf(d, u) \in DOMAIN e.bots /\ e.bots[BotOf(d, u)].user = u
    BY <2>1 DEF Grown
  <2>3. u \in DOMAIN e.users /\ e.users[u] = d.users[u]
    BY DEF Grown
  <2>4. BotOf(e, u) \in DOMAIN e.bots /\ e.bots[BotOf(e, u)].user = u
    BY <2>3, BotFound
  <2>5. \A b, c \in DOMAIN e.bots : e.bots[b].user = e.bots[c].user => b = c
    BY DEF Good
  <2>6. BotOf(e, u) = BotOf(d, u)
    <3> DEFINE b == BotOf(d, u)
               c == BotOf(e, u)
    <3> HIDE DEF b, c
    <3>1. b \in DOMAIN e.bots /\ e.bots[b].user = u
      BY <2>2 DEF b
    <3>2. c \in DOMAIN e.bots /\ e.bots[c].user = u
      BY <2>4 DEF c
    <3>3. e.bots[c].user = e.bots[b].user
      BY <3>1, <3>2
    <3>4. c = b
      BY <2>5, <3>1, <3>2, <3>3, Zenon
    <3> QED
      BY <3>4 DEF b, c
  <2> QED
    BY <2>1, <2>3, <2>6
<1>2. ASSUME NEW k \in DOMAIN d.keys PROVE KeysOf(e)[k] = KeysOf(d)[k]
  <2>1. d.keys[k].user \in DOMAIN d.users
    BY DEF Good
  <2>2. k \in DOMAIN e.keys /\ e.keys[k] = d.keys[k]
    BY DEF Grown
  <2>3. e.users[d.keys[k].user] = d.users[d.keys[k].user]
    BY <1>1, <2>1
  <2> QED
    BY <2>2, <2>3 DEF KeysOf
<1> QED
  BY <1>1, <1>2

\* Tables that have grown by no user and by no key, and in which no bot is tied to
\* something else, show the same.
LEMMA SeenSame ==
  ASSUME NEW d, NEW e, Good(d), Good(e), Grown(d, e)
  PROVE  /\ DOMAIN e.keys = DOMAIN d.keys => KeysOf(e) = KeysOf(d)
         /\ (/\ DOMAIN e.users = DOMAIN d.users
             /\ \A b \in DOMAIN d.bots : e.bots[b] = d.bots[b])
              => AccountsOf(e) = AccountsOf(d)
<1>1. ASSUME DOMAIN e.keys = DOMAIN d.keys PROVE KeysOf(e) = KeysOf(d)
  <2>1. \A k \in DOMAIN d.keys : KeysOf(e)[k] = KeysOf(d)[k]
    BY SeenAgain
  <2> QED
    BY <1>1, <2>1 DEF KeysOf
<1>2. ASSUME DOMAIN e.users = DOMAIN d.users,
             \A b \in DOMAIN d.bots : e.bots[b] = d.bots[b]
      PROVE  AccountsOf(e) = AccountsOf(d)
  <2> DEFINE logins == {d.users[u].login : u \in DOMAIN d.users}
  <2>1. \A u \in DOMAIN d.users :
          /\ e.users[u] = d.users[u] /\ AccountOf(e, u) = AccountOf(d, u)
    BY <1>2, SeenAgain DEF AccountOf
  <2>2. {e.users[u].login : u \in DOMAIN e.users} = logins
    BY <1>2, <2>1
  <2>3. ASSUME NEW l \in logins
        PROVE  AccountOf(e, UserOf(e, l)) = AccountOf(d, UserOf(d, l))
    <3>1. PICK u \in DOMAIN d.users : l = d.users[u].login
      OBVIOUS
    <3>2. UserOf(e, l) = u /\ UserOf(d, l) = u
      BY <1>2, <2>1, <3>1, TheUser
    <3> QED
      BY <2>1, <3>2
  <2> QED
    BY <2>2, <2>3, Zenon DEF AccountsOf
<1> QED
  BY <1>1, <1>2

-------------------------------------------------------------------------------
(* The rows the requests write.                                             *)

\* A user more, with the default bot.
LEMMA RegisteredRows ==
  ASSUME NEW d, Good(d), NEW j \in Registrations
  PROVE  LET e == Registered(d, j)
             n == Len(e.users)
         IN  /\ DOMAIN e.users = DOMAIN d.users \cup {n} /\ n \notin DOMAIN d.users
             /\ e.users[n] = [login |-> j.login, password |-> j.password]
             /\ \E b \in DOMAIN e.bots : e.bots[b] = DefaultBot(n)
             /\ e.keys = d.keys
<1> DEFINE row == [login |-> j.login, password |-> j.password]
           n   == Len(d.users) + 1
           e   == Registered(d, j)
<1>1. /\ d.users \in Seq(Users) /\ d.bots \in Seq(BotRows)
      /\ row \in Users /\ DefaultBot(n) \in BotRows
  BY AccountsAssumption
     DEF Good, Databases, Registrations, Users, DefaultBot, BotRows
<1>2. /\ e.users = Append(d.users, row) /\ e.keys = d.keys
      /\ e.bots = Append(d.bots, DefaultBot(n))
  BY DEF Registered, Good, Databases
<1>3. /\ DOMAIN e.users = DOMAIN d.users \cup {n} /\ n \notin DOMAIN d.users
      /\ Len(e.users) = n /\ e.users[n] = row
  BY <1>1, <1>2, Appended
<1>4. /\ Len(d.bots) + 1 \in DOMAIN e.bots
      /\ e.bots[Len(d.bots) + 1] = DefaultBot(n)
  BY <1>1, <1>2, Appended
<1> HIDE DEF e, n, row
<1>5. \E b \in DOMAIN e.bots : e.bots[b] = DefaultBot(n)
  BY <1>4
<1> QED
  BY <1>2, <1>3, <1>5 DEF e, row

\* A key more, with an id that no key has.
LEMMA KeyAddedRows ==
  ASSUME NEW d, Good(d), NEW j \in KeyCreations
  PROVE  LET e == KeyAdded(d, j)
             k == Len(e.keys)
         IN  /\ DOMAIN e.keys = DOMAIN d.keys \cup {k} /\ k \notin DOMAIN d.keys
             /\ e.keys[k] = [user |-> j.user, exchange |-> j.exchange]
             /\ e.users = d.users /\ e.bots = d.bots
<1> DEFINE row == [user |-> j.user, exchange |-> j.exchange]
           e   == KeyAdded(d, j)
<1>1. d.keys \in Seq(Keys) /\ row \in Keys
  BY DEF Good, Databases, KeyCreations, Keys
<1>2. /\ e.users = d.users /\ e.bots = d.bots /\ e.keys = Append(d.keys, row)
  BY DEF KeyAdded, Good, Databases
<1> QED
  BY <1>1, <1>2, Appended

\* One row of one bot, each of its two ties the requested or the committed one.
LEMMA SavedRows ==
  ASSUME NEW d, Good(d), NEW j \in Saves, j.bot \in DOMAIN d.bots,
         NEW e, e = Saved(d, j)
  PROVE  /\ e.users = d.users /\ e.keys = d.keys
         /\ DOMAIN e.bots = DOMAIN d.bots
         /\ \A b \in DOMAIN d.bots : b # j.bot => e.bots[b] = d.bots[b]
         /\ e.bots[j.bot].exchange \in {j.exchange, d.bots[j.bot].exchange}
         /\ e.bots[j.bot].key \in {j.key, d.bots[j.bot].key}
<1> DEFINE old == d.bots[j.bot]
           row == [user     |-> old.user,
                   exchange |-> IF j.exchange = j.old.exchange
                                THEN old.exchange ELSE j.exchange,
                   key      |-> IF j.key = j.old.key THEN old.key ELSE j.key]
<1>1. d \in Databases /\ d.bots \in Seq(BotRows) /\ j.bot # NoBot
  <2>1. d \in Databases /\ d.bots \in Seq(BotRows)
    BY DEF Good, Databases
  <2> QED
    BY <2>1, Rows DEF NoBot
<1>2. e = [d EXCEPT !.bots[j.bot] = row]
  BY <1>1 DEF Saved
<1>3. /\ e.users = d.users /\ e.keys = d.keys
      /\ e.bots = [d.bots EXCEPT ![j.bot] = row]
  BY <1>1, <1>2 DEF Databases
<1>4. row.exchange \in {j.exchange, old.exchange} /\ row.key \in {j.key, old.key}
  OBVIOUS
<1> HIDE DEF row, old
<1>5. /\ DOMAIN e.bots = DOMAIN d.bots
      /\ e.bots[j.bot] = row
      /\ \A b \in DOMAIN d.bots : b # j.bot => e.bots[b] = d.bots[b]
  BY <1>1, <1>3, Zenon
<1> QED
  BY <1>3, <1>4, <1>5 DEF old

-------------------------------------------------------------------------------
(* The steps.                                                               *)

\* A registration is committed: Join.
LEMMA CommitJoins ==
  ASSUME Inv, NEW r \in Requests, Commit(r), req[r] \in Registrations
  PROVE  Promise!Join(req[r].login, req[r].password)
<1> DEFINE j == req[r]
           n == Len(db'.users)
           t == [sub |-> n, login |-> j.login, password |-> j.password]
<1>1. j.job = "register" /\ Good(db)
  BY DEF Registrations, Inv
<1>2. db' = Registered(db, j) /\ ~HasLogin(db, j.login)
  BY <1>1 DEF Commit, Inv, TransactionInv, Apply, Conflict
<1>3. Good(db') /\ Grown(db, db')
  BY <1>1, <1>2, RegisteredGood
<1>4. /\ DOMAIN db'.users = DOMAIN db.users \cup {n} /\ n \notin DOMAIN db.users
      /\ db'.users[n] = [login |-> j.login, password |-> j.password]
      /\ \E b \in DOMAIN db'.bots : db'.bots[b] = DefaultBot(n)
      /\ db'.keys = db.keys
  BY <1>1, <1>2, RegisteredRows
<1>5. tokens' = tokens \cup {t}
  BY <1>1 DEF Commit, Answer
<1> HIDE DEF j, n
<1>6. \A u \in DOMAIN db.users :
        /\ u \in DOMAIN db'.users /\ db'.users[u] = db.users[u]
        /\ BotOf(db', u) = BotOf(db, u) /\ BotOf(db, u) \in DOMAIN db.bots
  BY <1>1, <1>3, SeenAgain
<1>7. \A b \in DOMAIN db.bots : db'.bots[b] = db.bots[b]
  BY <1>1, <1>2, RegisteredGood DEF j
<1>8. \A u \in DOMAIN db.users : AccountOf(db', u) = AccountOf(db, u)
  BY <1>6, <1>7 DEF AccountOf
<1>9. AccountOf(db', n) = [password |-> j.password, exchange |-> DefaultExchange,
                           key |-> None]
  <2>1. PICK b \in DOMAIN db'.bots : db'.bots[b] = DefaultBot(n)
    BY <1>4
  <2>2. BotOf(db', n) = b
    BY <1>3, <2>1, TheBot DEF DefaultBot
  <2> QED
    BY <1>4, <2>1, <2>2 DEF AccountOf, DefaultBot
<1> DEFINE joined == [l \in DOMAIN AccountsOf(db) \cup {j.login} |->
                        IF l = j.login
                        THEN [password |-> j.password,
                              exchange |-> DefaultExchange, key |-> None]
                        ELSE AccountsOf(db)[l]]
           logins == {db.users[u].login : u \in DOMAIN db.users}
<1>10. /\ DOMAIN AccountsOf(db) = logins
       /\ \A u \in DOMAIN db.users :
            AccountsOf(db)[db.users[u].login] = AccountOf(db, u)
       /\ \A u \in DOMAIN db'.users :
            AccountsOf(db')[db'.users[u].login] = AccountOf(db', u)
       /\ DOMAIN AccountsOf(db') = {db'.users[u].login : u \in DOMAIN db'.users}
  BY <1>1, <1>3, Seen
<1>11. j.login \notin logins
  BY <1>2 DEF HasLogin
<1>12. {db'.users[u].login : u \in DOMAIN db'.users} = logins \cup {j.login}
  BY <1>4, <1>6
<1>13. AccountsOf(db') = joined
  <2>1. DOMAIN AccountsOf(db') = DOMAIN joined
    BY <1>10, <1>12
  <2>2. AccountsOf(db')[j.login] = joined[j.login]
    BY <1>4, <1>9, <1>10
  <2>3. ASSUME NEW l \in logins PROVE AccountsOf(db')[l] = joined[l]
    <3>1. PICK u \in DOMAIN db.users : l = db.users[u].login
      OBVIOUS
    <3>2. AccountsOf(db')[l] = AccountOf(db, u) /\ AccountsOf(db)[l] = AccountOf(db, u)
      BY <1>6, <1>8, <1>10, <3>1
    <3>3. l # j.login
      BY <1>11
    <3> QED
      BY <1>10, <3>2, <3>3
  <2>4. \A l \in DOMAIN AccountsOf(db') : AccountsOf(db')[l] = joined[l]
    BY <1>10, <1>12, <2>2, <2>3
  <2>5. AccountsOf(db') = [l \in DOMAIN AccountsOf(db') |-> AccountsOf(db')[l]]
    BY DEF AccountsOf
  <2> QED
    BY <2>1, <2>4, <2>5
<1>14. KeysOf(db') = KeysOf(db)
  BY <1>1, <1>3, <1>4, SeenSame
<1>15. EnteredOf(db', tokens') = EnteredOf(db, tokens) \cup {j.login}
  <2>1. db'.users[t.sub].login = j.login
    BY <1>4
  <2>2. \A v \in tokens : db'.users[v.sub] = db.users[v.sub]
    BY <1>6 DEF Inv, TokensIdentify
  <2> HIDE DEF t
  <2> QED
    BY <1>5, <2>1, <2>2 DEF EnteredOf
<1> QED
  BY <1>10, <1>11, <1>13, <1>14, <1>15 DEF Promise!Join, j

\* What clients have entered stays entered when the tables grow.
LEMMA EnteredSame ==
  ASSUME Inv, Grown(db, db'), tokens' = tokens
  PROVE  EnteredOf(db', tokens') = EnteredOf(db, tokens)
<1>1. \A t \in tokens : db'.users[t.sub] = db.users[t.sub]
  BY DEF Inv, TokensIdentify, Grown
<1> QED
  BY <1>1 DEF EnteredOf

\* The creation of a key is committed: AddKey.
LEMMA CommitAdds ==
  ASSUME Inv, MeantInv, NEW r \in Requests, Commit(r), req[r] \in KeyCreations
  PROVE  /\ db.users[req[r].user].login \in Logins
         /\ Promise!AddKey(db.users[req[r].user].login, req[r].exchange)
<1> DEFINE j == req[r]
           k == Len(db'.keys)
           login == db.users[j.user].login
           row == [owner |-> login, exchange |-> j.exchange]
<1>1. j.job = "key" /\ j.pc = "flushed" /\ Good(db) /\ Known(db, j)
  BY DEF KeyCreations, Inv, Commit
<1>2. db' = KeyAdded(db, j) /\ j.user \in DOMAIN db.users
  BY <1>1 DEF Commit, Inv, TransactionInv, Apply, Known
<1>3. Good(db') /\ Grown(db, db')
  BY <1>1, <1>2, KeyAddedGood
<1>4. /\ DOMAIN db'.keys = DOMAIN db.keys \cup {k} /\ k \notin DOMAIN db.keys
      /\ db'.keys[k] = [user |-> j.user, exchange |-> j.exchange]
      /\ db'.users = db.users /\ db'.bots = db.bots
  BY <1>1, <1>2, KeyAddedRows
<1>5. tokens' = tokens
  BY <1>1 DEF Commit, Answer
<1>6. login \in EnteredOf(db, tokens)
  BY <1>1 DEF MeantInv, EnteredOf
<1>7. login \in Logins
  BY <1>1, <1>2, TheLogin
<1> HIDE DEF j, k
<1>8. AccountsOf(db') = AccountsOf(db)
  BY <1>1, <1>3, <1>4, SeenSame
<1>9. EnteredOf(db', tokens') = EnteredOf(db, tokens)
  BY <1>3, <1>5, EnteredSame
<1>10. KeysOf(db')[k] = row
  BY <1>4 DEF KeysOf
<1>11. \A i \in DOMAIN db.keys : KeysOf(db')[i] = KeysOf(db)[i]
  BY <1>1, <1>3, SeenAgain
<1>12. DOMAIN KeysOf(db') = DOMAIN db.keys \cup {k} /\ DOMAIN KeysOf(db) = DOMAIN db.keys
  BY <1>4 DEF KeysOf
<1>13. KeysOf(db') = [i \in DOMAIN KeysOf(db) \cup {k} |->
                        IF i = k THEN row ELSE KeysOf(db)[i]]
  <2>1. KeysOf(db') = [i \in DOMAIN KeysOf(db') |-> KeysOf(db')[i]]
    BY DEF KeysOf
  <2> HIDE DEF row
  <2> QED
    BY <1>4, <1>10, <1>11, <1>12, <2>1
<1>14. k \in DOMAIN KeysOf(db') \ DOMAIN KeysOf(db)
  BY <1>4, <1>12
<1>15. Promise!AddKey(login, j.exchange)
  BY <1>6, <1>8, <1>9, <1>13, <1>14 DEF Promise!AddKey
<1> QED
  BY <1>7, <1>15 DEF j

\* A save is committed: Tie.
LEMMA CommitTies ==
  ASSUME Inv, MeantInv, NEW r \in Requests, Commit(r), req[r] \in Saves
  PROVE  /\ db.users[req[r].user].login \in Logins
         /\ req[r].key \in DOMAIN KeysOf(db) \cup {None}
         /\ Promise!Tie(db.users[req[r].user].login, req[r].exchange, req[r].key)
<1> DEFINE j == req[r]
           login == db.users[j.user].login
           old == db.bots[j.bot]
           new == db'.bots[j.bot]
           A == AccountsOf(db)
<1>1. j.job = "save" /\ j.pc = "flushed" /\ Good(db) /\ Known(db, j)
  BY DEF Saves, Inv, Commit
<1>2. /\ db' = Saved(db, j) /\ j.user \in DOMAIN db.users
      /\ j.bot \in DOMAIN db.bots /\ old.user = j.user
      /\ j.key # None => KeyFound(db, j.key, j.user, j.exchange)
  BY <1>1 DEF Commit, Inv, TransactionInv, Apply, Known
<1>3. Good(db') /\ Grown(db, db')
  BY <1>1, <1>2, SavedGood
<1>4. /\ db'.users = db.users /\ db'.keys = db.keys
      /\ \A b \in DOMAIN db.bots : b # j.bot => db'.bots[b] = db.bots[b]
      /\ new.exchange \in {j.exchange, old.exchange}
      /\ new.key \in {j.key, old.key}
  <2>1. j \in Saves
    OBVIOUS
  <2> HIDE DEF j
  <2> QED
    BY <1>1, <1>2, <2>1, SavedRows
<1>5. tokens' = tokens
  BY <1>1 DEF Commit, Answer
<1>6. login \in EnteredOf(db, tokens)
  BY <1>1 DEF MeantInv, EnteredOf
<1>7. login \in Logins
  BY <1>1, <1>2, TheLogin
<1>8. j.key = None \/ /\ j.key \in DOMAIN KeysOf(db)
                      /\ KeysOf(db)[j.key] = [owner |-> login, exchange |-> j.exchange]
  BY <1>2 DEF KeyFound, KeysOf
<1> HIDE DEF j, old, new
<1>9. KeysOf(db') = KeysOf(db)
  BY <1>1, <1>3, <1>4, SeenSame
<1>10. EnteredOf(db', tokens') = EnteredOf(db, tokens)
  BY <1>3, <1>5, EnteredSame
<1>11. \A u \in DOMAIN db.users :
         /\ BotOf(db', u) = BotOf(db, u) /\ BotOf(db, u) \in DOMAIN db.bots
         /\ A[db.users[u].login] = AccountOf(db, u)
         /\ AccountsOf(db')[db.users[u].login] = AccountOf(db', u)
  <2>1. \A u \in DOMAIN db.users :
          BotOf(db', u) = BotOf(db, u) /\ BotOf(db, u) \in DOMAIN db.bots
    BY <1>1, <1>3, SeenAgain
  <2>2. \A u \in DOMAIN db.users : A[db.users[u].login] = AccountOf(db, u)
    BY <1>1, Seen
  <2>3. \A u \in DOMAIN db'.users :
          AccountsOf(db')[db'.users[u].login] = AccountOf(db', u)
    BY <1>3, Seen
  <2> QED
    BY <1>4, <2>1, <2>2, <2>3
<1>12. BotOf(db, j.user) = j.bot
  BY <1>1, <1>2, TheBot DEF old
<1>13. /\ A[login] = [password |-> db.users[j.user].password,
                      exchange |-> old.exchange, key |-> old.key]
       /\ AccountsOf(db')[login] = [password |-> db.users[j.user].password,
                                    exchange |-> new.exchange, key |-> new.key]
  <2>1. A[login] = AccountOf(db, j.user)
        /\ AccountsOf(db')[login] = AccountOf(db', j.user)
    BY <1>2, <1>11
  <2>2. BotOf(db', j.user) = j.bot
    BY <1>2, <1>11, <1>12
  <2> HIDE DEF login, A
  <2> QED
    BY <1>4, <1>12, <2>1, <2>2 DEF AccountOf, old, new
<1>14. ASSUME NEW u \in DOMAIN db.users, u # j.user
       PROVE  AccountsOf(db')[db.users[u].login] = A[db.users[u].login]
  <2>1. BotOf(db, u) # j.bot
    BY <1>1, <1>2, <1>14, BotFound DEF old
  <2>2. db'.bots[BotOf(db, u)] = db.bots[BotOf(db, u)]
    BY <1>4, <1>11, <2>1
  <2>3. AccountOf(db', u) = AccountOf(db, u)
    BY <1>4, <1>11, <2>2 DEF AccountOf
  <2> QED
    BY <1>11, <2>3
<1>15. AccountsOf(db') = [A EXCEPT ![login] = [password |-> A[login].password,
                                               exchange |-> new.exchange,
                                               key |-> new.key]]
  <2> DEFINE logins == {db.users[u].login : u \in DOMAIN db.users}
             row == [password |-> A[login].password,
                     exchange |-> new.exchange, key |-> new.key]
  <2>1. DOMAIN A = logins /\ DOMAIN AccountsOf(db') = logins
    <3>1. DOMAIN A = logins
      BY <1>1, Seen
    <3>2. DOMAIN AccountsOf(db') = {db'.users[u].login : u \in DOMAIN db'.users}
      BY <1>3, Seen
    <3> QED
      BY <1>4, <3>1, <3>2
  <2>2. /\ A = [l \in logins |-> A[l]]
        /\ AccountsOf(db') = [l \in logins |-> AccountsOf(db')[l]]
    BY <2>1 DEF AccountsOf
  <2>3. login \in logins
    BY <1>2
  <2>4. AccountsOf(db')[login] = row
    <3>1. A[login].password = db.users[j.user].password
      BY <1>13
    <3> HIDE DEF A
    <3> QED
      BY <1>13, <3>1
  <2>5. ASSUME NEW l \in logins, l # login PROVE AccountsOf(db')[l] = A[l]
    <3>1. PICK u \in DOMAIN db.users : l = db.users[u].login
      OBVIOUS
    <3> QED
      BY <1>14, <2>5, <3>1
  <2> HIDE DEF row, login, A, logins
  <2>6. AccountsOf(db') = [A EXCEPT ![login] = row]
    BY <2>2, <2>3, <2>4, <2>5
  <2> QED
    BY <2>6 DEF row
<1>16. /\ new.exchange \in {j.exchange, A[login].exchange}
       /\ new.key \in {j.key, A[login].key}
  BY <1>4, <1>13
<1>17. Promise!Tie(login, j.exchange, j.key)
  <2> HIDE DEF login, A
  <2> QED
    BY <1>6, <1>8, <1>9, <1>10, <1>15, <1>16 DEF Promise!Tie, A
<1> QED
  BY <1>7, <1>8, <1>17 DEF j

\* A client logs in: Enter.
LEMMA LoginEnters ==
  ASSUME Inv, NEW u, Login(u)
  PROVE  db.users[u].login \in Logins /\ Promise!Enter(db.users[u].login)
<1> DEFINE login == db.users[u].login
           t == [sub |-> u, login |-> login, password |-> db.users[u].password]
<1>1. /\ u \in DOMAIN db.users /\ tokens' = tokens \cup {t} /\ db' = db
      /\ Good(db)
  BY DEF Login, Inv
<1>2. login \in Logins
  BY <1>1, TheLogin
<1>3. login \in DOMAIN AccountsOf(db)
  BY <1>1, Seen
<1>4. EnteredOf(db', tokens') = EnteredOf(db, tokens) \cup {login}
  <2>1. db.users[t.sub].login = login
    OBVIOUS
  <2> HIDE DEF t
  <2> QED
    BY <1>1, <2>1 DEF EnteredOf
<1> QED
  BY <1>1, <1>2, <1>3, <1>4 DEF Promise!Enter

\* For the users the accounts are the atomic ones of Registry: one per login,
\* joined at once with its bot, acted on under its login alone, and never lost,
\* whatever the threads had read before, and through rollbacks and crashes
\* (register, login, create_api_key, update_settings, current_user).
THEOREM RegistryKept == Spec => KeepsRegistry
<1>1. Init => Promise!Init
  BY DEF Init, Promise!Init, AccountsOf, KeysOf, EnteredOf
<1>2. ASSUME Inv, MeantInv, [Next]_vars
      PROVE  [Promise!Next]_(Promise!vars)
  <2>1. ASSUME UNCHANGED <<db, tokens>> PROVE UNCHANGED Promise!vars
    BY <2>1 DEF Promise!vars
  <2>2. ASSUME NEW r \in Requests, Commit(r) PROVE Promise!Next
    <3>1. req[r] \in Jobs /\ Known(db, req[r])
      BY <1>2, <2>2 DEF Inv, Commit, Idle
    <3>2. CASE req[r] \in Registrations
      <4>1. req[r].login \in Logins /\ req[r].password \in Passwords
        BY <3>2 DEF Registrations
      <4> QED
        BY <1>2, <2>2, <3>2, <4>1, CommitJoins DEF Promise!Next
    <3>3. CASE req[r] \in KeyCreations
      <4>1. req[r].exchange \in Exchanges
        BY <3>3 DEF KeyCreations
      <4> QED
        BY <1>2, <2>2, <3>3, <4>1, CommitAdds DEF Promise!Next
    <3>4. CASE req[r] \in Saves
      <4>1. req[r].exchange \in Exchanges
        BY <3>4 DEF Saves
      <4> QED
        BY <1>2, <2>2, <3>4, <4>1, CommitTies DEF Promise!Next
    <3> QED
      BY <3>1, <3>2, <3>3, <3>4 DEF Jobs
  <2>3. ASSUME NEW u, Login(u) PROVE Promise!Next
    BY <1>2, <2>3, LoginEnters DEF Promise!Next
  <2>4. ASSUME NEW r \in Requests, Arrive(r) PROVE UNCHANGED <<db, tokens>>
    BY <2>4 DEF Arrive, Register, CreateKey, SaveSettings, Begin
  <2>5. ASSUME NEW r \in Requests, Proceed(r), ~Commit(r)
        PROVE  UNCHANGED <<db, tokens>>
    BY <2>5 DEF Proceed, CheckKey, Write, Reject, Abort
  <2>6. Crash \/ UNCHANGED vars => UNCHANGED <<db, tokens>>
    BY DEF Crash, vars
  <2> QED
    BY <1>2, <2>1, <2>2, <2>3, <2>4, <2>5, <2>6 DEF Next
<1> QED
  BY <1>1, <1>2, InvHolds, MeantHolds, PTL DEF Spec, KeepsRegistry, Promise!Spec
===============================================================================
