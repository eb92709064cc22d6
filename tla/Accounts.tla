------------------------------- MODULE Accounts -------------------------------
(***************************************************************************)
(* Users, their default bots and their API keys: registration, login, the  *)
(* creation of keys and the part of PUT /bot/settings that ties a bot to   *)
(* an exchange and a key.                                                  *)
(*                                                                         *)
(* A request is a thread with a session of its own: it reads what is       *)
(* committed, its flush takes SQLite's one write lock, and it is answered  *)
(* once the session has been committed.  The id of a row is its position   *)
(* in its table: nothing is deleted, and SQLite gives an id that was rolled *)
(* back to the next row.  The same threads are in BotService, for the      *)
(* columns that steer a tick.                                              *)
(***************************************************************************)
EXTENDS Naturals, Sequences

CONSTANTS
  None,
  Logins, Passwords,
  Exchanges, DefaultExchange,
  Requests,         \* threads that serve API requests
  MaxUsers, MaxKeys \* bounds: nothing is begun that adds to that many rows

ASSUME AccountsAssumption ==
  /\ DefaultExchange \in Exchanges
  /\ None \notin Nat
  /\ "free" \notin Requests
  /\ MaxUsers \in Nat /\ MaxKeys \in Nat

VARIABLES
  db,       \* what is committed: users, bots and keys, tables of rows
  pending,  \* db with the writes of the open write transaction
  lock,     \* the request that holds the write lock, or "free"
  req,      \* per request, how far it is and what it wants
  tokens    \* the access tokens clients hold, with what they gave for them

vars == <<db, pending, lock, req, tokens>>

Users   == [login : Logins, password : Passwords]
Keys    == [user : Nat, exchange : Exchanges]
BotRows == [user : Nat, exchange : Exchanges, key : Nat \cup {None}]

\* The default bot of user u: on the configured exchange, without a key.
DefaultBot(u) == [user |-> u, exchange |-> DefaultExchange, key |-> None]

Idle == [pc |-> "idle"]

Init ==
  /\ db = [users |-> <<>>, bots |-> <<>>, keys |-> <<>>]
  /\ pending = db
  /\ lock = "free"
  /\ req = [r \in Requests |-> Idle]
  /\ tokens = {}

-------------------------------------------------------------------------------
(* What the requests read.                                                  *)

HasLogin(d, login) == \E u \in DOMAIN d.users : d.users[u].login = login

\* Mutant: the query forgets whose bots are wanted.
BotsOf_AnyUser(d, u) == DOMAIN d.bots

\* The user's bots; the code takes the oldest, and creates one if there is none.
BotsOf(d, u) == {b \in DOMAIN d.bots : d.bots[b].user = u}
NoBot == 0
BotOf(d, u) ==
  IF BotsOf(d, u) = {} THEN NoBot
  ELSE CHOOSE b \in BotsOf(d, u) : \A c \in BotsOf(d, u) : b <= c

\* Mutants: a key of any user, or of any exchange, will do.
KeyFound_AnyUser(d, key, user, exchange) ==
  key \in DOMAIN d.keys /\ d.keys[key].exchange = exchange
KeyFound_AnyExchange(d, key, user, exchange) ==
  key \in DOMAIN d.keys /\ d.keys[key].user = user

KeyFound(d, key, user, exchange) ==
  key \in DOMAIN d.keys /\ d.keys[key] = [user |-> user, exchange |-> exchange]

-------------------------------------------------------------------------------
(* What they write.                                                         *)

\* Mutant: the bot is left to the user's first request.
Registered_NoBot(d, j) ==
  [d EXCEPT !.users = Append(@, [login |-> j.login, password |-> j.password])]

\* register: the user and the default bot, in one transaction.
Registered(d, j) ==
  [d EXCEPT !.users = Append(@, [login |-> j.login, password |-> j.password]),
            !.bots  = Append(@, DefaultBot(Len(d.users) + 1))]

KeyAdded(d, j) ==
  [d EXCEPT !.keys = Append(@, [user |-> j.user, exchange |-> j.exchange])]

\* update_settings: the columns that differ from what the session loaded.  A user
\* without a bot would get one (no reachable state has such a user).
Saved(d, j) ==
  IF j.bot = NoBot
  THEN [d EXCEPT !.bots = Append(@, [user |-> j.user, exchange |-> j.exchange,
                                     key |-> j.key])]
  ELSE [d EXCEPT !.bots[j.bot] =
          [user     |-> d.bots[j.bot].user,
           exchange |-> IF j.exchange = j.old.exchange
                        THEN d.bots[j.bot].exchange ELSE j.exchange,
           key      |-> IF j.key = j.old.key
                        THEN d.bots[j.bot].key ELSE j.key]]

Apply(d, j) ==
  CASE j.job = "register" -> Registered(d, j)
    [] j.job = "key"      -> KeyAdded(d, j)
    [] j.job = "save"     -> Saved(d, j)

\* Mutant: login_id has no unique constraint.
Conflict_Never(d, j) == FALSE

\* users.login_id is unique: the database refuses a second row.
Conflict(d, j) == j.job = "register" /\ HasLogin(d, j.login)

-------------------------------------------------------------------------------
(* The requests.                                                            *)

Begin(r, job) ==
  /\ req[r].pc = "idle"
  /\ req' = [req EXCEPT ![r] = job]
  /\ UNCHANGED <<db, pending, lock, tokens>>

\* POST /auth/register up to its first flush: the login is looked for, and the
\* password hashed.  A login that exists is refused and changes nothing.
Register(r, login, password) ==
  /\ Len(db.users) < MaxUsers
  /\ ~HasLogin(db, login)
  /\ Begin(r, [pc |-> "read", job |-> "register",
               login |-> login, password |-> password])

\* The user a request is made for (current_user): the token's subject.
CurrentUser(t) == t.sub \in DOMAIN db.users

\* POST /api-keys up to its flush.
CreateKey(r, t, exchange) ==
  /\ Len(db.keys) < MaxKeys
  /\ CurrentUser(t)
  /\ Begin(r, [pc |-> "read", job |-> "key", user |-> t.sub, exchange |-> exchange])

\* PUT /bot/settings: the bot is loaded; a key that is named is looked for after.
SaveSettings(r, t, exchange, key) ==
  /\ CurrentUser(t)
  /\ LET b == BotOf(db, t.sub)
     IN  Begin(r, [pc   |-> IF key = None THEN "read" ELSE "check",
                   job  |-> "save", user |-> t.sub,
                   exchange |-> exchange, key |-> key, bot |-> b,
                   old  |-> IF b = NoBot THEN DefaultBot(t.sub) ELSE db.bots[b]])

\* The key must be one of this user and for the requested exchange.
CheckKey(r) ==
  /\ req[r].pc = "check"
  /\ req' = [req EXCEPT ![r] =
               IF KeyFound(db, req[r].key, req[r].user, req[r].exchange)
               THEN [req[r] EXCEPT !.pc = "read"] ELSE Idle]
  /\ UNCHANGED <<db, pending, lock, tokens>>

\* The client of a registration gets a token for the new user.
Answer(d, j) ==
  IF j.job = "register"
  THEN {[sub |-> Len(d.users), login |-> j.login, password |-> j.password]}
  ELSE {}

\* Mutant: the answer is sent before the commit.
Write_AnswersFirst(r) ==
  /\ req[r].pc = "read"
  /\ lock = "free"
  /\ ~Conflict(db, req[r])
  /\ lock' = r
  /\ pending' = Apply(db, req[r])
  /\ req' = [req EXCEPT ![r].pc = "flushed"]
  /\ tokens' = tokens \cup Answer(Apply(db, req[r]), req[r])
  /\ UNCHANGED db

\* Mutant: the database lets a second writer in.
Write_NoLock(r) ==
  /\ req[r].pc = "read"
  /\ ~Conflict(db, req[r])
  /\ lock' = r
  /\ pending' = Apply(pending, req[r])
  /\ req' = [req EXCEPT ![r].pc = "flushed"]
  /\ UNCHANGED <<db, tokens>>

\* The flush: it takes the write lock.
Write(r) ==
  /\ req[r].pc = "read"
  /\ lock = "free"
  /\ ~Conflict(db, req[r])
  /\ lock' = r
  /\ pending' = Apply(db, req[r])
  /\ req' = [req EXCEPT ![r].pc = "flushed"]
  /\ UNCHANGED <<db, tokens>>

\* The flush fails: the lock is not free for longer than the busy timeout, or
\* the login was registered since it was looked for.
Reject(r) ==
  /\ req[r].pc = "read"
  /\ lock # "free" \/ Conflict(db, req[r])
  /\ req' = [req EXCEPT ![r] = Idle]
  /\ UNCHANGED <<db, pending, lock, tokens>>

\* The session is committed and the request answered.
Commit(r) ==
  /\ req[r].pc = "flushed"
  /\ db' = pending
  /\ lock' = "free"
  /\ req' = [req EXCEPT ![r] = Idle]
  /\ tokens' = tokens \cup Answer(pending, req[r])
  /\ UNCHANGED pending

\* The commit, or what follows the flush, fails: the session is rolled back.
Abort(r) ==
  /\ req[r].pc = "flushed"
  /\ pending' = db
  /\ lock' = "free"
  /\ req' = [req EXCEPT ![r] = Idle]
  /\ UNCHANGED <<db, tokens>>

\* POST /auth/login: one read; a token for a user of this login and password.
Login(u) ==
  /\ u \in DOMAIN db.users
  /\ tokens' = tokens \cup {[sub |-> u, login |-> db.users[u].login,
                             password |-> db.users[u].password]}
  /\ UNCHANGED <<db, pending, lock, req>>

\* The process dies and is started again; clients keep their tokens.
Crash ==
  /\ pending' = db
  /\ lock' = "free"
  /\ req' = [r \in Requests |-> Idle]
  /\ UNCHANGED <<db, tokens>>

Arrive(r) ==
  \/ \E login \in Logins, password \in Passwords : Register(r, login, password)
  \/ \E t \in tokens, exchange \in Exchanges : CreateKey(r, t, exchange)
  \/ \E t \in tokens, exchange \in Exchanges, key \in 1 .. MaxKeys \cup {None} :
       SaveSettings(r, t, exchange, key)

Proceed(r) == CheckKey(r) \/ Write(r) \/ Reject(r) \/ Commit(r) \/ Abort(r)

Next ==
  \/ \E r \in Requests : Arrive(r) \/ Proceed(r)
  \/ \E u \in 1 .. MaxUsers : Login(u)
  \/ Crash

Spec == Init /\ [][Next]_vars

-------------------------------------------------------------------------------
(* Types.                                                                   *)

Databases == [users : Seq(Users), bots : Seq(BotRows), keys : Seq(Keys)]

Tokens == [sub : Nat, login : Logins, password : Passwords]

Registrations == [pc : {"read", "flushed"}, job : {"register"},
                  login : Logins, password : Passwords]
KeyCreations  == [pc : {"read", "flushed"}, job : {"key"},
                  user : Nat, exchange : Exchanges]
Saves         == [pc : {"check", "read", "flushed"}, job : {"save"},
                  user : Nat, exchange : Exchanges, key : Nat \cup {None},
                  bot : Nat, old : BotRows]

\* Rows have their columns; a request is idle or one of three kinds.
TypeOK ==
  /\ db \in Databases
  /\ pending \in Databases
  /\ lock \in {"free"} \cup Requests
  /\ req \in [Requests -> {Idle} \cup Registrations \cup KeyCreations \cup Saves]
  /\ tokens \subseteq Tokens

-------------------------------------------------------------------------------
(* Safety.                                                                  *)

\* Two registrations of one login that both found it free do not both succeed
\* (register looks, hashes the password for a while, and only then inserts).
UniqueLogins ==
  \A u, v \in DOMAIN db.users : db.users[u].login = db.users[v].login => u = v

\* No user gets a second default bot, which the passes would trade on unseen: no
\* constraint forbids it, ensure_default_bot looks and then inserts, and only the
\* fact that register commits the user together with the bot prevents it.
NoSecondBot ==
  \A b, c \in DOMAIN db.bots : db.bots[b].user = db.bots[c].user => b = c

\* A client's token stands for the account it registered or logged in to, with
\* the password it gave, although ids are given out before the commit and are
\* reused after a rollback or a crash (create_access_token, current_user).
TokensIdentify ==
  \A t \in tokens :
    /\ t.sub \in DOMAIN db.users
    /\ db.users[t.sub] = [login |-> t.login, password |-> t.password]

\* No bot is tied to another user's API key, or to one that does not exist
\* (update_settings names the key by an id the client sends).
KeysOwned ==
  \A b \in DOMAIN db.bots :
    LET bot == db.bots[b]
    IN  bot.key # None => /\ bot.key \in DOMAIN db.keys
                          /\ db.keys[bot.key].user = bot.user

\* The bot has a key of another exchange than its own.
Mismatch(d, b) ==
  /\ d.bots[b].key # None
  /\ d.keys[d.bots[b].key].exchange # d.bots[b].exchange

\* Key and exchange are checked against each other, but written column by
\* column.  A bot is left with a key of the other exchange only by a save that
\* had loaded the bot before another save changed it (update_settings).
MismatchOnlyIfStale ==
  [][\A b \in DOMAIN db.bots :
       Mismatch(db', b) /\ ~Mismatch(db, b)
         => \E r \in Requests : /\ req[r].pc = "flushed" /\ req[r].job = "save"
                                /\ req[r].bot = b
                                /\ req[r].old # db.bots[b]]_vars

-------------------------------------------------------------------------------
(* The promise to the users, kept by what is committed.                     *)

UserOf(d, login) == CHOOSE u \in DOMAIN d.users : d.users[u].login = login

\* A user's password and the ties of the user's bot.
AccountOf(d, u) ==
  [password |-> d.users[u].password,
   exchange |-> d.bots[BotOf(d, u)].exchange,
   key      |-> d.bots[BotOf(d, u)].key]

AccountsOf(d) ==
  [login \in {d.users[u].login : u \in DOMAIN d.users} |->
     AccountOf(d, UserOf(d, login))]

KeysOf(d) ==
  [k \in DOMAIN d.keys |-> [owner    |-> d.users[d.keys[k].user].login,
                            exchange |-> d.keys[k].exchange]]

EnteredOf(d, ts) == {d.users[t.sub].login : t \in ts}

Promise == INSTANCE Registry WITH account <- AccountsOf(db), keys <- KeysOf(db),
                                  entered <- EnteredOf(db, tokens)

\* For the users the accounts are the atomic ones of Registry, known by their
\* logins: whatever the threads read before, every commit is one operation of
\* one user on what is the user's own (register, login, create_api_key,
\* update_settings, current_user).
KeepsRegistry == Promise!Spec

-------------------------------------------------------------------------------
(* Why they hold: the inductive strengthening.                              *)

\* The tables refer to each other as the foreign keys say, and every user has a
\* bot.
References ==
  /\ \A u \in DOMAIN db.users : BotsOf(db, u) # {}
  /\ \A b \in DOMAIN db.bots : db.bots[b].user \in DOMAIN db.users
  /\ \A k \in DOMAIN db.keys : db.keys[k].user \in DOMAIN db.users

\* The open transaction is what its request writes, on what is committed.
TransactionInv ==
  /\ lock = "free" => pending = db
  /\ \A r \in Requests : lock = r <=> req[r].pc = "flushed"
  /\ \A r \in Requests : req[r].pc = "flushed" =>
       ~Conflict(db, req[r]) /\ pending = Apply(db, req[r])

\* A request is made for a user some client has a token of.  A save knows its
\* user's bot, and its key has been found once it may write.
SaveInv ==
  \A r \in Requests : req[r].pc # "idle" =>
    /\ req[r].job \in {"key", "save"} =>
         /\ req[r].user \in DOMAIN db.users
         /\ \E t \in tokens : t.sub = req[r].user
    /\ req[r].job = "save" =>
         /\ req[r].bot \in DOMAIN db.bots
         /\ db.bots[req[r].bot].user = req[r].user
         /\ (req[r].pc \in {"read", "flushed"} /\ req[r].key # None)
              => KeyFound(db, req[r].key, req[r].user, req[r].exchange)

IInv == /\ TypeOK
        /\ UniqueLogins
        /\ NoSecondBot
        /\ TokensIdentify
        /\ KeysOwned
        /\ References
        /\ TransactionInv
        /\ SaveInv
===============================================================================
