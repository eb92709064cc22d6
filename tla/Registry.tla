------------------------------- MODULE Registry -------------------------------
(***************************************************************************)
(* What the users of the accounts are promised: there is one account per   *)
(* login, and it comes with its one bot; who has joined or entered under a *)
(* login acts on the account of that login, and on nothing else; a bot is  *)
(* tied to keys of its owner only; nothing is ever taken away.             *)
(*                                                                         *)
(* There are no ids, tables, sessions or locks here.  Accounts implements  *)
(* this specification under a mapping from what is committed.              *)
(***************************************************************************)
CONSTANTS None, Logins, Passwords, Exchanges, DefaultExchange

VARIABLES
  account,   \* per login that has joined, its password and its bot's two ties
  keys,      \* per API key, its owner's login and its exchange
  entered    \* the logins under which somebody may act

vars == <<account, keys, entered>>

Init ==
  /\ account = [login \in {} |-> None]
  /\ keys = [k \in {} |-> None]
  /\ entered = {}

\* POST /auth/register: the account, its bot and the right to act, or nothing.
Join(login, password) ==
  /\ login \notin DOMAIN account
  /\ account' = [l \in DOMAIN account \cup {login} |->
                   IF l = login
                   THEN [password |-> password, exchange |-> DefaultExchange,
                         key |-> None]
                   ELSE account[l]]
  /\ entered' = entered \cup {login}
  /\ UNCHANGED keys

\* POST /auth/login.
Enter(login) ==
  /\ login \in DOMAIN account
  /\ entered' = entered \cup {login}
  /\ UNCHANGED <<account, keys>>

\* POST /api-keys: a key more, under a name that no key has.
AddKey(login, exchange) ==
  /\ login \in entered
  /\ \E k \in DOMAIN keys' \ DOMAIN keys :
       keys' = [i \in DOMAIN keys \cup {k} |->
                  IF i = k THEN [owner |-> login, exchange |-> exchange]
                           ELSE keys[i]]
  /\ UNCHANGED <<account, entered>>

\* PUT /bot/settings: an exchange and no key, or one of the user's for it.  Each
\* of the two columns is written, or is one that the user's session had loaded
\* with that value and somebody has changed since.
Tie(login, exchange, key) ==
  /\ login \in entered
  /\ key = None \/ /\ key \in DOMAIN keys
                   /\ keys[key] = [owner |-> login, exchange |-> exchange]
  /\ \E e \in {exchange, account[login].exchange}, k \in {key, account[login].key} :
       account' = [account EXCEPT ![login] = [password |-> @.password,
                                              exchange |-> e, key |-> k]]
  /\ UNCHANGED <<keys, entered>>

Next ==
  \/ \E login \in Logins, password \in Passwords : Join(login, password)
  \/ \E login \in Logins : Enter(login)
  \/ \E login \in Logins, exchange \in Exchanges : AddKey(login, exchange)
  \/ \E login \in Logins, exchange \in Exchanges, key \in DOMAIN keys \cup {None} :
       Tie(login, exchange, key)

Spec == Init /\ [][Next]_vars
===============================================================================
