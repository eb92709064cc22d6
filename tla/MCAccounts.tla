------------------------------ MODULE MCAccounts ------------------------------
(* The instance of Accounts for TLC: two clients' worth of everything.      *)
EXTENDS Accounts, TLC

\* Requests, logins and passwords are interchangeable.
AccountsSymmetry == Permutations(Requests) \cup Permutations(Logins)
                      \cup Permutations(Passwords)
===============================================================================
