SPECIFICATION Spec
CONSTANTS
  None = None
  Logins = {l1, l2}
  Passwords = {p1, p2}
  Exchanges = {upbit, bithumb}
  DefaultExchange = upbit
  Requests = {r1, r2}
  MaxUsers = 2
  MaxKeys = 1
INVARIANTS UniqueLogins NoSecondBot TokensIdentify KeysOwned IInv
PROPERTIES MismatchOnlyIfStale KeepsRegistry
SYMMETRY AccountsSymmetry
