SPECIFICATION FairSpec
CONSTANTS
  None = None
  u1 = u1
  u2 = u2
  key = key
  price = price
  Users <- TwoUsers
  Keys <- OneKey
  KeyExchange <- OnUpbit
  KeyOwner <- OfU1
  FormFields <- TheFields
  HiddenFields <- OneHidden
  ValuesOf <- TheValues
  Default <- NewBot
  Blank <- BlankForm
  Edits <- SomeEdits
  Savers = {u1}
  OtherSaves <- SomeSaves
  Refreshes = {g1}
INVARIANT IInv
PROPERTIES EditsKept OverwritesOnlyIfStale FormConverges
