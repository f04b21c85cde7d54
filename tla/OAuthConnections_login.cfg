\* Two callbacks and two logins over one provider with logins and one without.
SPECIFICATION Spec
CHECK_DEADLOCK FALSE
CONSTANTS
  l1 = l1
  l2 = l2
  c1 = c1
  c2 = c2
  i1 = i1
  i2 = i2
  None = None
  Users = {"ann", "bob"}
  OAuthProviders = {"meetup"}
  ManualProviders = {"webhook"}
  Accounts = {"main", "club"}
  Logins = {l1, l2}
  Callbacks = {c1, c2}
  Ids = {i1, i2}
  Lifetime = 1
  MaxAccounts = 2
  MaxTime = 1
SYMMETRY LoginSymmetry
INVARIANTS LoginUsedOnce MadeByLogin EnvelopeOpens
PROPERTIES ReferenceIsFixed
