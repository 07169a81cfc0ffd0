SPECIFICATION Spec
CONSTANTS
  a = a
  Tokens = {t, u}
  Accounts = {a}
  IssuerOf <- MCIssuerOf
  Urls = {x, y}
  Pictures = {p, q}
  Nothing = Nothing
  Nobody = Nobody
  MaxChanges = 3
  MaxRenewals = 1
  MaxFailures = 1
  MaxCrashes = 1
INVARIANTS UsersAreExact IconsHaveUsers LinksResolve IconsAreShown
SYMMETRY Symmetry
CHECK_DEADLOCK FALSE
