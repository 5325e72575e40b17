SPECIFICATION MCSpec
CONSTANTS
  home = home
  work = work
  s1 = s1
  s2 = s2
  Emails = {home, work}
  Identities <- MCIdentities
  NoSubject = none
  Requests = {r1, r2}
  LegacyEmail = work
  MaxTokens = 2
  Owners = {u1, u2}
  Calls = {r1, r2}
  Visited = {"POST /auth/login", "POST /auth/refresh", "POST /auth/logout",
             "GET /products", "DELETE /admin/products/{id}"}
  Nobody = nobody
  AccessLife = 1
  RefreshLife = 2
  MaxIssued = 2
  MaxClock = 3
  Clients = {r1, r2}
SYMMETRY Symmetry
INVARIANTS RevokedStaysRevoked OneTokenPerSession OneAccountPerSubject
INVARIANTS AdminsOnly CookiesOfOneSession SignedOutIsOver StatusesTell
PROPERTIES LinksStay
