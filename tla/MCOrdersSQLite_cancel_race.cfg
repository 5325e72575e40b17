SPECIFICATION Spec
CONSTANTS
  Shoppers = {alice}
  Admin = admin
  Guest = guest
  Nobody = nobody
  small = small
  large = large
  Baskets = {small}
  LineCount <- MCLineCount
  NoBasket = none
  Requests = {r1, r2}
  Methods = {"Create", "Cancel", "UpdateStatus"}
  BodyStatuses = {"pending"}
  MoveStatuses = {"pending", "confirmed", "shipped", "delivered", "cancelled"}
  MaxPlaced = 1
  MaxLineId = 3
  MayFail = FALSE
  MaxFaults = 0
SYMMETRY Symmetry
PROPERTY CancelsOnlyPending
