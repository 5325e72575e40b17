SPECIFICATION MCSpec
CONSTANTS
  Shoppers = {alice}
  Admin = admin
  Guest = guest
  Nobody = nobody
  small = small
  large = large
  Baskets = {small, large}
  LineCount <- MCLineCount
  NoBasket = none
  Requests = {r1, r2}
  Methods = {"Create", "Checkout", "Update", "Delete", "Cancel", "UpdateStatus"}
  BodyStatuses = {"pending", "unlisted"}
  MoveStatuses = {"pending", "confirmed", "shipped", "delivered", "cancelled"}
  MaxPlaced = 1
  MaxLineId = 5
  MayFail = FALSE
  MaxFaults = 1
  Mixes = {"status"}
SYMMETRY Symmetry
PROPERTY StatusStepsLegal
