SPECIFICATION MCSpec
CONSTANTS
  Shoppers = {}
  Admin = admin
  Guest = guest
  Nobody = nobody
  small = small
  large = large
  Baskets = {small, large}
  LineCount <- MCLineCount
  NoBasket = none
  Requests = {r1, r2}
  Methods = {"Create", "Checkout", "Update", "Delete", "Cancel", "UpdateStatus"}
  BodyStatuses = {"pending", "unlisted"}
  MoveStatuses = {"confirmed", "cancelled"}
  MaxPlaced = 2
  MaxLineId = 5
  MayFail = TRUE
  MaxFaults = 1
  Mixes = {"alone", "race", "values"}
SYMMETRY Symmetry
INVARIANTS LinesOfOneBasket NoEventForgotten AdaptersAgree
PROPERTIES LifecycleHoldsAlone
