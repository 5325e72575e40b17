SPECIFICATION MCSpec
CONSTANTS
  Shoppers = {alice, bob}
  visitor = bob
  Admin = admin
  Guest = guest
  Nobody = nobody
  small = small
  large = large
  Baskets = {small, large}
  LineCount <- MCLineCount
  NoBasket = none
  Requests = {r1, r2}
  Methods = {"Create", "Checkout", "Get", "Update", "Delete", "Cancel", "UpdateStatus"}
  BodyStatuses = {"pending"}
  MoveStatuses = {"confirmed", "cancelled"}
  MaxPlaced = 2
  MaxLineId = 3
  MayFail = TRUE
  MaxFaults = 1
  Readers = {d1}
  PageLimit = 2
SYMMETRY Symmetry
INVARIANTS TypeOK AllOrNothing NoEventForgotten NoPhantomEvent
INVARIANTS AnswersAreWhole InvoicesAreOnRecord
PROPERTIES HeadersAnswerToScope NoDuplicateEvent LifecycleHolds
