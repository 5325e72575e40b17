SPECIFICATION MCSpec
CONSTANTS
  Customers = {alice, bob}
  Requests = {r1, r2}
  MaxAddresses = 3
  Texts = {rocket}
  NoText = none
  Prices = {1, 2}
  MaxEdits = 3
  Limits = {1, 2}
  PageSize = 1
  Buyers = {b1}
  MaxItemsPerOrder = 2
  MaxVisits = 2
SYMMETRY Symmetry
CHECK_DEADLOCK FALSE
INVARIANTS OneDefault SalesStand RowsTakenOnce SearchFinds
PROPERTIES DefaultsGivenUpOnly SoldAtOneCatalogue
