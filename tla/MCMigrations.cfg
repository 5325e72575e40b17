SPECIFICATION MCSpec
CONSTANTS
  Script <- Files
  Recorded <- MCRecorded
  Obstacles = {"orders", "users", "users_google_provider_id_unique"}
  Processes = {p1, p2}
  MaxPlaceholders = 2
  MaxLines = 5
SYMMETRY Symmetry
CONSTRAINT NoDownRaced
CHECK_DEADLOCK FALSE
INVARIANTS SchemaMatchesRecord RecordedIsComplete FilesFitTheSchema
INVARIANTS CutsWhereSQLiteDoes NullsStayInPlace StatementsAreTheFiles
PROPERTIES UpLeavesNothingPending
