SPECIFICATION KeySpec
CONSTANTS
  Keys = {k1, k2}
  Requests = {r1, r2}
  NoKey = noKey
  NoRequest = noRequest
  Life = 1
  MaxTime = 2
CHECK_DEADLOCK FALSE
INVARIANTS KnownKeysAreFound WithdrawnKeysExpire
PROPERTIES SigninsAreAnswered
