SPECIFICATION LockSpec
CONSTANTS
  PE = {0, 1, 2}
  Lock = {"all", "pe"}
  HomeOf <- MCHome
  DataOn <- MCHome
  Taken = 0
  MaxTries = 2
INVARIANTS MutualExclusion
