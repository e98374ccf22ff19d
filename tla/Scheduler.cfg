SPECIFICATION FairSpec
CONSTANTS
  Tenants = {1, 2}
  Jobs = {"small", "large", "other"}
  Owner <- MCOwner
  Size <- MCSize
  BasePriority <- MCBasePriority
  Capacity = 2
  Rate <- MCRate
  Window = 1
  Pages = 1
  MaxRun = 1
  Loads <- MCLoads
PROPERTY NoneStarves
