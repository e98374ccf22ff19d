SPECIFICATION Spec
CONSTANTS
  Jobs = {1, 2}
  Users = {"ann", "bob"}
  Resources = {"cpu"}
  Submitter <- MCSubmitter
  Template <- MCTemplate
  Size <- MCSize
  Policies <- MCPolicies
  FirstPolicy <- Roomy
  Inventories <- MCInventories
  Batch = 1
  Backoff = 1
  MaxTime = 2
  MaxChanges = 3
INVARIANT AgesExact
CHECK_DEADLOCK FALSE
