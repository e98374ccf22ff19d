SPECIFICATION MCSpec
CONSTANTS
  ann = ann
  bob = bob
  org = org
  Users = {ann, bob}
  Tenants = {org}
  Slots = {s1, s2}
  Changes <- SingleChanges
  ScopeSets <- TokenScopes
  LoginRate = 1
  MaxBuckets = 2
  MaxTries = 2
  MaxVersion = 3
  MaxCreds = 2
  MaxEvents = 2
INVARIANT AuthorityCurrent
PROPERTY ChangesEnd
CHECK_DEADLOCK FALSE
