SPECIFICATION Spec
CONSTANTS
    Tenants = {ta, tb}
    wide = wide
    deep = deep
    Kinds <- MCKinds
    Axes <- MCAxes
    Need <- MCNeed
    Capacities <- MCCapacities
    Weights = {1, 2}
    Scale = 8
    MaxHeld = 1
    MaxClock = 2
INVARIANTS LedgerInv LedgerPromise
 BooksExact
PROPERTIES FrozenLedger
SYMMETRY TenantSymmetry
