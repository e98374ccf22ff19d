SPECIFICATION FairSpec
CONSTANTS
    pa = pa
    pb = pb
    Processes = {pa, pb}
    Reliable = {pb}
    idle = idle
    busy = busy
    dispatch = dispatch
    Worlds <- MCWorlds
    Decisions = {dispatch}
    Decide <- MCDecide
    NoDecision = NoDecision
    Nobody = Nobody
    Lease = 1
    MaxEpoch = 2
INVARIANTS LeaderInv 
PROPERTIES EpochsOrdered
    LeaderReplaced
