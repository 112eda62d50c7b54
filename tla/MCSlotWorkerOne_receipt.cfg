SPECIFICATION Spec
CONSTANTS
    gate = gate
    fireGate = fireGate
    None = None
    Slots = {gate}
    AgentSlots = {gate}
    Fires = {fireGate}
    SlotOf <- MCSlotOf
    Sched <- MCSched
    Deadline <- MCDeadline
    Grace = 1
    MaxTime = 4
    MaxFailures = 0
INVARIANT DiedMeansSampleLost
