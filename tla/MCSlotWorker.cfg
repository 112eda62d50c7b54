SPECIFICATION Spec
CONSTANTS
    gate = gate
    pilot = pilot
    fireGate = fireGate
    firePilot = firePilot
    None = None
    Slots = {gate, pilot}
    AgentSlots = {gate}
    Fires = {fireGate, firePilot}
    SlotOf <- MCSlotOf
    Sched <- MCSched
    Deadline <- MCDeadline
    Grace = 0
    MaxTime = 4
    MaxFailures = 1
INVARIANTS
    IInv
    DeathIsReal
PROPERTIES
    RecordOutlivesOutcome
    LedgerSteps
