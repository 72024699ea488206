SPECIFICATION Spec
CONSTANTS
  big = big
  small = small
  late = late
  Threads = {t1, t2, t3}
  Jobs <- MCJobs
  Resources <- MCResources
  Need <- MCNeed
  Total <- MCTotal
  Prio <- MCPrio
  EnqueuedAt <- MCEnqueuedAt
  SlotIds <- OwnSlots
  SlotId <- OwnSlot
  Free = Free
  NoJob = NoJob
INVARIANTS TypeOK GuardsHeld OnePlace NeverOversold BudgetExact
PROPERTIES ImplementsAdmission
CHECK_DEADLOCK FALSE
