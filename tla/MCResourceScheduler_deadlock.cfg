SPECIFICATION FairSpec
CONSTANTS
  big = big
  small = small
  late = late
  Threads = {t1, t2}
  Jobs <- MCJobs
  Resources <- MCResources
  Need <- MCNeed
  Total <- MCTotal
  Prio <- MCPrio
  EnqueuedAt <- MCEnqueuedAt
  SlotIds <- OwnSlots
  SlotId <- OwnSlot
  Free = Free
  NoJob = NoJob
PROPERTIES TickReturns
CHECK_DEADLOCK FALSE
