SPECIFICATION FairCaseSpec
CONSTANTS
  tab1 = tab1
  tab2 = tab2
  d1 = d1
  p1 = p1
  a1 = a1
  None = None
  Tabs = {tab1, tab2}
  Drafts = {d1}
  Places = {p1}
  Adds = {a1}
  Entries = 2
  MaxOps = 4
  Faults = {"loss", "late", "close"}
  Cases = {"serial", "loss", "close", "tabs"}
INVARIANTS
  SerialCreatedOnce
  OpenShownIsKept
PROPERTIES
  LeavesOnlyApplied
  LossyQueuedIsApplied
  ClosedPendingIsCreated
