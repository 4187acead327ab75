SPECIFICATION FairCaseSpec
CONSTANTS
  ana = ana
  ben = ben
  cyd = cyd
  None = None
  Agents = {ana, ben, cyd}
  Admins = {cyd}
  Requests = {r1, r2}
  InFlight = 2
  Drafts <- MCDrafts
  SeatForms <- SerialForms
  Ops <- MCOps
  Faults = {"crash", "query"}
  Cases = {"serial", "faults", "overwrites"}
INVARIANTS
  ChainIsSigned
  SerialHolderIsAssigned
PROPERTY
  FaultyReachesConfirmation
