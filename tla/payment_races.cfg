SPECIFICATION CaseSpec
CONSTANTS
  ana = ana
  ben = ben
  cyd = cyd
  None = None
  Agents = {ana, ben}
  Admins = {ben}
  Requests = {r1, r2}
  InFlight = 2
  Drafts <- MCDrafts
  SeatForms <- RaceForms
  Ops <- GuardedOps
  Faults = {"crash"}
  Cases = {"races"}
SYMMETRY Slots
INVARIANTS
  ConfirmationIsGreenLit
PROPERTY
  ImplementsChain
