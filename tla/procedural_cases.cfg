SPECIFICATION FairCaseSpec
CONSTANTS
  ana = ana
  ben = ben
  cid = cid
  None = None
  Agents = {ana, ben, cid}
  Admins = {ben}
  Requests = {r1, r2}
  InFlight = 2
  Drafts <- MCDrafts
  SeatForms <- MCForms
  Ops <- MCOps
  Faults = {"crash", "query"}
  Cases = {"serial", "faults", "races"}
INVARIANTS
  ChainIsSigned
  JobDoneBeforeApproval
  SerialHolderIsAssigned
  SerialConfirmationIsGreenLit
PROPERTIES
  AuthorityIsSignedInTurn
  FaultyReachesConfirmation
