SPECIFICATION CaseSpec
CONSTANTS
  ana = ana
  ben = ben
  dan = dan
  L1 = L1
  None = None
  Agents = {ana, ben, dan}
  Managers = {}
  Guards = {}
  Locations = {L1}
  MaxLocations = 1
  Requests = {r1, r2}
  InFlight = 2
  Drafts <- RfpDrafts
  Ops <- AllOps
  Faults = {"crash"}
  MaxTickets = 4
  MaxLost = 1
  RfpFaults = {"softFail", "find", "query"}
INVARIANTS
  LinkedOvershoot
  SerialApprovedIsReleased
PROPERTIES
  SerialReleasedIsFinal
