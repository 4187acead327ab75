SPECIFICATION Spec
CONSTANTS
  ana = ana
  ben = ben
  cara = cara
  dan = dan
  guard = guard
  L1 = L1
  L2 = L2
  L3 = L3
  L4 = L4
  None = None
  Agents = {ana, ben, cara, dan, guard}
  Managers = {dan}
  Guards = {guard}
  Locations = {L1, L2}
  MaxLocations = 2
  Requests = {r1, r2}
  InFlight = 2
  Drafts <- GateDrafts
  Ops <- GateOps
  Faults = {}
PROPERTY
  DepartureKept
