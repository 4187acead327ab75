SPECIFICATION ReviewSpec
CONSTANTS
  ana = ana
  ben = ben
  cyd = cyd
  None = None
  Agents = {ana, ben, cyd}
  Admins = {cyd}
  Requests = {r1, r2}
  InFlight = 2
  Ops <- EveryOp
  Faults = {"crash", "query"}
  Legacy = TRUE
  Cases = {"handing", "work", "races", "reviews"}
INVARIANTS
  HandedEscalatedIsPending
PROPERTIES
  StaffWorkIsAssigned
  StaffClosedStaysClosed
  ClosedIsRated
  ImplementsCustody
  LinkReviewCloses
