SPECIFICATION FairCaseSpec
CONSTANTS
  Items = {i1, i2}
  None = None
  Times = {1, 2, 3}
  Requests = {r1, r2}
  InFlight = 2
  Ops <- Edits
  Frequencies = {"DAILY", "WEEKLY", "MONTHLY"}
  MaxPeriod = 1
  MaxCycle = 2
  Faults = {"crash"}
  Cases = {"serial", "board", "faults", "races"}
INVARIANTS SerialFinishedIsVerifiedNow SerialPendingIsListed SerialDelayedWasIncomplete
PROPERTIES ResetOpensCycle IncompleteIsHeld FaultyStaleIsClosed
