SPECIFICATION Spec
CONSTANTS
  Callers = {c1, c2, c3}
  Inputs = {1, 2, 3}
  JobIdOf <- MCJobIds
  KeyOf <- MCKeys
  Faults = {"statement", "ack"}
INVARIANTS TypeOK CallersAreToldTheTruth RefusalsAreTrue
PROPERTY LateCallReuses
