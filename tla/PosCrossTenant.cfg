SPECIFICATION DeliverySpec
CONSTANTS
  Requests = {q1}
  Deliveries = {d1}
  NotAnArray = NotAnArray
  Malformed = {NotAnArray}
  Absent = Absent
  NoCredential = NoCredential
  NotSent = NotSent
  MaxLate = 0
  Events <- MCEvents
  Submissions <- MCNoOthers
  Credentials <- MCCredentials
  Sends <- MCBothSend
  Faults = {}
INVARIANT PermittedFactsAreAccepted
