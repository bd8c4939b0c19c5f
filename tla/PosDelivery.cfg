SPECIFICATION DeliverySpec
CONSTANTS
  Requests = {q1, q2}
  Deliveries = {d1}
  NotAnArray = NotAnArray
  Malformed = {NotAnArray}
  Absent = Absent
  NoCredential = NoCredential
  NotSent = NotSent
  MaxLate = 1
  Events <- MCEvents
  Submissions <- MCBackfill
  Credentials <- MCCredentials
  Sends <- MCCafeSends
  Faults = {"ack", "crash"}
SYMMETRY Symmetry
INVARIANTS DeliveryTypeOK DeliveredIsStored DefectsAreReal ReplayIsDuplicate
