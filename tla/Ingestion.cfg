SPECIFICATION FairSpec
CONSTANTS
  Requests = {q1, q2}
  NotAnArray = NotAnArray
  Malformed = {NotAnArray}
  Absent = Absent
  NoCredential = NoCredential
  Events <- MCEvents
  Submissions <- MCSubmissions
  Credentials <- MCCredentials
  Faults = {"statement", "ack", "crash"}
INVARIANTS TypeOK AnalyticsOncePerFact AnswersOwnRecord RejectedNeverAccepted OnlyForeignIdsConflict
PROPERTIES ImplementsStore RequestsEnd
