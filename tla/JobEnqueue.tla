------------------------------ MODULE JobEnqueue ------------------------------
(***************************************************************************)
(* Concurrent enqueue calls of the worker job repository.  One statement   *)
(* inserts the job ON CONFLICT (job_id) DO NOTHING and, when nothing was    *)
(* inserted, selects the existing row - from the snapshot the statement    *)
(* took when it began.  The unique index on the idempotency identity       *)
(* covers fewer fields than the job id, and is not the conflict target.    *)
(* On every path the statement may fail, and its answer may be lost.       *)
(***************************************************************************)
EXTENDS FiniteSets

CONSTANTS
  Callers,   \* processes that call enqueue
  Inputs,    \* what they may ask for
  JobIdOf,   \* stableWorkerJobId: hash of kind, tenant with brand, source, identity
  KeyOf,     \* the columns of the identity index: no brand, missing fields as ''
  Faults     \* "statement": it may fail; "ack": its acknowledgement may be lost

ASSUME EnqueueAssumption ==
  /\ Inputs # {}
  /\ Faults \subseteq {"statement", "ack"}
  /\ \A x, y \in Inputs : JobIdOf[x] = JobIdOf[y] => KeyOf[x] = KeyOf[y]

VARIABLES
  rows,    \* worker_jobs: the input each committed row was made from
  caller   \* where each process is in enqueue

vars == <<rows, caller>>

Row == [id : {JobIdOf[x] : x \in Inputs}, key : {KeyOf[x] : x \in Inputs}]
RowOf(x) == [id |-> JobIdOf[x], key |-> KeyOf[x]]

\* How a call ends: it resolves with a new or an existing job, throws that it got "no_row", or
\* rejects with the error of the driver - a unique violation ("refused") or any other ("failed").
Result == {"none", "created", "duplicate", "no_row", "refused", "failed"}
AtRest == [step |-> "returned", input |-> CHOOSE x \in Inputs : TRUE, snapshot |-> {},
           result |-> "none"]

Init ==
  /\ rows = {}
  /\ caller = [c \in Callers |-> AtRest]

\* The statement begins: it will see what is committed now, and no more.
Begin(c) ==
  /\ caller[c].step = "returned"
  /\ \E x \in Inputs :
       caller' = [caller EXCEPT ![c] = [step |-> "insert", input |-> x, snapshot |-> rows,
                                        result |-> "none"]]
  /\ UNCHANGED rows

Finish(c, result) ==
  caller' = [caller EXCEPT ![c].step = "returned", ![c].snapshot = {}, ![c].result = result]

Wanted(c) == RowOf(caller[c].input)

\* Mutant of JobIdTaken: ON CONFLICT DO NOTHING without a target, so that any index will do.
AnyIndexTaken(c) == \E row \in rows : row.key = Wanted(c).key

JobIdTaken(c) == \E row \in rows : row.id = Wanted(c).id
IdentityTaken(c) == \E row \in rows : row.key = Wanted(c).key

InsertRow(c) ==
  /\ ~JobIdTaken(c) /\ ~IdentityTaken(c)
  /\ rows' = rows \cup {Wanted(c)}

Insert(c) ==
  /\ caller[c].step = "insert"
  /\ InsertRow(c)
  /\ Finish(c, "created")

\* Mutant of ReturnExisting: the second SELECT is missing.
ExistingNotSelected(c) ==
  /\ caller[c].step = "insert"
  /\ JobIdTaken(c) /\ Wanted(c) \in caller[c].snapshot
  /\ Finish(c, "no_row")
  /\ UNCHANGED rows

\* ON CONFLICT (job_id) DO NOTHING, and the second SELECT finds the row in its snapshot.
ReturnExisting(c) ==
  /\ caller[c].step = "insert"
  /\ JobIdTaken(c) /\ Wanted(c) \in caller[c].snapshot
  /\ Finish(c, "duplicate")
  /\ UNCHANGED rows

\* Mutant of NoRowReturned: the missing row is not noticed.
NoRowIgnored(c) ==
  /\ caller[c].step = "insert"
  /\ JobIdTaken(c) /\ Wanted(c) \notin caller[c].snapshot
  /\ Finish(c, "undefined")
  /\ UNCHANGED rows

\* Mutant of NoRowReturned: ON CONFLICT DO UPDATE returns the row as a new one.
UpsertReturnsRow(c) ==
  /\ caller[c].step = "insert"
  /\ JobIdTaken(c) /\ Wanted(c) \notin caller[c].snapshot
  /\ Finish(c, "created")
  /\ UNCHANGED rows

\* The row was committed after the statement began: neither SELECT has a row to return, and
\* enqueue throws "Worker job enqueue did not return a row."
NoRowReturned(c) ==
  /\ caller[c].step = "insert"
  /\ JobIdTaken(c) /\ Wanted(c) \notin caller[c].snapshot
  /\ Finish(c, "no_row")
  /\ UNCHANGED rows

\* The identity index, which is not the conflict target, rejects the insert: another job id
\* holds the identity, or a racing call committed the same job after this statement had found
\* its id free and before it came to that index.
IdentityViolation(c) ==
  /\ caller[c].step = "insert"
  /\ IdentityTaken(c) /\ (JobIdTaken(c) => Wanted(c) \notin caller[c].snapshot)
  /\ Finish(c, "refused")
  /\ UNCHANGED rows

\* The statement is rolled back, whatever it would have found.
StatementFails(c) ==
  /\ "statement" \in Faults
  /\ caller[c].step = "insert"
  /\ Finish(c, "failed")
  /\ UNCHANGED rows

\* The statement is committed, with a new row or with none, and the caller sees an error.
AckLost(c) ==
  /\ "ack" \in Faults
  /\ caller[c].step = "insert"
  /\ InsertRow(c) \/ (JobIdTaken(c) /\ UNCHANGED rows)
  /\ Finish(c, "failed")

Next == \E c \in Callers :
  \/ Begin(c) \/ Insert(c) \/ ReturnExisting(c) \/ NoRowReturned(c)
  \/ IdentityViolation(c) \/ StatementFails(c) \/ AckLost(c)

Spec == Init /\ [][Next]_vars

-------------------------------------------------------------------------------

\* Rows and callers keep their shape.
TypeOK ==
  /\ rows \subseteq Row
  /\ caller \in [Callers -> [step : {"returned", "insert"}, input : Inputs,
                             snapshot : SUBSET Row, result : Result]]

\* What a call is told is true of the table: it resolves only with a job that is committed and
\* is the one asked for, whichever call created it, and at most one call is told that it
\* created the job, so that who is told so may count it.
CallersAreToldTheTruth ==
  /\ \A c \in Callers : caller[c].result \in {"created", "duplicate"} => Wanted(c) \in rows
  /\ \A c, d \in Callers : c # d /\ Wanted(c) = Wanted(d) =>
       ~(caller[c].result = "created" /\ caller[d].result = "created")

\* A refusal is no accident: when the code throws "Worker job enqueue did not return a row" the
\* very job it was asked for is committed, so that asking again returns it, and when the index
\* refuses the insert the identity has its job, this one or another.
RefusalsAreTrue ==
  \A c \in Callers :
    /\ caller[c].result = "no_row" => Wanted(c) \in rows
    /\ caller[c].result = "refused" => \E row \in rows : row.key = Wanted(c).key

\* A call that begins when its job is already committed returns that job and adds none, unless
\* the connection fails it: never again does it throw that there is no row, or is refused.  So
\* a caller that repeats its call after an error finds what its lost call, or the call it
\* raced, created.
LateCallReuses ==
  [][\A c \in Callers :
       caller[c].step = "insert" /\ Wanted(c) \in caller[c].snapshot
         /\ caller'[c].step = "returned"
       => /\ rows' = rows
          /\ caller'[c].result = "duplicate"
               \/ (Faults # {} /\ caller'[c].result = "failed")]_vars
===============================================================================
