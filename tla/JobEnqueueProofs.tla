--------------------------- MODULE JobEnqueueProofs ---------------------------
(***************************************************************************)
(* Theorems about JobEnqueue, for every set of callers, inputs, job ids    *)
(* and identities.  The argument: a snapshot is a part of the table, so    *)
(* what a call finds there is committed, and a row is inserted only when   *)
(* nobody was told of one like it; a row's id determines its identity, so  *)
(* whoever finds its id taken finds its job.                               *)
(***************************************************************************)
EXTENDS JobEnqueue, TLAPS

\* Rows are never deleted: what a statement saw when it began is still there.
SnapshotsAreOld == \A c \in Callers : caller[c].snapshot \subseteq rows

\* A row was made from an input, so its id determines its identity.
RowsAreMade == \A row \in rows : \E x \in Inputs : row = RowOf(x)

EnqueueInv ==
  TypeOK /\ SnapshotsAreOld /\ RowsAreMade /\ CallersAreToldTheTruth /\ RefusalsAreTrue

CallerState == [step : {"returned", "insert"}, input : Inputs, snapshot : SUBSET Row,
                result : Result]

LEMMA WantedTyped ==
  ASSUME TypeOK, NEW c \in Callers
  PROVE  Wanted(c) \in Row /\ \E x \in Inputs : Wanted(c) = RowOf(x)
  BY DEF TypeOK, Wanted, RowOf, Row

\* Who finds its job id taken finds its job.
LEMMA TakenIsWanted ==
  ASSUME EnqueueInv, NEW c \in Callers, JobIdTaken(c)
  PROVE  Wanted(c) \in rows
<1>1. PICK x \in Inputs : Wanted(c) = RowOf(x)
  BY WantedTyped DEF EnqueueInv
<1>2. PICK y \in Inputs : RowOf(y) \in rows /\ RowOf(y).id = Wanted(c).id
  BY DEF EnqueueInv, RowsAreMade, JobIdTaken
<1>3. JobIdOf[x] = JobIdOf[y] /\ KeyOf[x] = KeyOf[y]
  BY <1>1, <1>2, EnqueueAssumption DEF RowOf
<1>4. QED
  BY <1>1, <1>2, <1>3 DEF RowOf

LEMMA EnqueueInit == Init => EnqueueInv
<1> SUFFICES ASSUME Init PROVE EnqueueInv
  OBVIOUS
<1>1. AtRest \in CallerState /\ AtRest.snapshot = {} /\ AtRest.result = "none"
  BY EnqueueAssumption DEF AtRest, CallerState, Result
<1>2. TypeOK
  BY <1>1 DEF Init, TypeOK, CallerState
<1>3. QED
  BY <1>1, <1>2
  DEF Init, EnqueueInv, SnapshotsAreOld, RowsAreMade, CallersAreToldTheTruth, RefusalsAreTrue

\* What a call keeps when its process goes on, and what it is told.
LEMMA FinishEffect ==
  ASSUME TypeOK, NEW c \in Callers, NEW result \in Result, Finish(c, result)
  PROVE  /\ caller' \in [Callers -> CallerState]
         /\ caller'[c].input = caller[c].input /\ caller'[c].result = result
         /\ caller'[c].snapshot = {} /\ caller'[c].step = "returned"
         /\ \A d \in Callers \ {c} : caller'[d] = caller[d]
<1>1. caller'[c] = [caller[c] EXCEPT !.step = "returned", !.snapshot = {}, !.result = result]
  BY DEF Finish, TypeOK
<1>2. caller[c] \in CallerState
  BY DEF TypeOK, CallerState
<1>3. /\ caller'[c] \in CallerState
      /\ caller'[c].input = caller[c].input /\ caller'[c].result = result
      /\ caller'[c].snapshot = {} /\ caller'[c].step = "returned"
  BY <1>1, <1>2 DEF CallerState
<1>4. \A d \in Callers \ {c} : caller'[d] = caller[d]
  BY DEF Finish, TypeOK
<1>5. caller' = [d \in Callers |-> caller'[d]]
  BY DEF Finish, TypeOK
<1>6. \A d \in Callers : caller'[d] \in CallerState
  BY <1>3, <1>4 DEF TypeOK, CallerState
<1>7. QED
  BY <1>3, <1>4, <1>5, <1>6

\* A call that ends without a new row, told what its snapshot and the table hold.
LEMMA EndsWithoutInsert ==
  ASSUME EnqueueInv, NEW c \in Callers, UNCHANGED rows,
         NEW result \in {"duplicate", "no_row", "refused", "failed"}, Finish(c, result),
         result = "duplicate" => Wanted(c) \in caller[c].snapshot,
         result = "no_row" => JobIdTaken(c),
         result = "refused" => IdentityTaken(c)
  PROVE  EnqueueInv'
<1>1. /\ caller' \in [Callers -> CallerState]
      /\ caller'[c].input = caller[c].input /\ caller'[c].result = result
      /\ caller'[c].snapshot = {}
      /\ \A d \in Callers \ {c} : caller'[d] = caller[d]
  BY FinishEffect DEF EnqueueInv, Result
<1>2. TypeOK' /\ SnapshotsAreOld' /\ RowsAreMade'
  BY <1>1 DEF EnqueueInv, TypeOK, SnapshotsAreOld, RowsAreMade, CallerState
<1>3. \A d \in Callers : Wanted(d)' = Wanted(d)
  BY <1>1 DEF Wanted
<1>4. CallersAreToldTheTruth'
  BY <1>1, <1>3 DEF EnqueueInv, SnapshotsAreOld, CallersAreToldTheTruth
<1>5. RefusalsAreTrue'
  BY <1>1, <1>3, TakenIsWanted DEF EnqueueInv, RefusalsAreTrue, IdentityTaken
<1>6. QED
  BY <1>2, <1>4, <1>5 DEF EnqueueInv

\* A call that inserts its row, whether or not it is told.
LEMMA EndsWithInsert ==
  ASSUME EnqueueInv, NEW c \in Callers, InsertRow(c),
         NEW result \in {"failed", "created"}, Finish(c, result)
  PROVE  EnqueueInv'
<1>1. /\ caller' \in [Callers -> CallerState]
      /\ caller'[c].input = caller[c].input /\ caller'[c].result = result
      /\ caller'[c].snapshot = {}
      /\ \A d \in Callers \ {c} : caller'[d] = caller[d]
      /\ rows' = rows \cup {Wanted(c)}
  BY FinishEffect DEF EnqueueInv, Result, InsertRow
<1>2. TypeOK' /\ SnapshotsAreOld'
  BY <1>1, WantedTyped DEF EnqueueInv, TypeOK, SnapshotsAreOld, CallerState
<1>3. RowsAreMade'
  BY <1>1, WantedTyped DEF EnqueueInv, RowsAreMade, RowOf
<1>4. \A d \in Callers : Wanted(d)' = Wanted(d)
  BY <1>1 DEF Wanted
<1>5. \A d \in Callers \ {c} : Wanted(d) = Wanted(c) => caller[d].result # "created"
  BY DEF InsertRow, JobIdTaken, EnqueueInv, CallersAreToldTheTruth
<1>6. CallersAreToldTheTruth'
  BY <1>1, <1>4, <1>5 DEF EnqueueInv, CallersAreToldTheTruth
<1>7. RefusalsAreTrue'
  BY <1>1, <1>4 DEF EnqueueInv, RefusalsAreTrue
<1>8. QED
  BY <1>2, <1>3, <1>6, <1>7 DEF EnqueueInv

LEMMA BeginKeeps ==
  ASSUME EnqueueInv, NEW c \in Callers, Begin(c)
  PROVE  EnqueueInv'
<1>1. PICK x \in Inputs :
        caller' = [caller EXCEPT ![c] = [step |-> "insert", input |-> x, snapshot |-> rows,
                                         result |-> "none"]]
  BY DEF Begin
<1>2. /\ caller'[c] = [step |-> "insert", input |-> x, snapshot |-> rows, result |-> "none"]
      /\ \A d \in Callers \ {c} : caller'[d] = caller[d]
      /\ rows' = rows
  BY <1>1 DEF Begin, EnqueueInv, TypeOK
<1>3. caller'[c] \in CallerState
  BY <1>2 DEF EnqueueInv, TypeOK, CallerState, Result
<1>4. TypeOK' /\ SnapshotsAreOld' /\ RowsAreMade'
  BY <1>1, <1>2, <1>3 DEF EnqueueInv, TypeOK, SnapshotsAreOld, RowsAreMade, CallerState
<1>5. caller'[c].result = "none" /\ \A d \in Callers \ {c} : Wanted(d)' = Wanted(d)
  BY <1>2 DEF Wanted
<1>6. CallersAreToldTheTruth' /\ RefusalsAreTrue'
  BY <1>2, <1>5 DEF EnqueueInv, CallersAreToldTheTruth, RefusalsAreTrue
<1>7. QED
  BY <1>4, <1>6 DEF EnqueueInv

LEMMA EnqueueStep == EnqueueInv /\ [Next]_vars => EnqueueInv'
<1> SUFFICES ASSUME EnqueueInv, [Next]_vars PROVE EnqueueInv'
  OBVIOUS
<1>1. CASE UNCHANGED vars
  BY <1>1 DEF vars, EnqueueInv, TypeOK, SnapshotsAreOld, RowsAreMade, CallersAreToldTheTruth,
              RefusalsAreTrue, Wanted
<1>2. ASSUME NEW c \in Callers, Begin(c) PROVE EnqueueInv'
  BY <1>2, BeginKeeps
<1>3. ASSUME NEW c \in Callers, Insert(c) \/ (AckLost(c) /\ InsertRow(c)) PROVE EnqueueInv'
  BY <1>3, EndsWithInsert DEF Insert, AckLost
<1>4. ASSUME NEW c \in Callers, ReturnExisting(c) \/ NoRowReturned(c) PROVE EnqueueInv'
  BY <1>4, EndsWithoutInsert DEF ReturnExisting, NoRowReturned
<1>5. ASSUME NEW c \in Callers, IdentityViolation(c) PROVE EnqueueInv'
  BY <1>5, EndsWithoutInsert DEF IdentityViolation
<1>6. ASSUME NEW c \in Callers, StatementFails(c) \/ (AckLost(c) /\ ~InsertRow(c))
      PROVE  EnqueueInv'
  BY <1>6, EndsWithoutInsert DEF StatementFails, AckLost
<1>7. QED
  BY <1>1, <1>2, <1>3, <1>4, <1>5, <1>6 DEF Next

\* A call whose snapshot holds its job returns it, or its connection fails.
LEMMA LateCallStep ==
  ASSUME EnqueueInv, [Next]_vars, NEW c \in Callers,
         caller[c].step = "insert", Wanted(c) \in caller[c].snapshot,
         caller'[c].step = "returned"
  PROVE  /\ rows' = rows
         /\ caller'[c].result = "duplicate" \/ (Faults # {} /\ caller'[c].result = "failed")
<1>1. JobIdTaken(c)
  BY DEF EnqueueInv, SnapshotsAreOld, JobIdTaken
<1>2. caller'[c] # caller[c]
  OBVIOUS
<1>3. PICK d \in Callers : \/ Begin(d) \/ Insert(d) \/ ReturnExisting(d) \/ NoRowReturned(d)
                           \/ IdentityViolation(d) \/ StatementFails(d) \/ AckLost(d)
  BY <1>2 DEF Next, vars
<1>4. d = c
  BY <1>2, <1>3 DEF Begin, Insert, ReturnExisting, NoRowReturned, IdentityViolation,
                    StatementFails, AckLost, Finish, EnqueueInv, TypeOK
<1>5. ReturnExisting(c) \/ StatementFails(c) \/ AckLost(c)
  BY <1>1, <1>3, <1>4 DEF Begin, Insert, InsertRow, NoRowReturned, IdentityViolation
<1>6. CASE ReturnExisting(c)
  BY <1>6, FinishEffect DEF ReturnExisting, EnqueueInv, Result
<1>7. CASE StatementFails(c)
  BY <1>7, FinishEffect DEF StatementFails, EnqueueInv, Result
<1>8. CASE AckLost(c)
  BY <1>1, <1>8, FinishEffect DEF AckLost, InsertRow, EnqueueInv, Result
<1>9. QED
  BY <1>5, <1>6, <1>7, <1>8

-------------------------------------------------------------------------------
(* The theorems.                                                           *)

\* EnqueueInv holds in every reachable state.
THEOREM EnqueueInvariant == Spec => []EnqueueInv
  BY EnqueueInit, EnqueueStep, PTL DEF Spec

\* Rows and callers keep their shape.
THEOREM EnqueueTyped == Spec => []TypeOK
<1>1. EnqueueInv => TypeOK
  BY DEF EnqueueInv
<1>2. QED
  BY <1>1, EnqueueInvariant, PTL

\* enqueue resolves only with the committed job it was asked for, and tells at most one of
\* the racing callers that it created the job.
THEOREM AnswersAreTrue == Spec => []CallersAreToldTheTruth
<1>1. EnqueueInv => CallersAreToldTheTruth
  BY DEF EnqueueInv
<1>2. QED
  BY <1>1, EnqueueInvariant, PTL

\* A call of enqueue that throws that there is no row finds its job there when it asks again;
\* one that the index refuses has lost its identity to a committed job.
THEOREM RefusalsTold == Spec => []RefusalsAreTrue
<1>1. EnqueueInv => RefusalsAreTrue
  BY DEF EnqueueInv
<1>2. QED
  BY <1>1, EnqueueInvariant, PTL

\* A call of enqueue that begins after its job was committed returns that job and adds none,
\* whatever else goes on, unless its connection fails.
THEOREM LateCallsReuse == Spec => LateCallReuses
<1>1. EnqueueInv /\ [Next]_vars =>
        [\A c \in Callers :
           caller[c].step = "insert" /\ Wanted(c) \in caller[c].snapshot
             /\ caller'[c].step = "returned"
           => /\ rows' = rows
              /\ caller'[c].result = "duplicate"
                   \/ (Faults # {} /\ caller'[c].result = "failed")]_vars
  BY LateCallStep
<1>2. QED
  BY <1>1, EnqueueInvariant, PTL DEF Spec, LateCallReuses
===============================================================================
