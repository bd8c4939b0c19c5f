---------------------------- MODULE JobLifecycle ----------------------------
(***************************************************************************)
(* What the durable worker repository promises about a job, without        *)
(* tables, clocks or statements: a waiting job is started by one holder,   *)
(* a bounded number of times, and only its holder moves it.                *)
(***************************************************************************)
EXTENDS Integers

CONSTANTS Jobs, Runners, NoRunner, MaxAttempts

VARIABLES
  phase,   \* absent, waiting, running, succeeded or dead
  starts,  \* how many attempts were started
  holder   \* the runner executing the job's last attempt, if it still does

lifecycleVars == <<phase, starts, holder>>

Init ==
  /\ phase = [j \in Jobs |-> "absent"]
  /\ starts = [j \in Jobs |-> 0]
  /\ holder = [j \in Jobs |-> NoRunner]

Submit(j) ==
  /\ phase[j] = "absent"
  /\ phase' = [phase EXCEPT ![j] = "waiting"]
  /\ UNCHANGED <<starts, holder>>

\* The holder may be gone before it learns of its claim.
Start(j) ==
  /\ phase[j] = "waiting"
  /\ starts[j] < MaxAttempts[j]
  /\ phase' = [phase EXCEPT ![j] = "running"]
  /\ starts' = [starts EXCEPT ![j] = @ + 1]
  /\ \E h \in Runners \cup {NoRunner} : holder' = [holder EXCEPT ![j] = h]

\* The holder succeeds; if it does not learn that it did, it holds the job still.
Succeed(j) ==
  /\ holder[j] # NoRunner
  /\ phase' = [phase EXCEPT ![j] = "succeeded"]
  /\ \E h \in {holder[j], NoRunner} : holder' = [holder EXCEPT ![j] = h]
  /\ UNCHANGED starts

\* The holder records a failure: the job waits for another start, or is dead.
Fail(j) ==
  /\ holder[j] # NoRunner
  /\ \E p \in {"waiting", "dead"} :
       /\ p = "waiting" => starts[j] < MaxAttempts[j]
       /\ phase' = [phase EXCEPT ![j] = p]
  /\ holder' = [holder EXCEPT ![j] = NoRunner]
  /\ UNCHANGED starts

\* The holder stops: the job stays as it is, for good.
LetGo(j) ==
  /\ holder[j] # NoRunner
  /\ holder' = [holder EXCEPT ![j] = NoRunner]
  /\ UNCHANGED <<phase, starts>>

Next == \E j \in Jobs : Submit(j) \/ Start(j) \/ Succeed(j) \/ Fail(j) \/ LetGo(j)

Spec == Init /\ [][Next]_lifecycleVars
==============================================================================
