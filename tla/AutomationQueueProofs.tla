------------------------ MODULE AutomationQueueProofs ------------------------
(***************************************************************************)
(* The safety of the queue of module Automation: a run in 'running' is in  *)
(* the hands of the worker, what a completed run lists exists and is its   *)
(* latest attempt's, no occurrence is skipped, and automations whose       *)
(* schedules nobody edits are scheduled as OccurrenceSchedule says.        *)
(***************************************************************************)
EXTENDS AutomationProofs

USE DEF Never, Keep, NoRun, NoAuto, NoKey, ScheduleKey

(* The step relation, one disjunct per action whose effect on the queue     *)
(* matters; everything else leaves the queue alone.                         *)
QueueVars == <<info, status, results, resources, pc, cur, job, inflight, claims, faults, audits>>

LEMMA QuietSteps ==
  ASSUME \/ \E a \in Automations : CreateAutomation(a) \/ RemoveAutomation(a)
         \/ \E c \in Clients : \/ FinishUpdate(c)
                               \/ \E a \in Automations : StartUpdate(c, a)
                               \/ \E a \in Automations, k \in Keys : StartRun(c, a, k)
                               \/ \E r \in Runs : StartRetry(c, r)
         \/ \E r \in Runs : BackoffEnds(r)
         \/ TimePasses \/ UNCHANGED vars
  PROVE  UNCHANGED QueueVars
BY DEF QueueVars, CreateAutomation, RemoveAutomation, FinishUpdate, StartUpdate, StartRun,
       StartRetry, Suspend, BackoffEnds, TimePasses, vars,
       autoVars, runVars, effectVars, workVars, boundVars, histVars

(* The inserts of a run: its row was unused and becomes queued. *)
Inserted(r) == /\ r \in Runs /\ status[r] = "none"
               /\ status' = [status EXCEPT ![r] = "queued"]
               /\ \E i \in RunInfo : info' = [info EXCEPT ![r] = i]

LEMMA InsertStep ==
  ASSUME TypeOK, EnqueueOccurrence \/ \E c \in Clients : FinishRun(c)
  PROVE  \/ UNCHANGED <<info, status>>
         \/ \E r \in Runs : Inserted(r)
<1>1. CASE EnqueueOccurrence
  <2>1. PICK d \in due : \/ UNCHANGED <<info, status>>
                         \/ \E r \in Runs :
                              /\ IsNextRow(r)
                              /\ InsertRun(r, d.auto, ScheduleKey(d.auto, d.at),
                                           MaxAttempts(d.retryLimit))
    BY <1>1 DEF EnqueueOccurrence
  <2>2. d.auto \in Automations /\ d.at \in Nat /\ MaxAttempts(d.retryLimit) \in Nat
    BY <2>1, MaxAttemptsType DEF TypeOK, Due
  <2>3. [auto |-> d.auto, key |-> ScheduleKey(d.auto, d.at), max |-> MaxAttempts(d.retryLimit)]
          \in RunInfo
    BY <2>2 DEF RunInfo, AllKeys
  <2> DEFINE row == [auto |-> d.auto, key |-> ScheduleKey(d.auto, d.at),
                     max |-> MaxAttempts(d.retryLimit)]
  <2>4. ASSUME NEW r \in Runs, IsNextRow(r),
               InsertRun(r, d.auto, ScheduleKey(d.auto, d.at), MaxAttempts(d.retryLimit))
        PROVE  Inserted(r)
    <3>1. info' = [info EXCEPT ![r] = row] /\ status' = [status EXCEPT ![r] = "queued"]
      BY <2>4 DEF InsertRun
    <3>2. status[r] = "none"
      BY <2>4 DEF IsNextRow
    <3> HIDE DEF row
    <3>3. row \in RunInfo
      BY <2>3 DEF row
    <3>4. QED
      BY <3>1, <3>2, <3>3 DEF Inserted
  <2>5. QED
    BY <2>1, <2>4
<1>2. ASSUME NEW c \in Clients, FinishRun(c)
      PROVE  \/ UNCHANGED <<info, status>>
             \/ \E r \in Runs : Inserted(r)
  <2>1. /\ client[c].auto \in Automations /\ client[c].key \in Keys \cup {NoKey}
        /\ MaxAttempts(client[c].seen.retryLimit) \in Nat
    BY <1>2, MaxAttemptsType DEF FinishRun, TypeOK, Suspended, AutoRow
  <2>2. [auto |-> client[c].auto, key |-> client[c].key,
         max |-> MaxAttempts(client[c].seen.retryLimit)] \in RunInfo
    BY <2>1 DEF RunInfo, AllKeys
  <2>3. QED
    BY <1>2, <2>2 DEF FinishRun, Inserted, InsertRun, IsNextRow
<1>3. QED
  BY <1>1, <1>2

-----------------------------------------------------------------------------
(* RunningIsWorked is inductive as it stands. *)
LEMMA RunningStep == TypeOK /\ RunningIsWorked /\ [Next]_vars => RunningIsWorked'
<1> SUFFICES ASSUME TypeOK, RunningIsWorked, [Next]_vars PROVE RunningIsWorked'
  OBVIOUS
<1> USE DEF RunningIsWorked
<1>1. CASE Tick
  <2>1. CASE StartTick
    BY <2>1 DEF StartTick, runVars, boundVars
  <2>2. CASE EnqueueOccurrence
    <3>1. pc = "enqueue" /\ UNCHANGED <<faults, job>>
      BY <2>2 DEF EnqueueOccurrence, boundVars
    <3>2. \A r \in Runs : status'[r] = "running" => status[r] = "running"
      BY <2>2, InsertStep DEF Inserted, TypeOK
    <3>3. QED
      BY <3>1, <3>2
  <2>3. CASE AdvanceSchedule
    BY <2>3 DEF AdvanceSchedule, runVars, boundVars
  <2>4. CASE EndTick
    BY <2>4 DEF EndTick, runVars, boundVars
  <2>5. QED
    BY <1>1, <2>1, <2>2, <2>3, <2>4 DEF Tick
<1>2. CASE Work
  <2>1. CASE PickRun
    BY <2>1 DEF PickRun, runVars, boundVars
  <2>2. CASE ClaimRun
    BY <2>2 DEF ClaimRun, TypeOK, boundVars
  <2>3. CASE LoadRun
    BY <2>3 DEF LoadRun, TypeOK, Job, runVars, boundVars
  <2>4. CASE FailMissing
    BY <2>4 DEF FailMissing, TypeOK, boundVars
  <2>5. CASE TimeOut
    BY <2>5 DEF TimeOut, Awaited, runVars, boundVars
  <2>6. CASE CompleteRun
    BY <2>6 DEF CompleteRun, Awaited, TypeOK, boundVars
  <2>7. CASE AuditCompleted
    BY <2>7 DEF AuditCompleted, runVars, boundVars
  <2>8. CASE SettleFailure
    BY <2>8 DEF SettleFailure, TypeOK, boundVars
  <2>9. CASE AuditFailed
    BY <2>9 DEF AuditFailed, runVars, boundVars
  <2>10. QED
    BY <1>2, <2>1, <2>2, <2>3, <2>4, <2>5, <2>6, <2>7, <2>8, <2>9 DEF Work
<1>3. CASE Execute
  BY <1>3 DEF Execute, PerformAction, ActionFails, Awaited, runVars, workVars, boundVars
<1>4. ASSUME NEW c \in Clients, FinishRun(c) PROVE RunningIsWorked'
  <2>1. \A r \in Runs : status'[r] = "running" => status[r] = "running"
    BY <1>4, InsertStep DEF Inserted, TypeOK
  <2>2. QED
    BY <1>4, <2>1 DEF FinishRun, workVars, boundVars
<1>5. ASSUME NEW c \in Clients, FinishRetry(c) PROVE RunningIsWorked'
  BY <1>5 DEF FinishRetry, TypeOK, workVars, boundVars
<1>6. CASE DatabaseFault
  BY <1>6 DEF DatabaseFault, TypeOK
<1>7. CASE Crash
  BY <1>7 DEF Crash
<1>8. CASE Recover
  BY <1>8 DEF Recover, Interrupted
<1>9. CASE UNCHANGED QueueVars
  BY <1>9 DEF QueueVars
<1>10. QED
  BY <1>1, <1>2, <1>3, <1>4, <1>5, <1>6, <1>7, <1>8, <1>9, QuietSteps
     DEF Next, Api, Environment

(* No run is left in 'running' that nobody works on, while the process is up *)
(* and no statement failed.                                                  *)
THEOREM RunningWorked == Spec => []RunningIsWorked
<1>1. Init => RunningIsWorked
  BY DEF Init, RunningIsWorked
<1>2. QED
  BY <1>1, RunningStep, TypeCorrect, PTL DEF Spec

-----------------------------------------------------------------------------
(* The executions.  What an execution has performed is in resources; its    *)
(* claim is one the run has had, and no other execution has it; and until   *)
(* executeActions starts the claim the worker has just taken is newer than  *)
(* every execution's, and its run not completed.                            *)
Performed == \A e \in inflight : \A i \in 1..e.done : <<e.run, e.claim, i>> \in resources
Known == \A e \in inflight : e.claim <= claims[e.run]
Distinct == \A e, f \in inflight : e.run = f.run /\ e.claim = f.claim => e = f
Fresh == pc = "load" => /\ \A e \in inflight : e.run = job.run => e.claim < claims[job.run]
                        /\ status[job.run] # "completed"
ExecutionInv == /\ Performed /\ Known /\ Distinct /\ Fresh
                /\ CompletedIsBacked /\ CompletedIsCurrent

LEMMA ExecutionInit == Init => ExecutionInv
BY DEF Init, ExecutionInv, Performed, Known, Distinct, Fresh, CompletedIsBacked,
       CompletedIsCurrent

LEMMA ClaimExecution == TypeOK /\ ExecutionInv /\ ClaimRun => ExecutionInv'
<1> SUFFICES ASSUME TypeOK, ExecutionInv, ClaimRun PROVE ExecutionInv'
  OBVIOUS
<1>1. job.run \in Runs /\ UNCHANGED <<inflight, resources, results, job>>
  BY DEF ClaimRun, TypeOK, Working, effectVars
<1>2. CASE status[job.run] = "queued"
  <2>1. /\ claims' = [claims EXCEPT ![job.run] = @ + 1]
        /\ status' = [status EXCEPT ![job.run] = "running"]
    BY <1>2 DEF ClaimRun
  <2>2. \A r \in Runs : claims[r] \in Nat /\ claims'[r] \in Nat /\ claims'[r] >= claims[r]
    BY <1>1, <2>1 DEF TypeOK
  <2>3. claims'[job.run] = claims[job.run] + 1
    BY <1>1, <2>1 DEF TypeOK
  <2>4. \A e \in inflight : e.run \in Runs /\ e.claim \in Nat /\ e.claim <= claims[e.run]
    BY DEF ExecutionInv, Known, TypeOK, Execution
  <2>5. \A r \in Runs : status'[r] = "completed" =>
                           status[r] = "completed" /\ claims'[r] = claims[r]
    BY <1>1, <2>1 DEF TypeOK
  <2>6. status'[job.run] # "completed"
    BY <1>1, <2>1 DEF TypeOK
  <2>7. Known' /\ Fresh'
    BY <1>1, <2>2, <2>3, <2>4, <2>6 DEF Known, Fresh
  <2>8. Performed' /\ Distinct'
    BY <1>1 DEF ExecutionInv, Performed, Distinct
  <2>9. CompletedIsBacked' /\ CompletedIsCurrent'
    BY <1>1, <2>5 DEF ExecutionInv, CompletedIsBacked, CompletedIsCurrent
  <2>10. QED
    BY <2>7, <2>8, <2>9 DEF ExecutionInv
<1>3. CASE status[job.run] # "queued"
  <2>1. UNCHANGED <<status, claims>> /\ pc' = "pick"
    BY <1>3 DEF ClaimRun
  <2>2. QED
    BY <1>1, <2>1 DEF ExecutionInv, Performed, Known, Distinct, Fresh,
                      CompletedIsBacked, CompletedIsCurrent
<1>4. QED
  BY <1>2, <1>3

LEMMA LoadExecution == TypeOK /\ ExecutionInv /\ LoadRun => ExecutionInv'
<1> SUFFICES ASSUME TypeOK, ExecutionInv, LoadRun PROVE ExecutionInv'
  OBVIOUS
<1>1. /\ pc = "load" /\ pc' \in {"exec", "missing"} /\ job.run \in Runs /\ claims[job.run] \in Nat
      /\ UNCHANGED <<resources, results, status, claims>>
  BY DEF LoadRun, TypeOK, Working, effectVars, runVars, histVars
<1>2. CASE inflight' = inflight
  BY <1>1, <1>2 DEF ExecutionInv, Performed, Known, Distinct, Fresh,
                    CompletedIsBacked, CompletedIsCurrent
<1>3. CASE inflight' # inflight
  <2>1. PICK n : inflight' = inflight \cup {[run |-> job.run, claim |-> claims[job.run],
                                             done |-> 0, total |-> n]}
    BY <1>3 DEF LoadRun
  <2> DEFINE new == [run |-> job.run, claim |-> claims[job.run], done |-> 0, total |-> n]
  <2>2. new.run = job.run /\ new.claim = claims[job.run] /\ new.done = 0
    OBVIOUS
  <2>3. inflight' = inflight \cup {new}
    BY <2>1
  <2> HIDE DEF new
  <2>4. \A e \in inflight : e.run \in Runs /\ e.claim \in Nat /\ (e.run = job.run => e.claim # new.claim)
    BY <1>1, <2>2 DEF ExecutionInv, Fresh, TypeOK, Execution
  <2>5. status[new.run] # "completed"
    BY <1>1, <2>2 DEF ExecutionInv, Fresh
  <2>6. Known' /\ Fresh' /\ CompletedIsBacked'
    BY <1>1, <2>2, <2>3 DEF ExecutionInv, Known, Fresh, CompletedIsBacked
  <2>7. Performed'
    <3>1. \A i \in 1..new.done : FALSE
      BY <2>2
    <3>2. QED
      BY <1>1, <2>3, <3>1 DEF ExecutionInv, Performed
  <2>8. Distinct'
    BY <2>2, <2>3, <2>4 DEF ExecutionInv, Distinct
  <2>9. CompletedIsCurrent'
    BY <1>1, <2>3, <2>5 DEF ExecutionInv, CompletedIsCurrent
  <2>10. QED
    BY <2>6, <2>7, <2>8, <2>9 DEF ExecutionInv
<1>4. QED
  BY <1>2, <1>3

LEMMA PerformExecution ==
  ASSUME TypeOK, ExecutionInv, NEW e \in inflight, PerformAction(e)
  PROVE  ExecutionInv'
<1> DEFINE x == <<e.run, e.claim, e.done + 1>>
           f == [e EXCEPT !.done = @ + 1]
<1>1. e \in Execution /\ e.run \in Runs /\ e.claim \in Nat /\ e.done \in Nat
  BY DEF TypeOK, Execution
<1>2. f.run = e.run /\ f.claim = e.claim /\ f.done = e.done + 1
  BY <1>1 DEF Execution
<1>3. /\ resources' = resources \cup {x} /\ inflight' \subseteq (inflight \ {e}) \cup {f}
      /\ UNCHANGED <<pc, job, claims, status, results>>
  BY DEF PerformAction, runVars, workVars, histVars
<1>4. Performed'
  <2>1. \A i \in 1..f.done : <<f.run, f.claim, i>> \in resources'
    <3> SUFFICES ASSUME NEW i \in 1..f.done PROVE <<f.run, f.claim, i>> \in resources'
      OBVIOUS
    <3>1. i \in 1..e.done \/ i = e.done + 1
      BY <1>1, <1>2
    <3>2. CASE i \in 1..e.done
      BY <1>2, <1>3, <3>2 DEF ExecutionInv, Performed
    <3>3. CASE i = e.done + 1
      BY <1>2, <1>3, <3>3
    <3>4. QED
      BY <3>1, <3>2, <3>3
  <2> HIDE DEF f
  <2>2. \A g \in inflight : \A i \in 1..g.done : <<g.run, g.claim, i>> \in resources'
    BY <1>3 DEF ExecutionInv, Performed
  <2>3. QED
    BY <1>3, <2>1, <2>2 DEF Performed
<1> HIDE DEF f, x
<1>5. Known' /\ Distinct' /\ Fresh'
  BY <1>2, <1>3 DEF ExecutionInv, Known, Distinct, Fresh
<1>6. CompletedIsBacked' /\ CompletedIsCurrent'
  BY <1>2, <1>3 DEF ExecutionInv, CompletedIsBacked, CompletedIsCurrent
<1>7. QED
  BY <1>4, <1>5, <1>6 DEF ExecutionInv

LEMMA CompleteExecution == TypeOK /\ ExecutionInv /\ CompleteRun => ExecutionInv'
<1> SUFFICES ASSUME TypeOK, ExecutionInv, CompleteRun PROVE ExecutionInv'
  OBVIOUS
<1>1. PICK e \in inflight :
        /\ e.run = job.run /\ e.claim = claims[e.run] /\ e.done = e.total /\ e.total > 0
        /\ results' = [results EXCEPT ![e.run] = [claim |-> e.claim, count |-> e.total]]
        /\ inflight' = inflight \ {e}
  BY DEF CompleteRun, Awaited
<1>2. e.run \in Runs
  BY <1>1 DEF TypeOK, Execution
<1>3. /\ status' = [status EXCEPT ![e.run] = "completed"] /\ pc' = "audit"
      /\ UNCHANGED <<resources, claims, job>>
  BY <1>1 DEF CompleteRun, effectVars, histVars
<1>4. \A i \in 1..e.total : <<e.run, e.claim, i>> \in resources
  BY <1>1 DEF ExecutionInv, Performed
<1>5. results'[e.run].count = e.total /\ results'[e.run].claim = e.claim
  BY <1>1, <1>2 DEF TypeOK
<1>6. \A r \in Runs : r # e.run => results'[r] = results[r] /\ status'[r] = status[r]
  BY <1>1, <1>2, <1>3 DEF TypeOK
<1>7. CompletedIsBacked'
  BY <1>1, <1>3, <1>4, <1>5, <1>6 DEF ExecutionInv, CompletedIsBacked
<1>8. \A f \in inflight' : /\ f \in inflight
                           /\ (f.run = e.run => f.claim < claims[e.run])
  <2> SUFFICES ASSUME NEW f \in inflight, f # e, f.run = e.run
               PROVE  f.claim < claims[e.run]
    BY <1>1
  <2>1. f.claim <= claims[e.run] /\ f.claim # e.claim
    BY DEF ExecutionInv, Known, Distinct
  <2>2. f.claim \in Nat /\ claims[e.run] \in Nat
    BY <1>2 DEF TypeOK, Execution
  <2>3. QED
    BY <1>1, <2>1, <2>2
<1>9. CompletedIsCurrent'
  BY <1>1, <1>3, <1>5, <1>6, <1>8 DEF ExecutionInv, CompletedIsCurrent
<1>10. Performed' /\ Known' /\ Distinct' /\ Fresh'
  BY <1>1, <1>3 DEF ExecutionInv, Performed, Known, Distinct, Fresh
<1>11. QED
  BY <1>7, <1>9, <1>10 DEF ExecutionInv

(* The other steps take executions away or none, complete no run, and leave *)
(* the worker elsewhere than before executeActions.                         *)
LEMMA OtherExecution ==
  ASSUME TypeOK, ExecutionInv, inflight' \subseteq inflight,
         UNCHANGED <<resources, claims>>,
         pc' = "load" => pc = "load" /\ job' = job,
         \A r \in Runs : status'[r] = "completed" =>
                           status[r] = "completed" /\ results'[r] = results[r]
  PROVE  ExecutionInv'
<1>1. pc = "load" => job.run \in Runs
  BY DEF TypeOK, Working
<1>2. QED
  BY <1>1 DEF ExecutionInv, Performed, Known, Distinct, Fresh, CompletedIsBacked,
              CompletedIsCurrent

LEMMA ExecutionStep == TypeOK /\ ExecutionInv /\ [Next]_vars => ExecutionInv'
<1> SUFFICES ASSUME TypeOK, ExecutionInv, [Next]_vars PROVE ExecutionInv'
  OBVIOUS
<1> USE DEF runVars, effectVars, workVars, boundVars, histVars
<1>1. CASE StartTick \/ AdvanceSchedule \/ EndTick
  BY <1>1, OtherExecution DEF StartTick, AdvanceSchedule, EndTick
<1>2. CASE EnqueueOccurrence \/ \E c \in Clients : FinishRun(c)
  <2>1. \A r \in Runs : status'[r] = "completed" => status[r] = "completed"
    BY <1>2, InsertStep DEF Inserted, TypeOK
  <2>2. /\ UNCHANGED <<resources, claims, results, inflight>>
        /\ pc' = "load" => pc = "load" /\ job' = job
    BY <1>2 DEF EnqueueOccurrence, FinishRun
  <2>3. QED
    BY <2>1, <2>2, OtherExecution
<1>3. CASE PickRun \/ TimeOut \/ AuditCompleted \/ AuditFailed
  BY <1>3, OtherExecution DEF PickRun, TimeOut, AuditCompleted, AuditFailed
<1>4. CASE FailMissing \/ SettleFailure
  <2>1. \A r \in Runs : status'[r] = "completed" => status[r] = "completed"
    BY <1>4 DEF FailMissing, SettleFailure, TypeOK
  <2>2. UNCHANGED <<resources, claims, results, inflight>> /\ pc' # "load"
    BY <1>4 DEF FailMissing, SettleFailure
  <2>3. QED
    BY <2>1, <2>2, OtherExecution
<1>5. ASSUME NEW e \in inflight, ActionFails(e) PROVE ExecutionInv'
  BY <1>5, OtherExecution DEF ActionFails
<1>6. ASSUME NEW c \in Clients, FinishRetry(c) PROVE ExecutionInv'
  <2>1. client[c].run \in Runs
    BY <1>6 DEF FinishRetry, TypeOK
  <2>2. /\ UNCHANGED <<resources, claims, inflight, pc, job>>
        /\ \A r \in Runs : status'[r] = "completed" =>
                             status[r] = "completed" /\ results'[r] = results[r]
    BY <1>6, <2>1 DEF FinishRetry, TypeOK
  <2>3. QED
    BY <2>2, OtherExecution
<1>7. CASE DatabaseFault \/ Crash
  BY <1>7, OtherExecution DEF DatabaseFault, Crash
<1>8. CASE Recover
  BY <1>8, OtherExecution DEF Recover, Interrupted
<1>9. CASE UNCHANGED QueueVars
  BY <1>9, OtherExecution DEF QueueVars
<1>10. QED
  BY <1>1, <1>2, <1>3, <1>4, <1>5, <1>6, <1>7, <1>8, <1>9, QuietSteps, ClaimExecution,
     LoadExecution, PerformExecution, CompleteExecution
     DEF Next, Tick, Work, Execute, Api, Environment

(* What a completed run lists was created, all of it by one attempt.        *)
THEOREM ExecutionsSafe == Spec => []CompletedIsBacked
<1>1. ExecutionInv => CompletedIsBacked
  BY DEF ExecutionInv
<1>2. QED
  BY <1>1, ExecutionInit, ExecutionStep, TypeCorrect, PTL DEF Spec

(* What a completed run lists is its latest attempt's work, and what still  *)
(* executes for it belongs to attempts that timed out before.               *)
THEOREM ResultsAreCurrent == Spec => []CompletedIsCurrent
<1>1. ExecutionInv => CompletedIsCurrent
  BY DEF ExecutionInv
<1>2. QED
  BY <1>1, ExecutionInit, ExecutionStep, TypeCorrect, PTL DEF Spec

-----------------------------------------------------------------------------
(* The audit log.  From its claim to its verdict a run has no audit row of  *)
(* that claim, and it is about to be audited as completed only when the     *)
(* claim has performed an action.                                           *)
Taken == {"load", "missing", "exec", "audit", "settle", "auditFailed"}
AuditInv ==
  /\ AuditIsTruthful
  /\ \A x \in audits : x[2] <= claims[x[1]]
  /\ pc \in Taken => \A x \in audits : x[1] = job.run => x[2] < claims[job.run]
  /\ pc = "audit" => <<job.run, claims[job.run], 1>> \in resources

LEMMA OtherAudit ==
  ASSUME AuditInv, UNCHANGED <<audits, claims>>, resources \subseteq resources',
         pc' \in Taken => pc \in Taken /\ job'.run = job.run,
         pc' = "audit" => pc = "audit" /\ job'.run = job.run
  PROVE  AuditInv'
<1>1. \A x \in audits : x[3] = "completed" =>
        <<x[1], x[2], "failed">> \notin audits /\ <<x[1], x[2], 1>> \in resources
  BY DEF AuditInv, AuditIsTruthful
<1>2. AuditIsTruthful'
  BY <1>1 DEF AuditIsTruthful
<1>3. QED
  BY <1>2 DEF AuditInv

(* The verdict of the claim the worker holds is the only one. *)
LEMMA Verdict ==
  ASSUME TypeOK, AuditInv, NEW verdict \in {"completed", "failed"},
         pc \in Taken, pc' = "pick", UNCHANGED <<claims, resources>>,
         audits' = audits \cup {<<job.run, claims[job.run], verdict>>},
         verdict = "completed" => <<job.run, claims[job.run], 1>> \in resources
  PROVE  AuditInv'
<1> DEFINE x == <<job.run, claims[job.run], verdict>>
<1>1. x[1] = job.run /\ x[2] = claims[job.run] /\ x[3] = verdict /\ claims[job.run] \in Nat
  BY DEF TypeOK, Taken, Working
<1>2. \A y \in audits : y = <<y[1], y[2], y[3]>> /\ y[1] \in Runs /\ y[2] \in Nat
  BY DEF TypeOK
<1>3. \A y \in audits : y[1] # x[1] \/ y[2] # x[2]
  BY <1>1, <1>2 DEF AuditInv
<1>4. AuditIsTruthful'
  <2> SUFFICES ASSUME NEW y \in audits', y[3] = "completed"
               PROVE  <<y[1], y[2], "failed">> \notin audits' /\ <<y[1], y[2], 1>> \in resources
    BY DEF AuditIsTruthful
  <2>1. CASE y \in audits
    BY <1>1, <1>2, <1>3, <2>1 DEF AuditInv, AuditIsTruthful
  <2>2. CASE y = x
    <3>1. <<y[1], y[2], "failed">> \notin audits
      BY <1>3, <2>2
    <3>2. QED
      BY <1>1, <2>2, <3>1
  <2>3. QED
    BY <2>1, <2>2
<1>5. \A y \in audits' : y[2] <= claims[y[1]]
  BY <1>1, <1>2 DEF AuditInv
<1>6. QED
  BY <1>4, <1>5 DEF AuditInv, Taken

LEMMA AuditStep == TypeOK /\ ExecutionInv /\ AuditInv /\ [Next]_vars => AuditInv'
<1> SUFFICES ASSUME TypeOK, ExecutionInv, AuditInv, [Next]_vars PROVE AuditInv'
  OBVIOUS
<1> USE DEF Taken, runVars, effectVars, workVars, boundVars, histVars
<1>1. CASE Tick
  BY <1>1, OtherAudit DEF Tick, StartTick, EnqueueOccurrence, AdvanceSchedule, EndTick
<1>2. CASE PickRun \/ FailMissing \/ TimeOut \/ SettleFailure
  BY <1>2, OtherAudit DEF PickRun, FailMissing, TimeOut, SettleFailure, Awaited
<1>3. CASE ClaimRun
  <2>1. CASE status[job.run] = "queued"
    <3>1. job.run \in Runs /\ claims' = [claims EXCEPT ![job.run] = @ + 1]
          /\ pc' = "load" /\ UNCHANGED <<job, audits, resources>>
      BY <1>3, <2>1 DEF ClaimRun, TypeOK, Working
    <3>2. \A x \in audits : x[1] \in Runs /\ x[2] \in Nat /\ x[2] <= claims[x[1]]
      BY DEF TypeOK, AuditInv
    <3>3. /\ claims'[job.run] = claims[job.run] + 1
          /\ \A r \in Runs : claims[r] \in Nat /\ claims'[r] \in Nat /\ claims'[r] >= claims[r]
      BY <3>1 DEF TypeOK
    <3>4. QED
      BY <3>1, <3>2, <3>3 DEF AuditInv, AuditIsTruthful
  <2>2. CASE status[job.run] # "queued"
    BY <1>3, <2>2, OtherAudit DEF ClaimRun
  <2>3. QED
    BY <2>1, <2>2
<1>4. CASE LoadRun
  <2>1. job'.run = job.run
    BY <1>4 DEF LoadRun, TypeOK, Job
  <2>2. QED
    BY <1>4, <2>1, OtherAudit DEF LoadRun
<1>5. CASE CompleteRun
  <2>1. PICK e \in inflight : /\ e.run = job.run /\ e.claim = claims[job.run]
                              /\ e.done = e.total /\ e.total > 0 /\ pc = "exec"
    BY <1>5 DEF CompleteRun, Awaited
  <2>2. e.done \in Nat
    BY DEF TypeOK, Execution
  <2>3. <<job.run, claims[job.run], 1>> \in resources
    <3>1. 1 \in 1..e.done
      BY <2>1, <2>2
    <3>2. QED
      BY <2>1, <3>1 DEF ExecutionInv, Performed
  <2>4. pc' = "audit" /\ UNCHANGED <<audits, claims, resources, job>>
    BY <1>5 DEF CompleteRun
  <2>5. QED
    BY <2>1, <2>3, <2>4 DEF AuditInv, AuditIsTruthful
<1>6. CASE AuditCompleted
  BY <1>6, Verdict DEF AuditCompleted, AuditInv
<1>7. CASE AuditFailed
  BY <1>7, Verdict DEF AuditFailed
<1>8. CASE Execute
  BY <1>8, OtherAudit DEF Execute, PerformAction, ActionFails, Awaited
<1>9. ASSUME NEW c \in Clients, FinishRun(c) \/ FinishRetry(c) PROVE AuditInv'
  BY <1>9, OtherAudit DEF FinishRun, FinishRetry
<1>10. CASE DatabaseFault \/ Crash \/ Recover
  BY <1>10, OtherAudit DEF DatabaseFault, Crash, Recover, Awaited
<1>11. CASE UNCHANGED QueueVars
  BY <1>11, OtherAudit DEF QueueVars
<1>12. QED
  BY <1>1, <1>2, <1>3, <1>4, <1>5, <1>6, <1>7, <1>8, <1>9, <1>10, <1>11, QuietSteps
     DEF Next, Work, Api, Environment

(* The audit log gives an attempt one verdict, 'completed' only after an    *)
(* action was performed.                                                    *)
THEOREM AuditTruthful == Spec => []AuditIsTruthful
<1>1. Init => AuditInv
  BY DEF Init, AuditInv, AuditIsTruthful, Taken
<1>2. AuditInv => AuditIsTruthful
  BY DEF AuditInv
<1>3. QED
  BY <1>1, <1>2, AuditStep, ExecutionInit, ExecutionStep, TypeCorrect, PTL DEF Spec

-----------------------------------------------------------------------------
(* Rows of the run table are never deleted and keep their key. *)
LEMMA RowsKept ==
  ASSUME TypeOK, [Next]_vars
  PROVE  \A r \in Runs : status[r] # "none" => status'[r] # "none" /\ info'[r] = info[r]
<1> USE DEF runVars
<1>1. CASE EnqueueOccurrence \/ \E c \in Clients : FinishRun(c)
  BY <1>1, InsertStep DEF Inserted, TypeOK
<1>2. CASE StartTick \/ AdvanceSchedule \/ EndTick
  BY <1>2 DEF StartTick, AdvanceSchedule, EndTick
<1>3. CASE PickRun \/ LoadRun \/ TimeOut \/ AuditCompleted \/ AuditFailed
  BY <1>3 DEF PickRun, LoadRun, TimeOut, AuditCompleted, AuditFailed
<1>4. CASE ClaimRun \/ FailMissing
  BY <1>4 DEF ClaimRun, FailMissing, TypeOK
<1>5. CASE CompleteRun \/ SettleFailure
  BY <1>5 DEF CompleteRun, SettleFailure, TypeOK
<1>6. CASE Execute
  BY <1>6 DEF Execute, PerformAction, ActionFails
<1>7. ASSUME NEW c \in Clients, FinishRetry(c)
      PROVE  \A r \in Runs : status[r] # "none" => status'[r] # "none" /\ info'[r] = info[r]
  BY <1>7 DEF FinishRetry, TypeOK
<1>8. CASE DatabaseFault \/ Crash \/ Recover
  BY <1>8 DEF DatabaseFault, Crash, Recover, Interrupted
<1>9. CASE UNCHANGED QueueVars
  BY <1>9 DEF QueueVars
<1>10. QED
  BY <1>1, <1>2, <1>3, <1>4, <1>5, <1>6, <1>7, <1>8, <1>9, QuietSteps
     DEF Next, Tick, Work, Api, Environment

LEMMA OccurrenceStep == TypeOK /\ NoOccurrenceSkipped /\ [Next]_vars => NoOccurrenceSkipped'
<1> SUFFICES ASSUME TypeOK, NoOccurrenceSkipped, [Next]_vars, pc' = "advance"
             PROVE  KeyInUse(ScheduleKey(cur.auto, cur.at))'
  BY DEF NoOccurrenceSkipped
<1> USE DEF runVars, workVars
<1>1. CASE EnqueueOccurrence
  <2>1. PICK d \in due :
          /\ cur' = d
          /\ \/ KeyInUse(ScheduleKey(d.auto, d.at))
             \/ \E r \in Runs :
                  /\ info' = [info EXCEPT ![r] =
                       [auto |-> d.auto, key |-> ScheduleKey(d.auto, d.at),
                        max |-> MaxAttempts(d.retryLimit)]]
                  /\ status' = [status EXCEPT ![r] = "queued"]
    BY <1>1 DEF EnqueueOccurrence, InsertRun
  <2>2. CASE KeyInUse(ScheduleKey(d.auto, d.at))
    <3>1. KeyInUse(ScheduleKey(d.auto, d.at))'
      BY <2>2, RowsKept DEF KeyInUse
    <3>2. QED
      BY <2>1, <3>1 DEF KeyInUse
  <2>3. ASSUME NEW r \in Runs,
               info' = [info EXCEPT ![r] =
                 [auto |-> d.auto, key |-> ScheduleKey(d.auto, d.at),
                  max |-> MaxAttempts(d.retryLimit)]],
               status' = [status EXCEPT ![r] = "queued"]
        PROVE  KeyInUse(ScheduleKey(cur.auto, cur.at))'
    BY <2>1, <2>3 DEF KeyInUse, TypeOK
  <2>4. QED
    BY <2>1, <2>2, <2>3
<1>2. CASE pc = "advance" /\ cur' = cur
  <2>1. KeyInUse(ScheduleKey(cur.auto, cur.at))
    BY <1>2 DEF NoOccurrenceSkipped
  <2>2. QED
    BY <1>2, <2>1, RowsKept DEF KeyInUse
<1>3. CASE StartTick \/ AdvanceSchedule \/ EndTick
  BY <1>3 DEF StartTick, AdvanceSchedule, EndTick
<1>4. CASE Work
  BY <1>4 DEF Work, PickRun, ClaimRun, LoadRun, FailMissing, TimeOut, CompleteRun,
              AuditCompleted, SettleFailure, AuditFailed
<1>5. CASE Execute
  BY <1>2, <1>5 DEF Execute, PerformAction, ActionFails
<1>6. ASSUME NEW c \in Clients, FinishRun(c) \/ FinishRetry(c)
      PROVE  KeyInUse(ScheduleKey(cur.auto, cur.at))'
  BY <1>2, <1>6 DEF FinishRun, FinishRetry
<1>7. CASE DatabaseFault \/ Crash \/ Recover
  BY <1>7 DEF DatabaseFault, Crash, Recover
<1>8. CASE UNCHANGED QueueVars
  BY <1>2, <1>8 DEF QueueVars
<1>9. QED
  BY <1>1, <1>3, <1>4, <1>5, <1>6, <1>7, <1>8, QuietSteps DEF Next, Tick, Api, Environment

(* The scheduler leaves no occurrence behind without its run. *)
THEOREM OccurrencesKept == Spec => []NoOccurrenceSkipped
<1>1. Init => NoOccurrenceSkipped
  BY DEF Init, NoOccurrenceSkipped
<1>2. QED
  BY <1>1, OccurrenceStep, TypeCorrect, PTL DEF Spec

-----------------------------------------------------------------------------
(* What the worker holds is not completed, failing statements apart: it is  *)
(* running, or queued again by a retry request.                             *)
HeldInv == pc \in {"load", "missing", "exec"} \/ (pc = "settle" /\ faults = 0)
             => status[job.run] \in {"running", "queued"}

LEMMA HeldStep == TypeOK /\ HeldInv /\ [Next]_vars => HeldInv'
<1> SUFFICES ASSUME TypeOK, HeldInv, [Next]_vars PROVE HeldInv'
  OBVIOUS
<1> USE DEF HeldInv, runVars, effectVars, workVars, boundVars, histVars
<1>1. CASE Tick
  BY <1>1 DEF Tick, StartTick, EnqueueOccurrence, AdvanceSchedule, EndTick
<1>2. CASE PickRun \/ FailMissing \/ AuditCompleted \/ SettleFailure \/ AuditFailed
  BY <1>2 DEF PickRun, FailMissing, AuditCompleted, SettleFailure, AuditFailed
<1>3. CASE ClaimRun
  BY <1>3 DEF ClaimRun, TypeOK, Working
<1>4. CASE LoadRun
  BY <1>4 DEF LoadRun, TypeOK, Job
<1>5. CASE TimeOut \/ CompleteRun
  BY <1>5 DEF TimeOut, CompleteRun, Awaited
<1>6. CASE Execute
  BY <1>6 DEF Execute, PerformAction, ActionFails, Awaited
<1>7. ASSUME NEW c \in Clients, FinishRun(c) PROVE HeldInv'
  <2>1. pc \in Working => status'[job.run] = status[job.run]
    BY <1>7, InsertStep DEF Inserted, TypeOK
  <2>2. QED
    BY <1>7, <2>1 DEF FinishRun, Working
<1>8. ASSUME NEW c \in Clients, FinishRetry(c) PROVE HeldInv'
  BY <1>8 DEF FinishRetry, TypeOK
<1>9. CASE DatabaseFault
  BY <1>9 DEF DatabaseFault, TypeOK
<1>10. CASE Crash \/ Recover
  BY <1>10 DEF Crash, Recover
<1>11. CASE UNCHANGED QueueVars
  BY <1>11 DEF QueueVars
<1>12. QED
  BY <1>1, <1>2, <1>3, <1>4, <1>5, <1>6, <1>7, <1>8, <1>9, <1>10, <1>11, QuietSteps
     DEF Next, Work, Api, Environment

(* What the worker holds has not failed, and what a retry request has read  *)
(* as failed still is, unless a retry request has requeued the run since.   *)
RestInv ==
  /\ pc \in {"load", "missing", "exec", "audit", "settle"} /\ job.run \notin reset
       => status[job.run] # "failed"
  /\ \A c \in Clients : client[c].op = "retry"
       => status[client[c].run] = "failed" \/ client[c].run \in reset

LEMMA IdleOp == Idle.op = "idle"
BY DEF Idle

LEMMA RestStep == TypeOK /\ RestInv /\ [Next]_vars => RestInv'
<1> SUFFICES ASSUME TypeOK, RestInv, [Next]_vars PROVE RestInv'
  OBVIOUS
<1> USE DEF RestInv, runVars, effectVars, workVars, boundVars, histVars
<1>1. CASE StartTick \/ AdvanceSchedule \/ EndTick \/ PickRun \/ AuditCompleted \/ AuditFailed
  BY <1>1 DEF StartTick, AdvanceSchedule, EndTick, PickRun, AuditCompleted, AuditFailed
<1>2. CASE EnqueueOccurrence
  <2>1. \A r \in Runs : status[r] = "failed" => status'[r] = "failed"
    BY <1>2, InsertStep DEF Inserted, TypeOK
  <2>2. QED
    BY <1>2, <2>1 DEF EnqueueOccurrence, TypeOK
<1>3. CASE ClaimRun \/ FailMissing \/ SettleFailure
  BY <1>3 DEF ClaimRun, FailMissing, SettleFailure, TypeOK, Working
<1>4. CASE LoadRun
  BY <1>4 DEF LoadRun, TypeOK, Job
<1>5. CASE TimeOut
  BY <1>5 DEF TimeOut, Awaited
<1>6. CASE CompleteRun
  BY <1>6 DEF CompleteRun, Awaited, TypeOK, Working
<1>7. CASE Execute
  BY <1>7 DEF Execute, PerformAction, ActionFails, Awaited
<1>8. ASSUME NEW c \in Clients, FinishRun(c) PROVE RestInv'
  <2>1. \A r \in Runs : status[r] # "none" => status'[r] = status[r]
    BY <1>8, InsertStep DEF Inserted, TypeOK
  <2>2. QED
    BY <1>8, <2>1 DEF FinishRun, TypeOK, Working, Idle
<1>9. ASSUME NEW c \in Clients, NEW r \in Runs, StartRetry(c, r) PROVE RestInv'
  BY <1>9 DEF StartRetry, Suspend, Idle, TypeOK, autoVars
<1>10. ASSUME NEW c \in Clients, FinishRetry(c) PROVE RestInv'
  <2>1. /\ client[c].run \in Runs /\ reset' = reset \cup {client[c].run}
        /\ status' = [status EXCEPT ![client[c].run] = "queued"]
        /\ client' = [client EXCEPT ![c] = Idle] /\ UNCHANGED <<pc, job>>
    BY <1>10 DEF FinishRetry, TypeOK
  <2>2. \A r \in Runs : status[r] = "failed" => status'[r] = "failed" \/ r \in reset'
    BY <2>1 DEF TypeOK
  <2>3. \A b \in Clients : client'[b].op = "retry" => client'[b] = client[b]
    BY <2>1 DEF TypeOK, Idle
  <2>4. \A b \in Clients : client[b].op = "retry" => client[b].run \in Runs
    BY DEF TypeOK
  <2>5. QED
    BY <2>1, <2>2, <2>3, <2>4 DEF TypeOK, Working
<1>11. CASE DatabaseFault
  BY <1>11 DEF DatabaseFault, Awaited, TypeOK
<1>12. CASE Crash \/ Recover
  <2>1. /\ pc' \in {"down", "idle"} /\ UNCHANGED reset
        /\ \A b \in Clients : client'[b].op = "retry" => client'[b] = client[b]
    BY <1>12, IdleOp DEF Crash, Recover
  <2>2. \A r \in Runs : status[r] = "failed" => status'[r] = "failed"
    BY <1>12 DEF Crash, Recover, Interrupted
  <2>3. \A b \in Clients : client[b].op = "retry" => client[b].run \in Runs
    BY DEF TypeOK
  <2>4. QED
    BY <2>1, <2>2, <2>3
<1>13. ASSUME NEW c \in Clients, NEW a \in Automations,
              StartUpdate(c, a) \/ \E k \in Keys : StartRun(c, a, k)
       PROVE  RestInv'
  <2>1. /\ \E x \in Suspended : x.op # "retry" /\ client' = [client EXCEPT ![c] = x]
        /\ UNCHANGED <<pc, job, reset, status>>
    <3>1. CASE StartUpdate(c, a)
      <4> DEFINE x == [Idle EXCEPT !.op = "update", !.auto = a, !.seen = autos[a]]
      <4>1. autos[a] \in AutoRow
        BY DEF TypeOK
      <4>2. x \in Suspended
        BY <4>1, UpdateSuspended
      <4>3. x.op # "retry"
        BY DEF Idle
      <4>4. client' = [client EXCEPT ![c] = x]
        BY <3>1 DEF StartUpdate, Suspend
      <4> HIDE DEF x
      <4>5. UNCHANGED <<pc, job, reset, status>>
        BY <3>1 DEF StartUpdate, Suspend, runVars, workVars, histVars
      <4>6. QED
        BY <4>2, <4>3, <4>4, <4>5
    <3>2. ASSUME NEW k \in Keys, StartRun(c, a, k)
          PROVE  /\ \E x \in Suspended : x.op # "retry" /\ client' = [client EXCEPT ![c] = x]
                 /\ UNCHANGED <<pc, job, reset, status>>
      <4> DEFINE x == [Idle EXCEPT !.op = "run", !.auto = a, !.key = k, !.seen = autos[a]]
      <4>1. autos[a] \in AutoRow
        BY DEF TypeOK
      <4>2. x \in Suspended
        BY <4>1, RunSuspended
      <4>3. x.op # "retry"
        BY DEF Idle
      <4>4. client' = [client EXCEPT ![c] = x]
        BY <3>2 DEF StartRun, Suspend
      <4> HIDE DEF x
      <4>5. UNCHANGED <<pc, job, reset, status>>
        BY <3>2 DEF StartRun, Suspend, runVars, workVars, histVars
      <4>6. QED
        BY <4>2, <4>3, <4>4, <4>5
    <3>3. QED
      BY <1>13, <3>1, <3>2
  <2>2. \A b \in Clients : client'[b].op = "retry" => client'[b] = client[b]
    BY <2>1 DEF TypeOK
  <2>3. QED
    BY <2>1, <2>2
<1>14. ASSUME NEW a \in Automations, CreateAutomation(a) \/ RemoveAutomation(a) PROVE RestInv'
  BY <1>14 DEF CreateAutomation, RemoveAutomation
<1>15. CASE (\E r \in Runs : BackoffEnds(r)) \/ TimePasses \/ UNCHANGED vars
  BY <1>15 DEF BackoffEnds, TimePasses, autoVars, vars
<1>16. ASSUME NEW c \in Clients, FinishUpdate(c) PROVE RestInv'
  BY <1>16 DEF FinishUpdate, Idle, TypeOK
<1>17. QED
  BY <1>1, <1>2, <1>3, <1>4, <1>5, <1>6, <1>7, <1>8, <1>9, <1>10, <1>11, <1>12, <1>13, <1>14,
     <1>15, <1>16 DEF Next, Tick, Work, Api, Environment

LEMMA StaysStep == TypeOK /\ HeldInv /\ RestInv /\ [Next]_vars => CompletedStays
<1> SUFFICES ASSUME TypeOK, HeldInv, RestInv, [Next]_vars,
                    NEW r \in Runs, status[r] = "completed", status'[r] # "completed"
             PROVE  \/ pc = "settle" /\ faults > 0 /\ job.run = r
                    \/ /\ r \in reset
                       /\ \E c \in Clients : client[c].op = "retry" /\ client[c].run = r
  BY DEF CompletedStays
<1> USE DEF runVars
<1>1. ~ UNCHANGED status
  OBVIOUS
<1>2. CASE EnqueueOccurrence \/ \E c \in Clients : FinishRun(c)
  BY <1>1, <1>2, InsertStep DEF Inserted, TypeOK
<1>3. CASE ClaimRun \/ FailMissing
  BY <1>3 DEF ClaimRun, FailMissing, HeldInv, TypeOK
<1>4. CASE CompleteRun
  BY <1>4 DEF CompleteRun, TypeOK
<1>5. CASE SettleFailure
  <2>1. job.run = r /\ pc = "settle"
    BY <1>5 DEF SettleFailure, TypeOK
  <2>2. faults \in Nat /\ faults # 0
    BY <2>1 DEF HeldInv, TypeOK
  <2>3. QED
    BY <2>1, <2>2
<1>6. ASSUME NEW c \in Clients, FinishRetry(c) 
      PROVE  r \in reset /\ client[c].op = "retry" /\ client[c].run = r
  BY <1>6 DEF FinishRetry, RestInv, TypeOK
<1>7. CASE Recover
  BY <1>7 DEF Recover, Interrupted
<1>8. CASE \/ StartTick \/ AdvanceSchedule \/ EndTick \/ PickRun \/ LoadRun \/ TimeOut
           \/ AuditCompleted \/ AuditFailed \/ Execute \/ DatabaseFault \/ Crash
  BY <1>1, <1>8 DEF StartTick, AdvanceSchedule, EndTick, PickRun, LoadRun, TimeOut, AuditCompleted,
     AuditFailed, Execute, PerformAction, ActionFails, DatabaseFault, Crash
<1>9. CASE UNCHANGED QueueVars
  BY <1>1, <1>9 DEF QueueVars
<1>10. QED
  BY <1>2, <1>3, <1>4, <1>5, <1>6, <1>7, <1>8, <1>9, QuietSteps
     DEF Next, Tick, Work, Api, Environment

(* Only a failure after the fact, or a retry request that read an older     *)
(* status, takes a run out of 'completed'.                                  *)
THEOREM CompletedRunsStay == Spec => CompletedIsFinal
<1>1. Init => HeldInv /\ RestInv
  <2>1. Init => \A c \in Clients : client[c].op = "idle"
    BY IdleOp DEF Init
  <2>2. QED
    BY <2>1 DEF Init, HeldInv, RestInv
<1>2. TypeOK /\ HeldInv /\ RestInv /\ [Next]_vars => [CompletedStays]_vars
  BY StaysStep
<1>3. QED
  BY <1>1, <1>2, HeldStep, RestStep, TypeCorrect, PTL DEF Spec, CompletedIsFinal

-----------------------------------------------------------------------------
(* The refinement of OccurrenceSchedule. *)

(* The edits of a request touch neither trigger nor date nor switch, and    *)
(* where there are edits, an automation that is off has no date, which an   *)
(* edit would clear.  Without edits this holds whatever the automations.    *)
EditsLeaveSchedules ==
  \A p \in Edits : /\ p.active = "keep" /\ p.next = Keep /\ p.interval = Keep
                   /\ \A b \in NewAutomations : ~b.active => b.next = Never

(* The variables of OccurrenceSchedule as Schedule maps them. *)
Cursor == [a \in Automations |-> autos[a].next +
                                   (IF Moved(a) THEN autos[a].interval ELSE 0)]
Steps == [a \in Automations |-> autos[a].interval]
Fired == { info[r].key : r \in { q \in Runs : status[q] # "none" /\ info[q].key \notin Keys } }

(* A row that has a date exactly when it is switched on. *)
DatedIfOn(row) == row.next = Never <=> ~row.active

(* The due rows agree with the table, one for each automation, also while   *)
(* the scheduler is at one of them, and no run is of a later occurrence     *)
(* than the one its automation stands at.                                   *)
ScheduleInv ==
  /\ \A a \in Automations : /\ autos[a].state = "absent" => autos[a].next = Never
                            /\ Edits # {} => DatedIfOn(autos[a])
  /\ \A c \in Clients : Edits # {} /\ client[c].op = "update" => DatedIfOn(client[c].seen)
  /\ \A d \in due : autos[d.auto].next = d.at /\ autos[d.auto].interval = d.interval
  /\ \A d, e \in due : d.auto = e.auto => d = e
  /\ pc = "advance" => cur \in due
  /\ \A r \in Runs, a \in Automations, t \in Nat :
       status[r] # "none" /\ info[r].key = ScheduleKey(a, t) => t <= autos[a].next

(* Only the two inserts change which rows there are or their columns. *)
SameRows == /\ info' = info
            /\ \A r \in Runs : status'[r] = "none" <=> status[r] = "none"

LEMMA RowsStay ==
  ASSUME TypeOK, [Next]_vars
  PROVE  SameRows \/ EnqueueOccurrence \/ \E c \in Clients : FinishRun(c)
<1> USE DEF SameRows, runVars, Working
<1>1. CASE StartTick \/ AdvanceSchedule \/ EndTick
  BY <1>1 DEF StartTick, AdvanceSchedule, EndTick
<1>2. CASE PickRun \/ LoadRun \/ TimeOut \/ AuditCompleted \/ AuditFailed
  BY <1>2 DEF PickRun, LoadRun, TimeOut, AuditCompleted, AuditFailed
<1>3. CASE ClaimRun \/ FailMissing
  BY <1>3 DEF ClaimRun, FailMissing, TypeOK
<1>4. CASE SettleFailure
  BY <1>4 DEF SettleFailure, TypeOK
<1>5. CASE CompleteRun
  BY <1>5 DEF CompleteRun, Awaited, TypeOK
<1>6. CASE Execute
  BY <1>6 DEF Execute, PerformAction, ActionFails
<1>7. ASSUME NEW c \in Clients, FinishRetry(c) PROVE SameRows
  BY <1>7 DEF FinishRetry, TypeOK
<1>8. CASE DatabaseFault \/ Crash \/ Recover
  BY <1>8 DEF DatabaseFault, Crash, Recover, Interrupted
<1>9. CASE UNCHANGED QueueVars
  BY <1>9 DEF QueueVars
<1>10. QED
  BY <1>1, <1>2, <1>3, <1>4, <1>5, <1>6, <1>7, <1>8, <1>9, QuietSteps
     DEF Next, Tick, Work, Api, Environment

LEMMA KeysApart == \A a \in Automations, t \in Nat : ScheduleKey(a, t) \notin Keys
<1>1. ASSUME NEW a \in Automations, NEW t \in Nat PROVE <<a, t>> \in Automations \X Nat
  OBVIOUS
<1>2. Keys \cap (Automations \X Nat) = {}
  BY ConstantsAssumption
<1>3. QED
  BY <1>1, <1>2

(* .. and only that of the scheduler an occurrence: a client's key is not   *)
(* the key of one.                                                          *)
LEMMA LedgerStays ==
  ASSUME TypeOK, SameRows \/ \E c \in Clients : FinishRun(c)
  PROVE  /\ Fired' = Fired
         /\ \A a \in Automations, t \in Nat :
              /\ KeyInUse(ScheduleKey(a, t))' <=> KeyInUse(ScheduleKey(a, t))
              /\ \A r \in Runs : status'[r] # "none" /\ info'[r].key = ScheduleKey(a, t) =>
                                   status[r] # "none" /\ info[r].key = ScheduleKey(a, t)
<1>1. CASE SameRows
  BY <1>1 DEF SameRows, Fired, KeyInUse
<1>2. ASSUME NEW c \in Clients, FinishRun(c), NEW r \in Runs, status[r] = "none",
             InsertRun(r, client[c].auto, client[c].key, MaxAttempts(client[c].seen.retryLimit))
      PROVE  /\ Fired' = Fired
             /\ \A a \in Automations, t \in Nat :
                  /\ KeyInUse(ScheduleKey(a, t))' <=> KeyInUse(ScheduleKey(a, t))
                  /\ \A q \in Runs : status'[q] # "none" /\ info'[q].key = ScheduleKey(a, t) =>
                                       status[q] # "none" /\ info[q].key = ScheduleKey(a, t)
  <2>1. client[c].key \in Keys
    BY <1>2 DEF FinishRun, TypeOK
  <2>2. /\ info'[r].key = client[c].key /\ status'[r] # "none"
        /\ \A q \in Runs \ {r} : info'[q] = info[q] /\ status'[q] = status[q]
    BY <1>2 DEF InsertRun, TypeOK
  <2>3. \A a \in Automations, t \in Nat : ScheduleKey(a, t) \notin Keys
    BY KeysApart
  <2>4. Fired' = Fired
    BY <1>2, <2>1, <2>2 DEF Fired
  <2>5. QED
    BY <1>2, <2>1, <2>2, <2>3, <2>4 DEF KeyInUse
<1>3. ASSUME NEW c \in Clients, FinishRun(c)
      PROVE  \/ SameRows
             \/ \E r \in Runs : /\ status[r] = "none"
                                /\ InsertRun(r, client[c].auto, client[c].key,
                                             MaxAttempts(client[c].seen.retryLimit))
  BY <1>3 DEF FinishRun, IsNextRow, SameRows
<1>4. QED
  BY <1>1, <1>2, <1>3

(* The insert of the scheduler enters at most the occurrence of its due row. *)
LEMMA LedgerGrows ==
  ASSUME TypeOK, NEW d \in due,
         IF KeyInUse(ScheduleKey(d.auto, d.at))
         THEN UNCHANGED <<info, status>>
         ELSE \E r \in Runs : /\ IsNextRow(r)
                              /\ InsertRun(r, d.auto, ScheduleKey(d.auto, d.at),
                                           MaxAttempts(d.retryLimit))
  PROVE  /\ d.auto \in Automations /\ d.at \in Nat
         /\ KeyInUse(ScheduleKey(d.auto, d.at)) => SameRows
         /\ Fired' = Fired \cup {ScheduleKey(d.auto, d.at)}
         /\ \A a \in Automations, t \in Nat :
              /\ KeyInUse(ScheduleKey(a, t))' <=>
                   KeyInUse(ScheduleKey(a, t)) \/ (a = d.auto /\ t = d.at)
              /\ \A q \in Runs : status'[q] # "none" /\ info'[q].key = ScheduleKey(a, t) =>
                   \/ status[q] # "none" /\ info[q].key = ScheduleKey(a, t)
                   \/ a = d.auto /\ t = d.at
<1>1. d.auto \in Automations /\ d.at \in Nat
  BY DEF TypeOK, Due
<1> DEFINE k == ScheduleKey(d.auto, d.at)
<1>2. k \notin Keys
  BY <1>1, KeysApart
<1>3. \A a \in Automations, t \in Nat : ScheduleKey(a, t) = k => a = d.auto /\ t = d.at
  BY <1>1
<1> HIDE DEF k
<1>4. CASE KeyInUse(k)
  <2>1. UNCHANGED <<info, status>>
    BY <1>4 DEF k
  <2>2. k \in Fired
    BY <1>2, <1>4 DEF KeyInUse, Fired
  <2>3. Fired' = Fired
    BY <2>1 DEF Fired
  <2>4. \A x : KeyInUse(x)' <=> KeyInUse(x)
    BY <2>1 DEF KeyInUse
  <2>5. QED
    BY <1>1, <1>4, <2>1, <2>2, <2>3, <2>4 DEF SameRows, k
<1>5. ASSUME NEW r \in Runs, ~KeyInUse(k), status[r] = "none",
             InsertRun(r, d.auto, k, MaxAttempts(d.retryLimit))
      PROVE  /\ Fired' = Fired \cup {k}
             /\ \A x : /\ KeyInUse(x)' <=> KeyInUse(x) \/ x = k
                       /\ \A q \in Runs : status'[q] # "none" /\ info'[q].key = x =>
                            (status[q] # "none" /\ info[q].key = x) \/ x = k
  <2>1. /\ info'[r].key = k /\ status'[r] # "none"
        /\ \A q \in Runs \ {r} : info'[q] = info[q] /\ status'[q] = status[q]
    BY <1>5 DEF InsertRun, TypeOK
  <2>2. QED
    BY <1>2, <1>5, <2>1 DEF Fired, KeyInUse
<1>6. CASE ~KeyInUse(k)
  <2>1. PICK r \in Runs : /\ status[r] = "none"
                          /\ InsertRun(r, d.auto, k, MaxAttempts(d.retryLimit))
    BY <1>6 DEF k, IsNextRow
  <2>2. /\ Fired' = Fired \cup {k}
        /\ \A x : /\ KeyInUse(x)' <=> KeyInUse(x) \/ x = k
                  /\ \A q \in Runs : status'[q] # "none" /\ info'[q].key = x =>
                       (status[q] # "none" /\ info[q].key = x) \/ x = k
    BY <1>5, <1>6, <2>1
  <2>3. QED
    BY <1>1, <1>3, <1>6, <2>2 DEF k
<1>7. QED
  BY <1>4, <1>6

(* A step that changes no row's schedule, adds no occurrence and lets the   *)
(* scheduler be where it was, or gives its due rows up.                     *)
SameSchedules ==
  \A a \in Automations : /\ autos'[a].state = "absent" => autos[a].state = "absent"
                         /\ autos'[a].next = autos[a].next
                         /\ autos'[a].interval = autos[a].interval
                         /\ autos'[a].active = autos[a].active

LEMMA ScheduleKept ==
  ASSUME TypeOK, ScheduleInv, SameSchedules, due' \subseteq due,
         pc' = "advance" => pc = "advance" /\ cur' = cur /\ due' = due,
         \A c \in Clients : client'[c].op = "update" =>
           \/ client'[c] = client[c]
           \/ \E a \in Automations : client'[c].seen = autos[a],
         \A r \in Runs, a \in Automations, t \in Nat :
           status'[r] # "none" /\ info'[r].key = ScheduleKey(a, t) =>
             status[r] # "none" /\ info[r].key = ScheduleKey(a, t)
  PROVE  ScheduleInv'
<1>1. \A d \in due : d.auto \in Automations
  BY DEF TypeOK, Due
<1>2. \A a \in Automations : /\ autos'[a].state = "absent" => autos'[a].next = Never
                             /\ Edits # {} => DatedIfOn(autos'[a])
  BY DEF ScheduleInv, SameSchedules, DatedIfOn
<1>3. \A c \in Clients : Edits # {} /\ client'[c].op = "update" => DatedIfOn(client'[c].seen)
  BY DEF ScheduleInv
<1>4. \A d \in due' : autos'[d.auto].next = d.at /\ autos'[d.auto].interval = d.interval
  BY <1>1 DEF ScheduleInv, SameSchedules
<1>5. \A d, e \in due' : d.auto = e.auto => d = e
  BY DEF ScheduleInv
<1>6. pc' = "advance" => cur' \in due'
  BY DEF ScheduleInv
<1>7. \A r \in Runs, a \in Automations, t \in Nat :
        status'[r] # "none" /\ info'[r].key = ScheduleKey(a, t) => t <= autos'[a].next
  BY DEF ScheduleInv, SameSchedules
<1>8. QED
  BY <1>2, <1>3, <1>4, <1>5, <1>6, <1>7 DEF ScheduleInv, DatedIfOn

(* An edit that leaves the schedule alone writes the schedule as it is.     *)
LEMMA EditKept ==
  ASSUME EditsLeaveSchedules, NEW p \in Edits, NEW seen \in AutoRow, NEW row \in AutoRow,
         DatedIfOn(seen)
  PROVE  LET new == WriteChanges(row, PatchedRow(p, seen), seen) IN
           /\ new.state = row.state /\ new.next = row.next
           /\ new.interval = row.interval /\ new.active = row.active
<1>1. p.active = "keep" /\ p.next = Keep /\ p.interval = Keep
  BY DEF EditsLeaveSchedules
<1>2. PatchedActive(p, seen) = seen.active /\ Patched(p.interval, seen.interval) = seen.interval
  BY <1>1 DEF PatchedActive, Patched
<1>3. seen.active \in BOOLEAN
  BY DEF AutoRow
<1>4. /\ PatchedRow(p, seen).active = seen.active
      /\ PatchedRow(p, seen).interval = seen.interval
      /\ PatchedRow(p, seen).next = seen.next
  <2>1. CASE seen.active
    <3>1. seen.next # Never
      BY <2>1 DEF DatedIfOn
    <3>2. ~Reschedules(p, seen)
      BY <1>1, <3>1 DEF Reschedules
    <3>3. QED
      BY <1>1, <1>2, <2>1, <3>2 DEF PatchedRow
  <2>2. CASE ~seen.active
    BY <1>1, <1>2, <2>2 DEF PatchedRow, DatedIfOn
  <2>3. QED
    BY <2>1, <2>2
<1>5. QED
  BY <1>4 DEF WriteChanges, Column

LEMMA UpdateKept ==
  ASSUME TypeOK, ScheduleInv, EditsLeaveSchedules, NEW c \in Clients, FinishUpdate(c)
  PROVE  SameSchedules
<1>1. PICK p \in Edits :
        \/ UNCHANGED autos
        \/ autos' = [autos EXCEPT ![client[c].auto] =
                       WriteChanges(@, PatchedRow(p, client[c].seen), client[c].seen)]
  BY DEF FinishUpdate
<1>2. CASE UNCHANGED autos
  BY <1>2 DEF SameSchedules
<1>3. ASSUME autos' = [autos EXCEPT ![client[c].auto] =
                         WriteChanges(@, PatchedRow(p, client[c].seen), client[c].seen)]
      PROVE  SameSchedules
  <2>1. client[c].seen \in AutoRow /\ autos \in [Automations -> AutoRow]
    BY DEF TypeOK, Suspended
  <2>2. DatedIfOn(client[c].seen)
    BY <1>1 DEF ScheduleInv, FinishUpdate
  <2>3. ASSUME NEW a \in Automations, a = client[c].auto
        PROVE  /\ autos'[a].state = autos[a].state /\ autos'[a].next = autos[a].next
               /\ autos'[a].interval = autos[a].interval /\ autos'[a].active = autos[a].active
    <3>1. autos'[a] = WriteChanges(autos[a], PatchedRow(p, client[c].seen), client[c].seen)
      BY <1>3, <2>1, <2>3
    <3>2. QED
      BY <2>1, <2>2, <3>1, EditKept
  <2>4. \A a \in Automations : a # client[c].auto => autos'[a] = autos[a]
    BY <1>3, <2>1
  <2>5. QED
    BY <2>3, <2>4 DEF SameSchedules
<1>4. QED
  BY <1>1, <1>2, <1>3

(* The two steps of the scheduler on a due row, and those that bring        *)
(* automations and due rows.                                                *)
LEMMA AdvanceInv == TypeOK /\ ScheduleInv /\ AdvanceSchedule => ScheduleInv'
<1> SUFFICES ASSUME TypeOK, ScheduleInv, AdvanceSchedule PROVE ScheduleInv'
  OBVIOUS
<1>1. /\ pc = "advance" /\ cur \in due /\ cur.auto \in Automations
      /\ cur.at \in Nat /\ cur.interval \in Nat
      /\ autos[cur.auto].next = cur.at /\ autos[cur.auto].interval = cur.interval
  BY DEF AdvanceSchedule, ScheduleInv, TypeOK, Due
<1>2. SameRows /\ UNCHANGED client
  BY DEF AdvanceSchedule, SameRows, runVars
<1>3. CASE CanSchedule(cur.interval)
  <2>1. /\ autos' = [autos EXCEPT ![cur.auto].next = cur.at + cur.interval]
        /\ due' = due \ {cur} /\ pc' \in {"pick", "enqueue"}
    BY <1>3 DEF AdvanceSchedule, NextRun
  <2>2. /\ \A a \in Automations : /\ autos'[a].state = autos[a].state
                                  /\ autos'[a].active = autos[a].active
                                  /\ autos'[a].interval = autos[a].interval
        /\ \A a \in Automations \ {cur.auto} : autos'[a].next = autos[a].next
        /\ autos'[cur.auto].next = cur.at + cur.interval
    BY <1>1, <2>1 DEF TypeOK, AutoRow
  <2>3. /\ cur.at <= cur.at + cur.interval /\ cur.at + cur.interval \in Nat
        /\ cur.at # Never /\ cur.at + cur.interval # Never
    BY <1>1
  <2>4. \A a \in Automations : /\ autos'[a].state = "absent" => autos'[a].next = Never
                               /\ Edits # {} => DatedIfOn(autos'[a])
    BY <1>1, <2>2, <2>3 DEF ScheduleInv, DatedIfOn
  <2>5. \A d \in due' : d.auto \in Automations /\ d.auto # cur.auto
    BY <1>1, <2>1 DEF ScheduleInv, TypeOK, Due
  <2>6. \A d \in due' : autos'[d.auto].next = d.at /\ autos'[d.auto].interval = d.interval
    BY <2>1, <2>2, <2>5 DEF ScheduleInv
  <2>7. \A r \in Runs, a \in Automations, t \in Nat :
          status'[r] # "none" /\ info'[r].key = ScheduleKey(a, t) => t <= autos'[a].next
    <3>1. ASSUME NEW r \in Runs, NEW a \in Automations, NEW t \in Nat,
                 status'[r] # "none", info'[r].key = ScheduleKey(a, t)
          PROVE  t <= autos'[a].next
      <4>1. t <= autos[a].next
        BY <1>2, <3>1 DEF SameRows, ScheduleInv
      <4>2. CASE a = cur.auto
        BY <1>1, <2>2, <2>3, <4>1, <4>2
      <4>3. CASE a # cur.auto
        BY <2>2, <4>1, <4>3
      <4>4. QED
        BY <4>2, <4>3
    <3>2. QED
      BY <3>1
  <2>8. QED
    BY <1>2, <2>1, <2>4, <2>6, <2>7 DEF ScheduleInv, DatedIfOn
<1>4. CASE ~CanSchedule(cur.interval)
  BY <1>2, <1>4, ScheduleKept DEF AdvanceSchedule, SameRows, SameSchedules
<1>5. QED
  BY <1>3, <1>4

LEMMA EnqueueInv == TypeOK /\ ScheduleInv /\ EnqueueOccurrence => ScheduleInv'
<1> SUFFICES ASSUME TypeOK, ScheduleInv, EnqueueOccurrence PROVE ScheduleInv'
  OBVIOUS
<1>1. PICK d \in due :
        /\ cur' = d
        /\ IF KeyInUse(ScheduleKey(d.auto, d.at))
           THEN UNCHANGED <<info, status>>
           ELSE \E r \in Runs : /\ IsNextRow(r)
                                /\ InsertRun(r, d.auto, ScheduleKey(d.auto, d.at),
                                             MaxAttempts(d.retryLimit))
  BY DEF EnqueueOccurrence
<1>2. UNCHANGED <<autos, due, client>>
  BY DEF EnqueueOccurrence, autoVars
<1>3. \A r \in Runs, a \in Automations, t \in Nat :
        status'[r] # "none" /\ info'[r].key = ScheduleKey(a, t) => t <= autos'[a].next
  <2>1. autos[d.auto].next = d.at /\ d.at \in Nat
    BY DEF ScheduleInv, TypeOK, Due
  <2>2. \A r \in Runs, a \in Automations, t \in Nat :
          status'[r] # "none" /\ info'[r].key = ScheduleKey(a, t) =>
            \/ status[r] # "none" /\ info[r].key = ScheduleKey(a, t)
            \/ a = d.auto /\ t = d.at
    BY <1>1, LedgerGrows
  <2>3. QED
    BY <1>2, <2>1, <2>2 DEF ScheduleInv
<1>4. QED
  BY <1>1, <1>2, <1>3 DEF ScheduleInv, DatedIfOn

LEMMA StartInv == TypeOK /\ ScheduleInv /\ StartTick => ScheduleInv'
<1> SUFFICES ASSUME TypeOK, ScheduleInv, StartTick PROVE ScheduleInv'
  OBVIOUS
<1>1. /\ UNCHANGED <<autos, client>> /\ SameRows /\ due' = DueRows
      /\ pc' # "advance"
  BY DEF StartTick, SameRows, autoVars, runVars
<1>2. \A d \in DueRows : autos[d.auto].next = d.at /\ autos[d.auto].interval = d.interval
  BY DEF DueRows
<1>3. \A d, e \in DueRows : d.auto = e.auto => d = e
  BY DEF DueRows
<1>4. QED
  BY <1>1, <1>2, <1>3 DEF ScheduleInv, SameRows, DatedIfOn

LEMMA CreateInv ==
  ASSUME TypeOK, ScheduleInv, EditsLeaveSchedules,
         NEW a \in Automations, CreateAutomation(a)
  PROVE  ScheduleInv'
<1>1. PICK b \in NewAutomations :
        /\ b.next = Never /\ b.active => CanSchedule(b.interval)
        /\ autos' = [autos EXCEPT ![a] =
             [state |-> "live", active |-> b.active,
              next |-> IF b.next # Never THEN b.next
                       ELSE IF b.active THEN NextRun(b.interval, now) ELSE Never,
              interval |-> b.interval, retryLimit |-> b.retryLimit,
              actions |-> b.actions]]
  BY DEF CreateAutomation
<1>2. /\ autos[a].next = Never /\ UNCHANGED <<due, cur, pc, client>> /\ SameRows
  BY DEF CreateAutomation, ScheduleInv, SameRows, workVars, runVars
<1>3. b \in Body /\ now \in Nat
  BY ConstantsAssumption DEF TypeOK
<1>4. /\ autos'[a].state = "live"
      /\ Edits # {} => DatedIfOn(autos'[a])
      /\ \A c \in Automations \ {a} : autos'[c] = autos[c]
  <2>1. b.active /\ b.next = Never => NextRun(b.interval, now) \in Nat
    BY <1>3 DEF NextRun, Body
  <2>2. Edits # {} /\ ~b.active => b.next = Never
    BY DEF EditsLeaveSchedules
  <2>3. autos'[a].state = "live" /\ \A c \in Automations \ {a} : autos'[c] = autos[c]
    BY <1>1 DEF TypeOK
  <2>4. /\ autos'[a].active = b.active
        /\ autos'[a].next = IF b.next # Never THEN b.next
                            ELSE IF b.active THEN NextRun(b.interval, now) ELSE Never
    BY <1>1 DEF TypeOK
  <2>5. ASSUME Edits # {} PROVE DatedIfOn(autos'[a])
    BY <1>3, <2>1, <2>2, <2>4, <2>5 DEF DatedIfOn, Body
  <2>6. QED
    BY <2>3, <2>5
<1>5. \A d \in due : d.auto \in Automations /\ d.auto # a
  BY <1>2 DEF ScheduleInv, TypeOK, Due
<1>6. \A r \in Runs, c \in Automations, t \in Nat :
        status'[r] # "none" /\ info'[r].key = ScheduleKey(c, t) => t <= autos'[c].next
  <2>1. \A r \in Runs, t \in Nat : ~(status[r] # "none" /\ info[r].key = ScheduleKey(a, t))
    <3>1. ASSUME NEW r \in Runs, NEW t \in Nat, status[r] # "none",
                 info[r].key = ScheduleKey(a, t)
          PROVE  FALSE
      <4>1. t <= autos[a].next
        BY <3>1 DEF ScheduleInv
      <4>2. QED
        BY <1>2, <4>1
    <3>2. QED
      BY <3>1
  <2>2. QED
    BY <1>2, <1>4, <2>1 DEF ScheduleInv, SameRows
<1>7. \A c \in Automations : /\ autos'[c].state = "absent" => autos'[c].next = Never
                             /\ Edits # {} => DatedIfOn(autos'[c])
  BY <1>4 DEF ScheduleInv
<1>8. \A d \in due' : autos'[d.auto].next = d.at /\ autos'[d.auto].interval = d.interval
  BY <1>2, <1>4, <1>5 DEF ScheduleInv
<1>9. /\ \A d, e \in due' : d.auto = e.auto => d = e
      /\ pc' = "advance" => cur' \in due'
      /\ \A c \in Clients : Edits # {} /\ client'[c].op = "update" => DatedIfOn(client'[c].seen)
  BY <1>2 DEF ScheduleInv
<1>10. QED
  BY <1>6, <1>7, <1>8, <1>9 DEF ScheduleInv, DatedIfOn

(* Every other step keeps the schedules, and the scheduler's place or none. *)
LEMMA OtherKept ==
  ASSUME TypeOK, ScheduleInv, EditsLeaveSchedules, [Next]_vars
  PROVE  \/ AdvanceSchedule \/ EnqueueOccurrence \/ StartTick
         \/ \E a \in Automations : CreateAutomation(a)
         \/ /\ SameSchedules /\ due' \subseteq due
            /\ pc' = "advance" => pc = "advance" /\ cur' = cur /\ due' = due
            /\ \A c \in Clients : client'[c].op = "update" =>
                 \/ client'[c] = client[c]
                 \/ \E a \in Automations : client'[c].seen = autos[a]
            /\ SameRows \/ \E c \in Clients : FinishRun(c)
<1> DEFINE Place == /\ due' \subseteq due
                    /\ pc' = "advance" => pc = "advance" /\ cur' = cur /\ due' = due
           Handlers == \A c \in Clients : client'[c].op = "update" =>
                         \/ client'[c] = client[c]
                         \/ \E a \in Automations : client'[c].seen = autos[a]
<1>1. SameRows \/ EnqueueOccurrence \/ \E c \in Clients : FinishRun(c)
  BY RowsStay
<1>2. UNCHANGED autos => SameSchedules
  BY DEF SameSchedules
<1>3. UNCHANGED client => Handlers
  OBVIOUS
<1> HIDE DEF Handlers
<1> USE DEF autoVars, runVars, effectVars, workVars, boundVars, histVars
<1>4. CASE EndTick
  BY <1>1, <1>2, <1>3, <1>4 DEF EndTick, Handlers
<1>5. CASE Work
  <2>1. UNCHANGED <<autos, client, due, cur>> /\ pc' # "advance"
    BY <1>5 DEF Work, PickRun, ClaimRun, LoadRun, FailMissing, TimeOut, CompleteRun,
                AuditCompleted, SettleFailure, AuditFailed
  <2>2. QED
    BY <1>1, <1>2, <1>3, <2>1 DEF Handlers
<1>6. CASE Execute
  <2>1. UNCHANGED <<autos, client, due, cur>> /\ (pc' = "advance" => pc = "advance")
    BY <1>6 DEF Execute, PerformAction, ActionFails
  <2>2. QED
    BY <1>1, <1>2, <1>3, <2>1 DEF Handlers
<1>7. CASE (\E r \in Runs : BackoffEnds(r)) \/ TimePasses \/ UNCHANGED vars
  <2>1. UNCHANGED <<autos, client, due, cur, pc>>
    BY <1>7 DEF BackoffEnds, TimePasses, vars
  <2>2. QED
    BY <1>1, <1>2, <1>3, <2>1 DEF Handlers
<1>8. CASE DatabaseFault
  <2>1. UNCHANGED <<autos, client>> /\ Place
    BY <1>8 DEF DatabaseFault
  <2>2. QED
    BY <1>1, <1>2, <1>3, <2>1, <1>8 DEF Handlers
<1>9. CASE Crash \/ Recover
  <2>1. UNCHANGED autos /\ Place
    BY <1>9 DEF Crash, Recover
  <2>2. Handlers
    BY <1>3, <1>9, IdleOp DEF Crash, Recover, Handlers
  <2>3. QED
    BY <1>1, <1>2, <2>1, <2>2 DEF Handlers
<1>10. ASSUME NEW a \in Automations, RemoveAutomation(a)
       PROVE  SameSchedules /\ Place /\ Handlers
  <2>1. UNCHANGED <<client, due, cur, pc>>
    BY <1>10 DEF RemoveAutomation
  <2>2. SameSchedules
    BY <1>10 DEF RemoveAutomation, SameSchedules, TypeOK, AutoRow
  <2>3. QED
    BY <1>3, <2>1, <2>2
<1>11. ASSUME NEW c \in Clients, NEW x,
              client' = [client EXCEPT ![c] = x],
              x.op = "update" => \E a \in Automations : x.seen = autos[a]
       PROVE  Handlers
  BY <1>11 DEF Handlers, TypeOK
<1>12. ASSUME NEW c \in Clients, FinishUpdate(c) PROVE SameSchedules /\ Place /\ Handlers
  <2>1. client' = [client EXCEPT ![c] = Idle] /\ UNCHANGED <<due, cur, pc>>
    BY <1>12 DEF FinishUpdate
  <2>2. QED
    BY <1>11, <1>12, <2>1, UpdateKept, IdleOp
<1>13. ASSUME NEW c \in Clients, FinishRun(c) \/ FinishRetry(c)
       PROVE  SameSchedules /\ Place /\ Handlers
  <2>1. client' = [client EXCEPT ![c] = Idle] /\ UNCHANGED <<autos, due, cur, pc>>
    BY <1>13 DEF FinishRun, FinishRetry
  <2>2. QED
    BY <1>2, <1>11, <2>1, IdleOp
<1>14. ASSUME NEW c \in Clients, NEW a \in Automations, StartUpdate(c, a)
       PROVE  SameSchedules /\ Place /\ Handlers
  <2> DEFINE x == [Idle EXCEPT !.op = "update", !.auto = a, !.seen = autos[a]]
  <2>1. client' = [client EXCEPT ![c] = x] /\ UNCHANGED <<autos, due, cur, pc>>
    BY <1>14 DEF StartUpdate, Suspend
  <2>2. x.seen = autos[a]
    BY DEF Idle
  <2> HIDE DEF x
  <2>3. QED
    BY <1>2, <1>11, <2>1, <2>2
<1>15. ASSUME NEW c \in Clients, NEW a \in Automations, NEW k \in Keys, StartRun(c, a, k)
       PROVE  SameSchedules /\ Place /\ Handlers
  <2> DEFINE x == [Idle EXCEPT !.op = "run", !.auto = a, !.key = k, !.seen = autos[a]]
  <2>1. client' = [client EXCEPT ![c] = x] /\ UNCHANGED <<autos, due, cur, pc>>
    BY <1>15 DEF StartRun, Suspend
  <2>2. x.op = "run"
    BY DEF Idle
  <2> HIDE DEF x
  <2>3. QED
    BY <1>2, <1>11, <2>1, <2>2
<1>16. ASSUME NEW c \in Clients, NEW r \in Runs, StartRetry(c, r)
       PROVE  SameSchedules /\ Place /\ Handlers
  <2> DEFINE x == [Idle EXCEPT !.op = "retry", !.run = r,
                               !.attempt = attempt[r], !.results = results[r]]
  <2>1. client' = [client EXCEPT ![c] = x] /\ UNCHANGED <<autos, due, cur, pc>>
    BY <1>16 DEF StartRetry, Suspend
  <2>2. x.op = "retry"
    BY DEF Idle
  <2> HIDE DEF x
  <2>3. QED
    BY <1>2, <1>11, <2>1, <2>2
<1>17. CASE Tick
  BY <1>1, <1>4, <1>17 DEF Tick
<1>18. CASE Api
  <2>1. (\E a \in Automations : CreateAutomation(a)) \/ (SameSchedules /\ Place /\ Handlers)
    BY <1>10, <1>12, <1>13, <1>14, <1>15, <1>16, <1>18 DEF Api
  <2>2. QED
    BY <1>1, <2>1 DEF Handlers
<1>19. QED
  BY <1>5, <1>6, <1>7, <1>8, <1>9, <1>17, <1>18 DEF Next, Environment

LEMMA ScheduleStep ==
  ASSUME EditsLeaveSchedules
  PROVE  TypeOK /\ ScheduleInv /\ [Next]_vars => ScheduleInv'
<1> SUFFICES ASSUME TypeOK, ScheduleInv, [Next]_vars PROVE ScheduleInv'
  OBVIOUS
<1>1. CASE /\ SameSchedules /\ due' \subseteq due
           /\ pc' = "advance" => pc = "advance" /\ cur' = cur /\ due' = due
           /\ \A c \in Clients : client'[c].op = "update" =>
                \/ client'[c] = client[c]
                \/ \E a \in Automations : client'[c].seen = autos[a]
           /\ SameRows \/ \E c \in Clients : FinishRun(c)
  <2>1. \A a \in Automations, t \in Nat, r \in Runs :
          status'[r] # "none" /\ info'[r].key = ScheduleKey(a, t) =>
            status[r] # "none" /\ info[r].key = ScheduleKey(a, t)
    BY <1>1, LedgerStays
  <2>2. QED
    BY <1>1, <2>1, ScheduleKept
<1>2. QED
  BY <1>1, OtherKept, AdvanceInv, EnqueueInv, StartInv, CreateInv

(* What Schedule maps to its variables, named. *)
LEMMA MappedInit == Init => Schedule!Init
<1> SUFFICES ASSUME Init PROVE Schedule!Init
  OBVIOUS
<1>1. \A a \in Automations : autos[a].next = -1 /\ autos[a].interval = 0
  BY DEF Init, NoRow
<1>2. Cursor = [a \in Automations |-> -1]
  BY <1>1 DEF Cursor, Moved
<1>3. Steps = [a \in Automations |-> 0]
  BY <1>1 DEF Steps
<1>4. Fired = {}
  BY DEF Init, Fired
<1>5. QED
  BY <1>2, <1>3, <1>4 DEF Schedule!Init, Schedule!Never, Cursor, Steps, Fired

LEMMA MappedFire ==
  ASSUME NEW a \in Automations, Cursor[a] # -1,
         Fired' = Fired \cup {<<a, Cursor[a]>>},
         Cursor' = [Cursor EXCEPT ![a] = @ + Steps[a]], Steps' = Steps
  PROVE  Schedule!Next
BY DEF Schedule!Next, Schedule!Fire, Schedule!Never, Cursor, Steps, Fired

LEMMA MappedBegin ==
  ASSUME NEW a \in Automations, Cursor[a] = -1,
         Cursor'[a] \in {-1} \cup Nat, Steps'[a] \in Nat,
         Cursor' = [Cursor EXCEPT ![a] = Cursor'[a]],
         Steps' = [Steps EXCEPT ![a] = Steps'[a]], Fired' = Fired
  PROVE  Schedule!Next
BY DEF Schedule!Next, Schedule!Begin, Schedule!Never, Cursor, Steps, Fired

LEMMA MappedStutter ==
  ASSUME Cursor' = Cursor, Steps' = Steps, Fired' = Fired
  PROVE  UNCHANGED Schedule!vars
BY DEF Schedule!vars, Cursor, Steps, Fired

(* The abstract cursor follows the row and the run of its occurrence. *)
LEMMA CursorAt ==
  ASSUME TypeOK, NEW a \in Automations
  PROVE  /\ Cursor[a] = autos[a].next + (IF Moved(a) THEN autos[a].interval ELSE 0)
         /\ Steps[a] = autos[a].interval
         /\ autos[a].next \in {-1} \cup Nat /\ autos[a].interval \in Nat
BY DEF Cursor, Steps, TypeOK, AutoRow

(* An automation whose row stays and of whose occurrence a run neither      *)
(* appears nor goes keeps its cursor.                                       *)
LEMMA CursorStays ==
  ASSUME TypeOK, NEW a \in Automations,
         autos'[a].next = autos[a].next, autos'[a].interval = autos[a].interval,
         \A t \in Nat : t = autos[a].next =>
           (KeyInUse(ScheduleKey(a, t))' <=> KeyInUse(ScheduleKey(a, t)))
  PROVE  Cursor'[a] = Cursor[a] /\ Steps'[a] = Steps[a]
<1>1. autos[a].next \in {-1} \cup Nat
  BY DEF TypeOK, AutoRow
<1>2. CASE autos[a].next = -1
  BY <1>2 DEF Cursor, Steps, Moved
<1>3. CASE autos[a].next \in Nat
  <2> DEFINE t == autos[a].next
  <2>1. (\E r \in Runs : status'[r] # "none" /\ info'[r].key = <<a, t>>)
          <=> (\E r \in Runs : status[r] # "none" /\ info[r].key = <<a, t>>)
    BY <1>3 DEF KeyInUse
  <2>2. Moved(a)' <=> Moved(a)
    BY <2>1 DEF Moved, KeyInUse
  <2>3. QED
    BY <2>2 DEF Cursor, Steps
<1>4. QED
  BY <1>1, <1>2, <1>3

LEMMA MappedSame ==
  ASSUME TypeOK,
         \A a \in Automations : Cursor'[a] = Cursor[a] /\ Steps'[a] = Steps[a],
         Fired' = Fired
  PROVE  UNCHANGED Schedule!vars
<1>1. Cursor' = Cursor /\ Steps' = Steps
  BY DEF Cursor, Steps
<1>2. QED
  BY <1>1, MappedStutter

(* Entering the run of a due row is the step of the abstract schedule.      *)
LEMMA MappedEnqueue ==
  TypeOK /\ ScheduleInv /\ EnqueueOccurrence => [Schedule!Next]_(Schedule!vars)
<1> SUFFICES ASSUME TypeOK, ScheduleInv, EnqueueOccurrence
             PROVE  Schedule!Next \/ UNCHANGED Schedule!vars
  OBVIOUS
<1>1. PICK d \in due :
        IF KeyInUse(ScheduleKey(d.auto, d.at))
        THEN UNCHANGED <<info, status>>
        ELSE \E r \in Runs : /\ IsNextRow(r)
                             /\ InsertRun(r, d.auto, ScheduleKey(d.auto, d.at),
                                          MaxAttempts(d.retryLimit))
  BY DEF EnqueueOccurrence
<1> DEFINE a == d.auto
<1>2. autos' = autos
  BY DEF EnqueueOccurrence, autoVars
<1>3. a \in Automations /\ d.at \in Nat /\ autos[a].next = d.at
  BY DEF ScheduleInv, TypeOK, Due
<1>4. /\ KeyInUse(ScheduleKey(a, d.at)) => SameRows
      /\ Fired' = Fired \cup {ScheduleKey(a, d.at)}
      /\ \A b \in Automations, t \in Nat :
           KeyInUse(ScheduleKey(b, t))' <=>
             KeyInUse(ScheduleKey(b, t)) \/ (b = a /\ t = d.at)
  BY <1>1, LedgerGrows
<1> HIDE DEF a
<1>5. CASE KeyInUse(ScheduleKey(a, d.at))
  <2>1. Fired' = Fired /\ \A b \in Automations, t \in Nat :
                            KeyInUse(ScheduleKey(b, t))' <=> KeyInUse(ScheduleKey(b, t))
    BY <1>4, <1>5, LedgerStays
  <2>2. \A b \in Automations : Cursor'[b] = Cursor[b] /\ Steps'[b] = Steps[b]
    BY <1>2, <2>1, CursorStays
  <2>3. QED
    BY <2>1, <2>2, MappedSame
<1>6. CASE ~KeyInUse(ScheduleKey(a, d.at))
  <2>1. \A b \in Automations \ {a} : Cursor'[b] = Cursor[b] /\ Steps'[b] = Steps[b]
    BY <1>2, <1>4, CursorStays
  <2>2. ~Moved(a)
    BY <1>3, <1>6 DEF Moved
  <2>3. Cursor[a] = d.at /\ Steps[a] = autos[a].interval
    BY <1>3, <2>2, CursorAt
  <2>4. KeyInUse(ScheduleKey(a, d.at))'
    BY <1>3, <1>4
  <2>5. Cursor'[a] = d.at + autos[a].interval /\ Steps'[a] = autos[a].interval
    <3>1. Moved(a)'
      BY <1>2, <1>3, <2>4 DEF Moved, KeyInUse
    <3>2. QED
      BY <1>2, <1>3, <3>1 DEF Cursor, Steps
  <2>6. Cursor' = [Cursor EXCEPT ![a] = @ + Steps[a]]
    BY <1>3, <2>1, <2>3, <2>5 DEF Cursor
  <2>7. Steps' = Steps
    BY <1>2 DEF Steps
  <2>8. Cursor[a] # -1 /\ Fired' = Fired \cup {<<a, Cursor[a]>>}
    BY <1>3, <1>4, <2>3
  <2>9. QED
    BY <1>3, <2>6, <2>7, <2>8, MappedFire
<1>7. QED
  BY <1>5, <1>6

(* Moving the row on is none: the abstract cursor stands there already.     *)
LEMMA MappedAdvance ==
  TypeOK /\ ScheduleInv /\ NoOccurrenceSkipped /\ AdvanceSchedule => UNCHANGED Schedule!vars
<1> SUFFICES ASSUME TypeOK, ScheduleInv, NoOccurrenceSkipped, AdvanceSchedule
             PROVE  UNCHANGED Schedule!vars
  OBVIOUS
<1>1. PICK a \in Automations :
        /\ a = cur.auto /\ cur.at \in Nat /\ cur.interval \in Nat
        /\ autos[a].next = cur.at /\ autos[a].interval = cur.interval
        /\ KeyInUse(ScheduleKey(a, cur.at))
  BY DEF AdvanceSchedule, ScheduleInv, NoOccurrenceSkipped, TypeOK, Due
<1>2. SameRows
  BY DEF AdvanceSchedule, SameRows, runVars
<1>3. Fired' = Fired /\ \A b \in Automations, t \in Nat :
                          KeyInUse(ScheduleKey(b, t))' <=> KeyInUse(ScheduleKey(b, t))
  BY <1>2, LedgerStays
<1>4. CASE CanSchedule(cur.interval)
  <2>1. autos' = [autos EXCEPT ![a].next = cur.at + cur.interval]
    BY <1>1, <1>4 DEF AdvanceSchedule, NextRun
  <2>2. /\ autos'[a].next = cur.at + cur.interval /\ autos'[a].interval = cur.interval
        /\ \A b \in Automations \ {a} : autos'[b] = autos[b]
    BY <1>1, <2>1 DEF TypeOK, AutoRow
  <2>3. \A b \in Automations \ {a} : Cursor'[b] = Cursor[b] /\ Steps'[b] = Steps[b]
    BY <1>3, <2>2, CursorStays
  <2>4. Cursor[a] = cur.at + cur.interval /\ Steps[a] = cur.interval
    BY <1>1, CursorAt DEF Moved
  <2>5. cur.at + cur.interval \in Nat /\ ~(cur.at + cur.interval <= cur.at)
    BY <1>1, <1>4 DEF CanSchedule
  <2>6. ~KeyInUse(ScheduleKey(a, cur.at + cur.interval))
    BY <1>1, <2>5 DEF ScheduleInv, KeyInUse
  <2>7. ~Moved(a)'
    <3> DEFINE t == cur.at + cur.interval
    <3>1. \A r \in Runs : ~(status'[r] # "none" /\ info'[r].key = <<a, t>>)
      BY <1>2, <2>6 DEF KeyInUse, SameRows
    <3>2. autos'[a].next = t
      BY <2>2
    <3> HIDE DEF t
    <3>3. QED
      BY <3>1, <3>2 DEF Moved, KeyInUse
  <2>8. Cursor'[a] = cur.at + cur.interval /\ Steps'[a] = cur.interval
    <3>1. Cursor'[a] = autos'[a].next + 0 /\ Steps'[a] = autos'[a].interval
      BY <1>1, <2>7 DEF Cursor, Steps
    <3>2. QED
      BY <2>2, <2>5, <3>1
  <2>9. QED
    BY <1>3, <2>3, <2>4, <2>8, MappedSame
<1>5. CASE ~CanSchedule(cur.interval)
  <2>1. autos' = autos
    BY <1>5 DEF AdvanceSchedule
  <2>2. \A b \in Automations : Cursor'[b] = Cursor[b] /\ Steps'[b] = Steps[b]
    BY <1>3, <2>1, CursorStays
  <2>3. QED
    BY <1>3, <2>2, MappedSame
<1>6. QED
  BY <1>4, <1>5

(* A new automation gets its first occurrence, or none. *)
LEMMA MappedCreate ==
  ASSUME TypeOK, ScheduleInv, TypeOK', NEW a \in Automations, CreateAutomation(a)
  PROVE  Schedule!Next
<1>1. autos[a].next = -1 /\ SameRows
  BY DEF CreateAutomation, ScheduleInv, SameRows, runVars
<1>2. \A b \in Automations \ {a} : autos'[b] = autos[b]
  BY DEF CreateAutomation, TypeOK
<1>3. Fired' = Fired /\ \A b \in Automations, t \in Nat :
                          KeyInUse(ScheduleKey(b, t))' <=> KeyInUse(ScheduleKey(b, t))
  BY <1>1, LedgerStays
<1>4. \A b \in Automations \ {a} : Cursor'[b] = Cursor[b] /\ Steps'[b] = Steps[b]
  BY <1>2, <1>3, CursorStays
<1>5. Cursor[a] = -1
  BY <1>1 DEF Cursor, Moved
<1>6. Cursor'[a] \in {-1} \cup Nat /\ Steps'[a] \in Nat
  <2>1. autos'[a].next \in {-1} \cup Nat /\ autos'[a].interval \in Nat
    BY DEF TypeOK, AutoRow
  <2>2. Moved(a)' => autos'[a].next \in Nat
    BY <2>1 DEF Moved
  <2>3. QED
    BY <2>1, <2>2 DEF Cursor, Steps
<1>7. Cursor' = [Cursor EXCEPT ![a] = Cursor'[a]]
  BY <1>4 DEF Cursor
<1>8. Steps' = [Steps EXCEPT ![a] = Steps'[a]]
  BY <1>4 DEF Steps
<1>9. QED
  BY <1>3, <1>5, <1>6, <1>7, <1>8, MappedBegin

LEMMA MappedStep ==
  ASSUME EditsLeaveSchedules
  PROVE  TypeOK /\ TypeOK' /\ ScheduleInv /\ NoOccurrenceSkipped /\ [Next]_vars
           => [Schedule!Next]_(Schedule!vars)
<1> SUFFICES ASSUME TypeOK, TypeOK', ScheduleInv, NoOccurrenceSkipped, [Next]_vars
             PROVE  [Schedule!Next]_(Schedule!vars)
  OBVIOUS
<1>1. CASE SameSchedules /\ (SameRows \/ \E c \in Clients : FinishRun(c))
  <2>1. Fired' = Fired /\ \A b \in Automations, t \in Nat :
                            KeyInUse(ScheduleKey(b, t))' <=> KeyInUse(ScheduleKey(b, t))
    BY <1>1, LedgerStays
  <2>2. \A b \in Automations : Cursor'[b] = Cursor[b] /\ Steps'[b] = Steps[b]
    BY <1>1, <2>1, CursorStays DEF SameSchedules
  <2>3. QED
    BY <2>1, <2>2, MappedSame
<1>2. CASE StartTick
  BY <1>1, <1>2 DEF StartTick, SameSchedules, SameRows, autoVars, runVars
<1>3. QED
  BY <1>1, <1>2, OtherKept, MappedEnqueue, MappedAdvance, MappedCreate

(* The two writes of the scheduler, with crashes, faults and requests in    *)
(* between, are the one step of OccurrenceSchedule, for all automations     *)
(* whose schedules nobody edits.                                            *)
THEOREM ScheduleImplemented ==
  ASSUME EditsLeaveSchedules
  PROVE  Spec => ImplementsSchedule
<1>1. Init => ScheduleInv
  <2>1. Init => \A c \in Clients : client[c].op = "idle"
    BY IdleOp DEF Init
  <2>2. QED
    BY <2>1 DEF Init, ScheduleInv, NoRow, DatedIfOn
<1>2. Init => NoOccurrenceSkipped
  BY DEF Init, NoOccurrenceSkipped
<1>3. QED
  BY <1>1, <1>2, ScheduleStep, MappedInit, MappedStep, OccurrenceStep, TypeCorrect, PTL
     DEF Spec, ImplementsSchedule, Schedule!Spec

(* The abstract schedule, with what is proved of it. *)
Abstract == INSTANCE OccurrenceScheduleProofs WITH
  cursor <- Cursor, step <- Steps, fired <- Fired

(* The runs of such an automation cover its occurrences without a gap: of   *)
(* any run but the earliest the occurrence before has its run too.          *)
RunsWithoutGap ==
  \A x, y \in Fired : y[1] = x[1] /\ x[2] < y[2] =>
    <<y[1], y[2] - autos[y[1]].interval>> \in Fired

(* The code inherits it from the schedule it implements. *)
THEOREM OccurrencesConsecutive ==
  ASSUME EditsLeaveSchedules
  PROVE  Spec => []RunsWithoutGap
<1>1. Abstract!Spec => [](Abstract!TypeOK /\ Abstract!NoGap)
  BY Abstract!ScheduleHasNoGap
<1>2. Schedule!Init => Abstract!Init
  BY DEF Schedule!Init, Abstract!Init, Schedule!Never, Abstract!Never, Cursor, Steps, Fired
<1>3. [Schedule!Next]_(Schedule!vars) => [Abstract!Next]_(Abstract!vars)
  BY DEF Schedule!Next, Abstract!Next, Schedule!vars, Abstract!vars, Schedule!Fire,
         Abstract!Fire, Schedule!Begin, Abstract!Begin, Schedule!Never, Abstract!Never,
         Cursor, Steps, Fired
<1>4. Abstract!TypeOK /\ Abstract!NoGap => RunsWithoutGap
  BY DEF Abstract!TypeOK, Abstract!NoGap, RunsWithoutGap, Steps
<1>5. QED
  BY <1>1, <1>2, <1>3, <1>4, ScheduleImplemented, PTL
     DEF ImplementsSchedule, Schedule!Spec, Abstract!Spec

=============================================================================
