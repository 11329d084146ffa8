--------------------------- MODULE AutomationProofs ---------------------------
(***************************************************************************)
(* Theorems about module Automation, for every number of automations,      *)
(* runs, clients, requests, crashes and failing statements.                *)
(***************************************************************************)
EXTENDS Automation, TLAPS

USE DEF Never, Keep, NoRun, NoAuto, NoKey, ScheduleKey

(* A request body or a patch turns a well-formed row into a well-formed one. *)
LEMMA PatchedRowType ==
  ASSUME NEW p \in Edits, NEW seen \in AutoRow, NEW row \in AutoRow, now \in Nat
  PROVE  WriteChanges(row, PatchedRow(p, seen), seen) \in AutoRow
<1>1. p \in Patch
  BY ConstantsAssumption
<1>2. /\ p.next \in {Keep} \cup Nat /\ p.interval \in {Keep} \cup Nat
      /\ p.retryLimit \in {Keep} \cup (0..10) /\ p.actions \in {Keep} \cup Nat
  BY <1>1 DEF Patch
<1>3. /\ seen.state \in {"absent", "live", "deleted"} /\ seen.active \in BOOLEAN
      /\ seen.next \in {Never} \cup Nat /\ seen.interval \in Nat
      /\ seen.retryLimit \in 0..10 /\ seen.actions \in Nat
      /\ row.state \in {"absent", "live", "deleted"} /\ row.active \in BOOLEAN
      /\ row.next \in {Never} \cup Nat /\ row.interval \in Nat
      /\ row.retryLimit \in 0..10 /\ row.actions \in Nat
  BY DEF AutoRow
<1> DEFINE new == PatchedRow(p, seen)
<1>4. new.active \in BOOLEAN
  BY <1>3 DEF PatchedRow, PatchedActive
<1>5. new.interval \in Nat /\ new.retryLimit \in 0..10 /\ new.actions \in Nat
  BY <1>2, <1>3 DEF PatchedRow, Patched
<1>6. new.next \in {Never} \cup Nat
  <2>1. now + Patched(p.interval, seen.interval) \in Nat
    BY <1>2, <1>3 DEF Patched
  <2>2. new.next \in {p.next, Never, now + Patched(p.interval, seen.interval), seen.next}
    BY DEF PatchedRow, NextRun
  <2>3. p.next # Keep \/ new.next # p.next \/ new.next \in {Never, now + Patched(p.interval, seen.interval), seen.next}
    BY DEF PatchedRow, NextRun
  <2>4. QED
    BY <1>2, <1>3, <2>1, <2>2, <2>3
<1> HIDE DEF new
<1>7. QED
  BY <1>3, <1>4, <1>5, <1>6 DEF WriteChanges, Column, AutoRow, new

(* The values that stand for nothing have the types of their tables. *)
LEMMA NullTypes == /\ NoRow \in AutoRow /\ NoInfo \in RunInfo
                   /\ NoResults \in Results /\ NoJob \in Job /\ Idle \in Suspended
<1>1. NoRow \in AutoRow
  BY DEF NoRow, AutoRow
<1>2. NoInfo \in RunInfo
  BY DEF NoInfo, RunInfo
<1>3. NoResults \in Results
  BY DEF NoResults, Results
<1>4. NoJob \in Job
  BY DEF NoJob, Job
<1>5. Idle \in Suspended
  BY <1>1, <1>3 DEF Idle, Suspended
<1>6. QED
  BY <1>1, <1>2, <1>3, <1>4, <1>5

LEMMA MaxAttemptsType == \A limit \in 0..10 : MaxAttempts(limit) \in Nat \ {0}
BY DEF MaxAttempts

(* What a handler keeps at its first await. *)
LEMMA UpdateSuspended ==
  ASSUME NEW a \in Automations, NEW row \in AutoRow
  PROVE  [Idle EXCEPT !.op = "update", !.auto = a, !.seen = row] \in Suspended
BY NullTypes DEF Idle, Suspended

LEMMA RunSuspended ==
  ASSUME NEW a \in Automations, NEW k \in Keys, NEW row \in AutoRow
  PROVE  [Idle EXCEPT !.op = "run", !.auto = a, !.key = k, !.seen = row] \in Suspended
BY NullTypes DEF Idle, Suspended

LEMMA RetrySuspended ==
  ASSUME NEW r \in Runs, NEW n \in Nat, NEW x \in Results
  PROVE  [Idle EXCEPT !.op = "retry", !.run = r, !.attempt = n, !.results = x] \in Suspended
BY NullTypes DEF Idle, Suspended

LEMMA InitType == Init => TypeOK
<1> SUFFICES ASSUME Init PROVE TypeOK
  OBVIOUS
<1>1. client \in [Clients -> Suspended] /\ \A c \in Clients : client[c].op = "idle"
  BY NullTypes DEF Init, Idle
<1>2. /\ autos \in [Automations -> AutoRow] /\ info \in [Runs -> RunInfo]
      /\ status \in [Runs -> States] /\ attempt \in [Runs -> Nat]
      /\ waiting \in [Runs -> BOOLEAN] /\ results \in [Runs -> Results]
      /\ claims \in [Runs -> Nat]
  BY NullTypes DEF Init, States
<1>3. \A r \in Runs : status[r] = "none"
  BY DEF Init
<1>4. pc = "down" /\ cur = NoDue /\ job \in Job /\ worked = 0 /\ reset = {} /\ due = {}
      /\ inflight = {} /\ resources = {} /\ audits = {} /\ now = 0 /\ requests = 0
      /\ crashes = 0 /\ faults = 0
  BY NullTypes DEF Init
<1>5. QED
  BY <1>1, <1>2, <1>3, <1>4 DEF TypeOK, Places, Working

(* The steps of the scheduler keep the types. *)
LEMMA TickType == TypeOK /\ Tick => TypeOK'
<1> SUFFICES ASSUME TypeOK, Tick PROVE TypeOK'
  OBVIOUS
<1> USE DEF TypeOK, Places, Working, autoVars, runVars, effectVars, workVars, boundVars, histVars
<1>1. CASE StartTick
  BY <1>1 DEF StartTick, DueRows, IsDue, Due, AutoRow
<1>2. CASE EnqueueOccurrence
  <2>1. PICK d \in due : cur' = d
                         /\ \/ UNCHANGED <<info, status>>
                            \/ \E r \in Runs : InsertRun(r, d.auto, ScheduleKey(d.auto, d.at),
                                                         MaxAttempts(d.retryLimit))
    BY <1>2 DEF EnqueueOccurrence
  <2>2. d \in Due /\ d.auto \in Automations /\ d.at \in Nat /\ d.retryLimit \in 0..10
    BY <2>1 DEF Due
  <2>3. [auto |-> d.auto, key |-> ScheduleKey(d.auto, d.at), max |-> MaxAttempts(d.retryLimit)]
          \in RunInfo
    BY <2>2, MaxAttemptsType DEF RunInfo, AllKeys
  <2>4. pc' = "advance" /\ cur' \in Due
    BY <1>2, <2>1, <2>2 DEF EnqueueOccurrence
  <2>5. CASE UNCHANGED <<info, status>>
    BY <1>2, <2>4, <2>5 DEF EnqueueOccurrence
  <2>6. ASSUME NEW r \in Runs, InsertRun(r, d.auto, ScheduleKey(d.auto, d.at),
                                         MaxAttempts(d.retryLimit))
        PROVE  TypeOK'
    <3>1. info' \in [Runs -> RunInfo] /\ status' \in [Runs -> States]
      BY <2>3, <2>6 DEF InsertRun, States
    <3>2. \A q \in Runs : /\ status[q] # "none" => status'[q] # "none"
                          /\ status'[q] # "none" => info'[q].auto \in Automations
      BY <2>2, <2>6 DEF InsertRun
    <3>3. QED
      BY <1>2, <2>4, <3>1, <3>2 DEF EnqueueOccurrence
  <2>7. QED
    BY <2>1, <2>5, <2>6
<1>3. CASE AdvanceSchedule
  <2>1. cur \in Due /\ cur.auto \in Automations /\ cur.at \in Nat /\ cur.interval \in Nat
    BY <1>3 DEF AdvanceSchedule, Due
  <2>2. cur.at + cur.interval \in Nat
    BY <2>1
  <2>3. [autos EXCEPT ![cur.auto].next = cur.at + cur.interval] \in [Automations -> AutoRow]
    BY <2>1, <2>2 DEF AutoRow
  <2>4. autos' \in [Automations -> AutoRow] /\ due' \subseteq Due
    BY <1>3, <2>3 DEF AdvanceSchedule, NextRun
  <2>5. QED
    BY <1>3, <2>4 DEF AdvanceSchedule
<1>4. CASE EndTick
  BY <1>4 DEF EndTick, Job, NoJob
<1>5. QED
  BY <1>1, <1>2, <1>3, <1>4 DEF Tick

(* .. and so do those of the worker. *)
LEMMA WorkType == TypeOK /\ Work => TypeOK'
<1> SUFFICES ASSUME TypeOK, Work PROVE TypeOK'
  OBVIOUS
<1> USE DEF TypeOK, Places, Working, autoVars, runVars, effectVars, workVars, boundVars, histVars
<1>1. CASE PickRun
  BY <1>1 DEF PickRun, Available, Job
<1>2. CASE ClaimRun
  BY <1>2 DEF ClaimRun, States, Job
<1>3. CASE LoadRun
  <2> DEFINE e == [run |-> job.run, claim |-> claims[job.run], done |-> 0,
                   total |-> autos[info[job.run].auto].actions]
  <2>1. job.run \in Runs /\ attempt[job.run] \in Nat /\ claims[job.run] \in Nat
    BY <1>3 DEF LoadRun
  <2>2. job' \in Job /\ job'.run \in Runs
    BY <1>3, <2>1 DEF LoadRun, Job
  <2>3. autos[info[job.run].auto].actions \in Nat
    BY <1>3, <2>1 DEF LoadRun, AutoRow
  <2>4. e \in Execution
    BY <2>1, <2>3 DEF Execution
  <2>5. inflight' \subseteq Execution
    BY <1>3, <2>4 DEF LoadRun
  <2>6. QED
    BY <1>3, <2>2, <2>5 DEF LoadRun
<1>4. CASE FailMissing
  BY <1>4 DEF FailMissing, States
<1>5. CASE TimeOut
  BY <1>5 DEF TimeOut, Awaited
<1>6. CASE CompleteRun
  <2>1. PICK e \in inflight :
          /\ results' = [results EXCEPT ![e.run] = [claim |-> e.claim, count |-> e.total]]
          /\ inflight' = inflight \ {e}
    BY <1>6 DEF CompleteRun
  <2>2. e.run \in Runs /\ [claim |-> e.claim, count |-> e.total] \in Results
    BY <2>1 DEF Execution, Results
  <2>3. results' \in [Runs -> Results] /\ inflight' \subseteq Execution
    BY <2>1, <2>2
  <2>4. job.run \in Runs /\ status' = [status EXCEPT ![job.run] = "completed"]
    BY <1>6 DEF CompleteRun, Awaited
  <2>5. status' \in [Runs -> States] /\ \A r \in Runs : status[r] # "none" => status'[r] # "none"
    BY <2>4 DEF States
  <2>6. status'[job.run] # "none"
    BY <2>4
  <2>7. \A r \in Runs : status'[r] # "none" => info[r].auto \in Automations
    BY <1>6, <2>4 DEF CompleteRun, Awaited
  <2>8. QED
    BY <1>6, <2>3, <2>4, <2>5, <2>6, <2>7 DEF CompleteRun
<1>7. CASE AuditCompleted
  BY <1>7 DEF AuditCompleted
<1>8. CASE SettleFailure
  <2>1. job.run \in Runs /\ status[job.run] # "none"
    BY <1>8 DEF SettleFailure
  <2>2. /\ status' \in [Runs -> States] /\ waiting' \in [Runs -> BOOLEAN]
        /\ \A r \in Runs : status[r] # "none" <=> status'[r] # "none"
    BY <1>8, <2>1 DEF SettleFailure, States
  <2>3. QED
    BY <1>8, <2>1, <2>2 DEF SettleFailure
<1>9. CASE AuditFailed
  BY <1>9 DEF AuditFailed
<1>10. QED
  BY <1>1, <1>2, <1>3, <1>4, <1>5, <1>6, <1>7, <1>8, <1>9 DEF Work

LEMMA ExecuteType == TypeOK /\ Execute => TypeOK'
<1> SUFFICES ASSUME TypeOK, NEW e \in inflight, PerformAction(e) \/ ActionFails(e)
             PROVE  TypeOK'
  BY DEF Execute
<1> USE DEF TypeOK, Places, Working, autoVars, runVars, effectVars, workVars, boundVars, histVars
<1>1. CASE PerformAction(e)
  BY <1>1 DEF PerformAction, Execution
<1>2. CASE ActionFails(e)
  BY <1>2 DEF ActionFails, Awaited
<1>3. QED
  BY <1>1, <1>2

LEMMA ApiType == TypeOK /\ Api => TypeOK'
<1> SUFFICES ASSUME TypeOK, Api PROVE TypeOK'
  OBVIOUS
<1> USE DEF TypeOK, Places, Working, autoVars, runVars, effectVars, workVars, boundVars, histVars
<1>1. ASSUME NEW a \in Automations, CreateAutomation(a) PROVE TypeOK'
  <2>1. PICK b \in NewAutomations :
          autos' = [autos EXCEPT ![a] =
            [state |-> "live", active |-> b.active,
             next |-> IF b.next # Never THEN b.next
                      ELSE IF b.active THEN NextRun(b.interval, now) ELSE Never,
             interval |-> b.interval, retryLimit |-> b.retryLimit,
             actions |-> b.actions]]
    BY <1>1 DEF CreateAutomation
  <2>2. /\ b.active \in BOOLEAN /\ b.next \in {Never} \cup Nat /\ b.interval \in Nat
        /\ b.retryLimit \in 0..10 /\ b.actions \in Nat
    BY ConstantsAssumption DEF Body
  <2>3. now + b.interval \in Nat
    BY <2>2
  <2>4. autos' \in [Automations -> AutoRow]
    BY <2>1, <2>2, <2>3 DEF AutoRow, NextRun
  <2>5. QED
    BY <1>1, <2>4 DEF CreateAutomation
<1>2. ASSUME NEW a \in Automations, RemoveAutomation(a) PROVE TypeOK'
  BY <1>2 DEF RemoveAutomation, AutoRow
<1>3. ASSUME NEW c \in Clients, FinishUpdate(c) PROVE TypeOK'
  <2>1. client[c] \in Suspended /\ client[c].seen \in AutoRow
    BY <1>3 DEF Suspended
  <2>2. UNCHANGED autos => autos' \in [Automations -> AutoRow]
    OBVIOUS
  <2>4. ASSUME NEW p \in Edits,
               autos' = [autos EXCEPT ![client[c].auto] =
                           WriteChanges(@, PatchedRow(p, client[c].seen), client[c].seen)]
        PROVE  autos' \in [Automations -> AutoRow]
    <3> DEFINE new(row) == WriteChanges(row, PatchedRow(p, client[c].seen), client[c].seen)
    <3>1. \A row \in AutoRow : new(row) \in AutoRow
      BY <2>1, PatchedRowType
    <3>2. autos' = [autos EXCEPT ![client[c].auto] = new(autos[client[c].auto])]
      BY <2>4
    <3> HIDE DEF new
    <3>3. QED
      BY <3>1, <3>2
  <2>7. autos' \in [Automations -> AutoRow]
    BY <1>3, <2>2, <2>4 DEF FinishUpdate
  <2>3. client' \in [Clients -> Suspended] /\ Idle.op = "idle"
    BY <1>3, NullTypes DEF FinishUpdate, Idle
  <2>8. QED
    BY <1>3, <2>7, <2>3 DEF FinishUpdate
<1>4. ASSUME NEW c \in Clients, FinishRun(c) PROVE TypeOK'
  <2> DEFINE row == [auto |-> client[c].auto, key |-> client[c].key,
                     max |-> MaxAttempts(client[c].seen.retryLimit)]
  <2>1. /\ client[c].auto \in Automations /\ client[c].key \in Keys \cup {NoKey}
        /\ client[c].seen.retryLimit \in 0..10
    BY <1>4 DEF FinishRun, Suspended, AutoRow
  <2>2. row \in RunInfo
    BY <2>1, MaxAttemptsType DEF RunInfo, AllKeys
  <2>4. client' \in [Clients -> Suspended] /\ client' = [client EXCEPT ![c] = Idle] /\ Idle.op = "idle"
    BY <1>4, NullTypes DEF FinishRun, Idle
  <2>3. CASE KeyInUse(client[c].key)
    <3>1. UNCHANGED <<info, status>>
      BY <1>4, <2>3 DEF FinishRun
    <3>2. QED
      BY <1>4, <3>1, <2>4 DEF FinishRun
  <2>5. CASE ~KeyInUse(client[c].key)
    <3>1. PICK r \in Runs : /\ info' = [info EXCEPT ![r] = row]
                            /\ status' = [status EXCEPT ![r] = "queued"]
      BY <1>4, <2>5 DEF FinishRun, InsertRun
    <3>2. info' \in [Runs -> RunInfo] /\ status' \in [Runs -> States]
      BY <2>2, <3>1 DEF States
    <3>3. row.auto \in Automations
      BY <2>1
    <3>4. \A q \in Runs : /\ status[q] # "none" => status'[q] # "none"
                          /\ status'[q] # "none" => info'[q].auto \in Automations
      BY <3>1, <3>3
    <3>5. QED
      BY <1>4, <2>4, <3>2, <3>4 DEF FinishRun
  <2>6. QED
    BY <2>3, <2>5
<1>5. ASSUME NEW c \in Clients, FinishRetry(c) PROVE TypeOK'
  <2>1. client[c].run \in Runs /\ status[client[c].run] # "none"
    BY <1>5 DEF FinishRetry
  <2>2. /\ status' \in [Runs -> States] /\ waiting' \in [Runs -> BOOLEAN]
        /\ attempt' \in [Runs -> Nat] /\ reset' \subseteq Runs
    BY <1>5, <2>1 DEF FinishRetry, States
  <2>3. results' \in [Runs -> Results]
    BY <1>5, <2>1, NullTypes DEF FinishRetry
  <2>4. client' \in [Clients -> Suspended] /\ Idle.op = "idle"
    BY <1>5, NullTypes DEF FinishRetry, Idle
  <2>5. QED
    BY <1>5, <2>1, <2>2, <2>3, <2>4 DEF FinishRetry
<1>6. ASSUME NEW c \in Clients, NEW a \in Automations, StartUpdate(c, a) PROVE TypeOK'
  <2> DEFINE record == [Idle EXCEPT !.op = "update", !.auto = a, !.seen = autos[a]]
  <2>1. record \in Suspended /\ record.op = "update"
    BY UpdateSuspended DEF Idle
  <2>2. client' = [client EXCEPT ![c] = record]
    BY <1>6 DEF StartUpdate, Suspend
  <2> HIDE DEF record
  <2>3. QED
    BY <1>6, <2>1, <2>2 DEF StartUpdate, Suspend
<1>7. ASSUME NEW c \in Clients, NEW a \in Automations, NEW k \in Keys, StartRun(c, a, k)
      PROVE TypeOK'
  <2> DEFINE record == [Idle EXCEPT !.op = "run", !.auto = a, !.key = k, !.seen = autos[a]]
  <2>1. record \in Suspended /\ record.op = "run" /\ record.auto = a /\ record.key = k
    BY RunSuspended DEF Idle
  <2>2. client' = [client EXCEPT ![c] = record]
    BY <1>7 DEF StartRun, Suspend
  <2> HIDE DEF record
  <2>3. QED
    BY <1>7, <2>1, <2>2 DEF StartRun, Suspend
<1>8. ASSUME NEW c \in Clients, NEW r \in Runs, StartRetry(c, r) PROVE TypeOK'
  <2> DEFINE record == [Idle EXCEPT !.op = "retry", !.run = r,
                        !.attempt = attempt[r], !.results = results[r]]
  <2>1. record \in Suspended /\ record.op = "retry" /\ record.run = r
    BY RetrySuspended DEF Idle
  <2>2. client' = [client EXCEPT ![c] = record] /\ status[r] = "failed"
    BY <1>8 DEF StartRetry, Suspend
  <2> HIDE DEF record
  <2>3. QED
    BY <1>8, <2>1, <2>2 DEF StartRetry, Suspend
<1>9. QED
  BY <1>1, <1>2, <1>3, <1>4, <1>5, <1>6, <1>7, <1>8 DEF Api

LEMMA EnvironmentType == TypeOK /\ Environment => TypeOK'
<1> SUFFICES ASSUME TypeOK, Environment PROVE TypeOK'
  OBVIOUS
<1> USE DEF TypeOK, Places, Working, autoVars, runVars, effectVars, workVars, boundVars, histVars
<1>1. ASSUME NEW r \in Runs, BackoffEnds(r) PROVE TypeOK'
  BY <1>1 DEF BackoffEnds
<1>2. CASE DatabaseFault
  BY <1>2 DEF DatabaseFault, Job, NoJob, Awaited
<1>3. CASE TimePasses
  BY <1>3 DEF TimePasses
<1>4. CASE Crash
  <2>1. client' \in [Clients -> Suspended] /\ \A c \in Clients : client'[c].op = "idle"
    BY <1>4, NullTypes DEF Crash, Idle
  <2>2. job' \in Job
    BY <1>4, NullTypes DEF Crash
  <2>3. QED
    BY <1>4, <2>1, <2>2 DEF Crash
<1>5. CASE Recover
  BY <1>5 DEF Recover, Interrupted, States
<1>6. QED
  BY <1>1, <1>2, <1>3, <1>4, <1>5 DEF Environment

LEMMA StutterType == TypeOK /\ UNCHANGED vars => TypeOK'
BY DEF TypeOK, vars

(* Every reachable state is well-typed. *)
THEOREM TypeCorrect == Spec => []TypeOK
<1>1. TypeOK /\ [Next]_vars => TypeOK'
  BY TickType, WorkType, ExecuteType, ApiType, EnvironmentType, StutterType DEF Next
<1>2. QED
  BY InitType, <1>1, PTL DEF Spec

-----------------------------------------------------------------------------
(* The bound on attempts.  A run that is queued has an attempt left; one    *)
(* that is running has used it, which only a crash turns into a new one;    *)
(* and what workOne has read of the run is still true when it writes.       *)
AttemptInv ==
  /\ \A r \in Runs \ reset :
       /\ attempt[r] = claims[r]
       /\ status[r] = "none" => attempt[r] = 0
       /\ attempt[r] <= info[r].max + crashes
       /\ status[r] = "queued" \/ (pc = "down" /\ status[r] = "running")
            => attempt[r] < info[r].max + crashes
  /\ pc \in Working \ {"load"} /\ job.run \notin reset => job.attempt = attempt[job.run]

LEMMA InsertAttempt ==
  ASSUME TypeOK, AttemptInv, NEW r \in Runs, NEW a \in Automations, NEW k,
         NEW max \in Nat \ {0}, status[r] = "none", InsertRun(r, a, k, max),
         UNCHANGED <<attempt, claims, reset, crashes, job>>,
         pc = "down" <=> pc' = "down", pc' \in Working => pc' = pc
  PROVE  AttemptInv'
<1>1. \A q \in Runs : q # r => info'[q] = info[q] /\ status'[q] = status[q]
  BY DEF InsertRun, TypeOK
<1>2. info'[r].max = max /\ status'[r] = "queued"
  BY DEF InsertRun, TypeOK
<1>3. QED
  BY <1>1, <1>2 DEF AttemptInv, TypeOK, Working

LEMMA TickAttempt == TypeOK /\ AttemptInv /\ Tick => AttemptInv'
<1> SUFFICES ASSUME TypeOK, AttemptInv, Tick PROVE AttemptInv'
  OBVIOUS
<1> USE DEF Working, autoVars, runVars, effectVars, workVars, boundVars, histVars
<1>1. CASE StartTick
  BY <1>1 DEF StartTick, AttemptInv
<1>2. CASE EnqueueOccurrence
  <2>1. PICK d \in due : \/ UNCHANGED <<info, status>>
                         \/ \E r \in Runs :
                              /\ IsNextRow(r)
                              /\ InsertRun(r, d.auto, ScheduleKey(d.auto, d.at),
                                           MaxAttempts(d.retryLimit))
    BY <1>2 DEF EnqueueOccurrence
  <2>2. d.auto \in Automations /\ MaxAttempts(d.retryLimit) \in Nat \ {0}
    BY <2>1, MaxAttemptsType DEF TypeOK, Due
  <2>3. CASE UNCHANGED <<info, status>>
    BY <1>2, <2>3 DEF EnqueueOccurrence, AttemptInv
  <2>4. ASSUME NEW r \in Runs, IsNextRow(r),
               InsertRun(r, d.auto, ScheduleKey(d.auto, d.at), MaxAttempts(d.retryLimit))
        PROVE  AttemptInv'
    <3>1. status[r] = "none"
      BY <2>4 DEF IsNextRow
    <3>2. /\ UNCHANGED <<attempt, claims, reset, crashes, job>>
          /\ pc = "enqueue" /\ pc' = "advance"
      BY <1>2 DEF EnqueueOccurrence
    <3>3. QED
      BY <2>2, <2>4, <3>1, <3>2, InsertAttempt
  <2>5. QED
    BY <2>1, <2>3, <2>4
<1>3. CASE AdvanceSchedule
  BY <1>3 DEF AdvanceSchedule, AttemptInv
<1>4. CASE EndTick
  BY <1>4 DEF EndTick, AttemptInv
<1>5. QED
  BY <1>1, <1>2, <1>3, <1>4 DEF Tick

LEMMA WorkAttempt == TypeOK /\ AttemptInv /\ Work => AttemptInv'
<1> SUFFICES ASSUME TypeOK, AttemptInv, Work PROVE AttemptInv'
  OBVIOUS
<1> USE DEF Working, autoVars, runVars, effectVars, workVars, boundVars, histVars
<1>1. CASE PickRun
  BY <1>1 DEF PickRun, AttemptInv
<1>2. CASE ClaimRun
  <2>1. CASE status[job.run] = "queued"
    <3>1. job.run \in Runs /\ job.attempt \in Nat
      BY <1>2 DEF ClaimRun, TypeOK, Job
    <3>2. job.run \notin reset =>
            /\ job.attempt = attempt[job.run] /\ attempt[job.run] = claims[job.run]
            /\ attempt[job.run] < info[job.run].max + crashes
      BY <1>2, <2>1, <3>1 DEF ClaimRun, AttemptInv
    <3>3. /\ attempt' = [attempt EXCEPT ![job.run] = job.attempt + 1]
          /\ claims' = [claims EXCEPT ![job.run] = @ + 1]
          /\ status' = [status EXCEPT ![job.run] = "running"]
          /\ pc' = "load" /\ UNCHANGED <<info, crashes, reset>>
      BY <1>2, <2>1 DEF ClaimRun
    <3>4. info[job.run].max \in Nat /\ crashes \in Nat
      BY <3>1 DEF TypeOK, RunInfo
    <3>5. ASSUME NEW r \in Runs \ reset
          PROVE  /\ attempt'[r] = claims'[r]
                 /\ status'[r] = "none" => attempt'[r] = 0
                 /\ attempt'[r] <= info'[r].max + crashes'
                 /\ status'[r] = "queued" => attempt'[r] < info'[r].max + crashes'
      <4>1. CASE r = job.run
        BY <3>1, <3>2, <3>3, <3>4, <4>1 DEF TypeOK
      <4>2. CASE r # job.run
        BY <3>1, <3>3, <4>2 DEF TypeOK, AttemptInv
      <4>3. QED
        BY <4>1, <4>2
    <3>6. QED
      BY <3>3, <3>5 DEF AttemptInv
  <2>2. CASE status[job.run] # "queued"
    BY <1>2, <2>2 DEF ClaimRun, AttemptInv
  <2>3. QED
    BY <2>1, <2>2
<1>3. CASE LoadRun
  BY <1>3 DEF LoadRun, AttemptInv, TypeOK, Job
<1>4. CASE FailMissing
  BY <1>4 DEF FailMissing, AttemptInv, TypeOK
<1>5. CASE TimeOut
  BY <1>5 DEF TimeOut, Awaited, AttemptInv
<1>6. CASE CompleteRun
  BY <1>6 DEF CompleteRun, Awaited, AttemptInv, TypeOK
<1>7. CASE AuditCompleted
  BY <1>7 DEF AuditCompleted, AttemptInv
<1>8. CASE SettleFailure
  <2>1. job.run \in Runs /\ info[job.run].max \in Nat /\ crashes \in Nat
    BY <1>8 DEF SettleFailure, TypeOK, RunInfo
  <2>2. CASE MayRetry
    BY <1>8, <2>1, <2>2 DEF SettleFailure, MayRetry, AttemptInv, TypeOK, Job
  <2>3. CASE ~MayRetry
    BY <1>8, <2>1, <2>3 DEF SettleFailure, AttemptInv, TypeOK
  <2>4. QED
    BY <2>2, <2>3
<1>9. CASE AuditFailed
  BY <1>9 DEF AuditFailed, AttemptInv
<1>10. QED
  BY <1>1, <1>2, <1>3, <1>4, <1>5, <1>6, <1>7, <1>8, <1>9 DEF Work

LEMMA ApiAttempt == TypeOK /\ AttemptInv /\ Api => AttemptInv'
<1> SUFFICES ASSUME TypeOK, AttemptInv, Api PROVE AttemptInv'
  OBVIOUS
<1> USE DEF Working, autoVars, runVars, effectVars, workVars, boundVars, histVars
<1>1. ASSUME NEW a \in Automations, CreateAutomation(a) \/ RemoveAutomation(a) PROVE AttemptInv'
  BY <1>1 DEF CreateAutomation, RemoveAutomation, AttemptInv
<1>2. ASSUME NEW c \in Clients, FinishUpdate(c) PROVE AttemptInv'
  BY <1>2 DEF FinishUpdate, AttemptInv
<1>3. ASSUME NEW c \in Clients, FinishRun(c) PROVE AttemptInv'
  <2>1. UNCHANGED <<attempt, claims, reset, crashes, job, pc>>
    BY <1>3 DEF FinishRun
  <2>2. client[c].auto \in Automations /\ MaxAttempts(client[c].seen.retryLimit) \in Nat \ {0}
    BY <1>3, MaxAttemptsType DEF FinishRun, TypeOK, Suspended, AutoRow
  <2>3. CASE UNCHANGED <<info, status>>
    BY <2>1, <2>3 DEF AttemptInv
  <2>4. ASSUME NEW r \in Runs, IsNextRow(r),
               InsertRun(r, client[c].auto, client[c].key,
                         MaxAttempts(client[c].seen.retryLimit))
        PROVE  AttemptInv'
    <3>1. status[r] = "none"
      BY <2>4 DEF IsNextRow
    <3>2. QED
      BY <2>1, <2>2, <2>4, <3>1, InsertAttempt
  <2>5. QED
    BY <1>3, <2>3, <2>4 DEF FinishRun
<1>4. ASSUME NEW c \in Clients, FinishRetry(c) PROVE AttemptInv'
  <2>1. client[c].run \in Runs
    BY <1>4 DEF FinishRetry, TypeOK
  <2>2. reset' = reset \cup {client[c].run} /\ UNCHANGED <<info, claims, crashes, job, pc>>
    BY <1>4 DEF FinishRetry
  <2>3. \A r \in Runs \ reset' : status'[r] = status[r] /\ attempt'[r] = attempt[r]
    BY <1>4, <2>1, <2>2 DEF FinishRetry, TypeOK
  <2>4. QED
    BY <2>1, <2>2, <2>3 DEF AttemptInv, TypeOK
<1>5. ASSUME NEW c \in Clients, NEW a \in Automations, StartUpdate(c, a) PROVE AttemptInv'
  BY <1>5 DEF StartUpdate, Suspend, AttemptInv
<1>6. ASSUME NEW c \in Clients, NEW a \in Automations, NEW k \in Keys, StartRun(c, a, k)
      PROVE AttemptInv'
  BY <1>6 DEF StartRun, Suspend, AttemptInv
<1>7. ASSUME NEW c \in Clients, NEW r \in Runs, StartRetry(c, r) PROVE AttemptInv'
  BY <1>7 DEF StartRetry, Suspend, AttemptInv
<1>8. QED
  BY <1>1, <1>2, <1>3, <1>4, <1>5, <1>6, <1>7 DEF Api

LEMMA EnvironmentAttempt == TypeOK /\ AttemptInv /\ Environment => AttemptInv'
<1> SUFFICES ASSUME TypeOK, AttemptInv, Environment PROVE AttemptInv'
  OBVIOUS
<1> USE DEF Working, autoVars, runVars, effectVars, workVars, boundVars, histVars
<1>1. ASSUME NEW r \in Runs, BackoffEnds(r) PROVE AttemptInv'
  BY <1>1 DEF BackoffEnds, AttemptInv
<1>2. CASE DatabaseFault
  BY <1>2 DEF DatabaseFault, Awaited, AttemptInv
<1>3. CASE TimePasses
  BY <1>3 DEF TimePasses, AttemptInv
<1>4. CASE Crash
  <2>1. crashes \in Nat /\ \A r \in Runs : attempt[r] \in Nat /\ info[r].max \in Nat
    BY DEF TypeOK, RunInfo
  <2>2. QED
    BY <1>4, <2>1 DEF Crash, AttemptInv
<1>5. CASE Recover
  <2>1. pc = "down" /\ pc' = "idle" /\ UNCHANGED <<info, attempt, crashes, claims, reset>>
    BY <1>5 DEF Recover
  <2>2. \A r \in Runs : status'[r] = IF status[r] = "running" THEN "queued" ELSE status[r]
    BY <1>5 DEF Recover, Interrupted
  <2>3. QED
    BY <2>1, <2>2 DEF AttemptInv
<1>6. QED
  BY <1>1, <1>2, <1>3, <1>4, <1>5 DEF Environment

(* Crashes apart, no run is attempted more often than its limit allows, and *)
(* attemptCount counts its attempts, unless a client requeued it.           *)
THEOREM AttemptsBounded == Spec => []AttemptBound
<1>1. ASSUME Init PROVE AttemptInv
  <2>1. \A r \in Runs : /\ info[r].max = 0 /\ status[r] = "none"
                        /\ attempt[r] = 0 /\ claims[r] = 0
    BY <1>1 DEF Init, NoInfo
  <2>2. pc = "down" /\ crashes = 0
    BY <1>1 DEF Init
  <2>3. QED
    BY <2>1, <2>2 DEF AttemptInv, Working
<1>2. TypeOK /\ AttemptInv /\ [Next]_vars => AttemptInv'
  <2> SUFFICES ASSUME TypeOK, AttemptInv, [Next]_vars PROVE AttemptInv'
    OBVIOUS
  <2>1. CASE Execute
    BY <2>1 DEF Execute, PerformAction, ActionFails, Awaited, AttemptInv, Working,
                autoVars, runVars, effectVars, workVars, boundVars, histVars
  <2>2. CASE UNCHANGED vars
    BY <2>2 DEF vars, AttemptInv
  <2>3. QED
    BY <2>1, <2>2, TickAttempt, WorkAttempt, ApiAttempt, EnvironmentAttempt DEF Next
<1>3. AttemptInv => AttemptBound
  BY DEF AttemptInv, AttemptBound
<1>4. QED
  BY <1>1, <1>2, <1>3, TypeCorrect, PTL DEF Spec
=============================================================================
