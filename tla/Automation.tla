------------------------------ MODULE Automation ------------------------------
(***************************************************************************)
(* The automation service (src/src/automation/automation.service.ts): the  *)
(* table of automations with their schedules, the table of runs, the one   *)
(* in-process worker that turns due occurrences into runs and works the    *)
(* queue, the action executions a timed-out attempt leaves behind, the API *)
(* handlers that race with all of it, and the process restarting.          *)
(*                                                                         *)
(* A step is what the process does between two awaits: one database        *)
(* statement with the code around it.  Wall-clock time is abstracted to    *)
(* "now" for schedules and to the flag "waiting" for a retry's back-off;   *)
(* the worker may pick any queued run that is not waiting, which includes  *)
(* the oldest one the code picks.                                          *)
(***************************************************************************)
EXTENDS Integers, FiniteSets

CONSTANTS
  Automations,    \* automation ids
  MaxRuns,        \* rows the run table can hold (bound)
  Keys,           \* idempotency keys that clients send
  Clients,        \* API requests that can be in flight together
  Calls,          \* kinds of request the clients make
  NewAutomations, \* bodies of POST /automations
  Edits,          \* bodies of PATCH /automations/:id
  TickBatch,      \* runs worked in one tick (10 in the code)
  MaxTime,        \* bound on the clock
  MaxRequests,    \* bound on API requests
  MaxCrashes,     \* bound on process crashes
  MaxFaults       \* bound on failing database statements of the worker

Never == -1       \* a null nextRunAt
Keep  == -2       \* a field the PATCH body leaves out
NoRun == 0
NoAuto == "no automation"
NoKey == "no key"

(* The fields a POST body gives a row. *)
Body == [active : BOOLEAN, next : {Never} \cup Nat, interval : Nat,
         retryLimit : 0..10, actions : Nat]

(* The fields of a PATCH body, Keep where it is silent. *)
Patch == [active : {"on", "off", "keep"}, next : {Keep} \cup Nat,
          interval : {Keep} \cup Nat, retryLimit : {Keep} \cup (0..10),
          actions : {Keep} \cup Nat]

ASSUME ConstantsAssumption ==
  /\ MaxRuns \in Nat /\ TickBatch \in Nat \ {0} /\ MaxTime \in Nat
  /\ MaxRequests \in Nat /\ MaxCrashes \in Nat /\ MaxFaults \in Nat
  /\ NewAutomations \subseteq Body
  /\ Edits \subseteq Patch
  /\ Calls \subseteq {"run", "retry", "update", "remove"}
  /\ NoAuto \notin Automations
  /\ NoKey \notin Keys /\ Keys \cap (Automations \X Nat) = {}

Runs == 1..MaxRuns

(* schedule:<automation>:<scheduledAt> *)
ScheduleKey(a, t) == <<a, t>>
AllKeys == Keys \cup (Automations \X Nat)

AutoRow == [state : {"absent", "live", "deleted"}, active : BOOLEAN,
            next : {Never} \cup Nat, interval : Nat, retryLimit : 0..10,
            actions : Nat]
NoRow == [state |-> "absent", active |-> FALSE, next |-> Never,
          interval |-> 0, retryLimit |-> 0, actions |-> 0]

(* The columns of a run that never change after it is created. *)
RunInfo == [auto : Automations \cup {NoAuto}, key : AllKeys \cup {NoKey},
            max : Nat]
NoInfo == [auto |-> NoAuto, key |-> NoKey, max |-> 0]

(* actionResults: the claim that produced them and how many there are. *)
Results == [claim : Nat, count : Nat]
NoResults == [claim |-> 0, count |-> 0]

(* One executeActions() promise: "done" of its "total" actions performed. *)
Execution == [run : Runs, claim : Nat, done : Nat, total : Nat]

(* A handler suspended at an await, with what it has read. *)
Suspended == [op : {"idle", "run", "retry", "update"},
              auto : Automations \cup {NoAuto}, key : Keys \cup {NoKey},
              run : Runs \cup {NoRun}, attempt : Nat, results : Results,
              seen : AutoRow]
Idle == [op |-> "idle", auto |-> NoAuto, key |-> NoKey, run |-> NoRun,
         attempt |-> 0, results |-> NoResults, seen |-> NoRow]

(* A row of the list of due automations that enqueueSchedules iterates. *)
Due == [auto : Automations, at : Nat, interval : Nat, retryLimit : 0..10]
NoDue == [auto |-> NoAuto, at |-> 0, interval |-> 0, retryLimit |-> 0]

Job == [run : Runs \cup {NoRun}, attempt : Nat]
NoJob == [run |-> NoRun, attempt |-> 0]

VARIABLES
  autos,     \* table automations
  info,      \* table automation_runs: automationId, idempotencyKey, maxAttempts
  status,    \* .. status ("none" for a row not created yet)
  attempt,   \* .. attemptCount
  waiting,   \* .. availableAt lies in the future
  results,   \* .. actionResults
  resources, \* records the actions created: <<run, claim, index>>
  audits,    \* audit_logs rows: <<run, claim, verdict>>
  pc,        \* where the worker is; "idle" when the flag working is false
  due,       \* the due rows the tick still has to enqueue
  cur,       \* the due row it is at
  job,       \* the run instance of workOne: id and attemptCount as last read
  worked,    \* loop index of tick
  inflight,  \* executeActions promises not settled yet
  client,    \* suspended API handlers
  now,       \* clock of the schedules
  requests, crashes, faults, \* used-up parts of the bounds
  claims,    \* history: how often a run was claimed
  reset      \* history: runs that POST ../retry has requeued

autoVars   == <<autos>>
runVars    == <<info, status, attempt, waiting, results>>
effectVars == <<resources, audits>>
workVars   == <<pc, due, cur, job, worked>>
boundVars  == <<now, requests, crashes, faults>>
histVars   == <<claims, reset>>
vars == <<autos, info, status, attempt, waiting, results, resources, audits,
          pc, due, cur, job, worked, inflight, client, now, requests,
          crashes, faults, claims, reset>>

-----------------------------------------------------------------------------
KeyInUse(k) == \E r \in Runs : status[r] # "none" /\ info[r].key = k

(* Ids come from a serial column: the next row is the first unused one. *)
IsNextRow(r) == /\ r \in Runs
                /\ status[r] = "none"
                /\ \A q \in Runs : q < r => status[q] # "none"

(* Number(retryLimit || 3) + 1 : a limit of 0 counts as not given. *)
MaxAttempts(limit) == (IF limit = 0 THEN 3 ELSE limit) + 1

(* nextRun(): the occurrence after a date; it throws when CanSchedule fails. *)
CanSchedule(interval) == interval > 0
NextRun_FromNow(interval, from) == now + interval
NextRun(interval, from) == from + interval

Available(r) == status[r] = "queued" /\ ~waiting[r]

(* Mutant: the promise of an attempt that timed out is taken for the        *)
(* retry's.                                                                 *)
Awaited_AnyAttempt(e) == pc = "exec" /\ e.run = job.run

(* The execution the worker is awaiting, as opposed to one it timed out on. *)
Awaited(e) == pc = "exec" /\ e.run = job.run /\ e.claim = claims[e.run]

IsDue_Late(a) == /\ autos[a].state = "live" /\ autos[a].active
                 /\ autos[a].next # Never /\ autos[a].next < now
IsDue(a) == /\ autos[a].state = "live" /\ autos[a].active
            /\ autos[a].next # Never /\ autos[a].next <= now
DueRows == { [auto |-> a, at |-> autos[a].next, interval |-> autos[a].interval,
              retryLimit |-> autos[a].retryLimit] : a \in { b \in Automations : IsDue(b) } }

(* run.attemptCount < run.maxAttempts, on the instance as last read. *)
MayRetry_OffByOne == job.attempt <= info[job.run].max
MayRetry == job.attempt < info[job.run].max

(* Runs that onModuleInit finds in the hands of a worker that is gone. *)
Interrupted_None(r) == FALSE
Interrupted(r) == status[r] = "running"

(* INSERT of a queued run. *)
InsertRun(r, a, k, max) ==
  /\ info' = [info EXCEPT ![r] = [auto |-> a, key |-> k, max |-> max]]
  /\ status' = [status EXCEPT ![r] = "queued"]

Init ==
  /\ autos = [a \in Automations |-> NoRow]
  /\ info = [r \in Runs |-> NoInfo]
  /\ status = [r \in Runs |-> "none"]
  /\ attempt = [r \in Runs |-> 0]
  /\ waiting = [r \in Runs |-> FALSE]
  /\ results = [r \in Runs |-> NoResults]
  /\ resources = {} /\ audits = {}
  /\ pc = "down" /\ due = {} /\ cur = NoDue /\ job = NoJob /\ worked = 0
  /\ inflight = {}
  /\ client = [c \in Clients |-> Idle]
  /\ now = 0 /\ requests = 0 /\ crashes = 0 /\ faults = 0
  /\ claims = [r \in Runs |-> 0] /\ reset = {}

-----------------------------------------------------------------------------
(* tick(), enqueueSchedules() *)

(* The timer, or a setImmediate, finds the flag working unset: it sets it   *)
(* and reads the due automations.  A tick that finds it set returns.        *)
StartTick ==
  /\ pc = "idle"
  /\ due' = DueRows
  /\ pc' = IF DueRows = {} THEN "pick" ELSE "enqueue"
  /\ worked' = 0
  /\ UNCHANGED <<cur, job, inflight, client>>
  /\ UNCHANGED <<autoVars, runVars, effectVars, boundVars, histVars>>

(* Mutant: any error of the insert is swallowed, not only that of the index. *)
EnqueueOccurrence_Swallow ==
  /\ pc = "enqueue"
  /\ \E d \in due : (\A e \in due : d.at <= e.at) /\ cur' = d
  /\ pc' = "advance"
  /\ UNCHANGED <<due, job, worked, inflight, client>>
  /\ UNCHANGED <<autoVars, runVars, effectVars, boundVars, histVars>>

(* The insert of the earliest due row's run.  When the unique index on the  *)
(* key rejects it the UniqueConstraintError is swallowed.                   *)
EnqueueOccurrence ==
  /\ pc = "enqueue"
  /\ \E d \in due :
       /\ \A e \in due : d.at <= e.at
       /\ cur' = d
       /\ IF KeyInUse(ScheduleKey(d.auto, d.at))
          THEN UNCHANGED <<info, status>>
          ELSE \E r \in Runs :
                 /\ IsNextRow(r)
                 /\ InsertRun(r, d.auto, ScheduleKey(d.auto, d.at),
                              MaxAttempts(d.retryLimit))
  /\ pc' = "advance"
  /\ UNCHANGED <<attempt, waiting, results, due, job, worked, inflight, client>>
  /\ UNCHANGED <<autoVars, effectVars, boundVars, histVars>>

(* nextRunAt moves to the occurrence after the one just enqueued.  nextRun  *)
(* throws on a trigger with neither cron nor interval: the tick is over.    *)
AdvanceSchedule ==
  /\ pc = "advance"
  /\ IF CanSchedule(cur.interval)
     THEN /\ autos' = [autos EXCEPT ![cur.auto].next = NextRun(cur.interval, cur.at)]
          /\ due' = due \ {cur}
          /\ pc' = IF due \ {cur} = {} THEN "pick" ELSE "enqueue"
     ELSE /\ due' = {}
          /\ pc' = "idle"
          /\ UNCHANGED autos
  /\ cur' = NoDue
  /\ UNCHANGED <<job, worked, inflight, client>>
  /\ UNCHANGED <<runVars, effectVars, boundVars, histVars>>

-----------------------------------------------------------------------------
(* workOne() *)

PickRun ==
  /\ pc = "pick" /\ worked < TickBatch
  /\ \E r \in Runs : /\ Available(r)
                     /\ job' = [run |-> r, attempt |-> attempt[r]]
  /\ pc' = "claim"
  /\ UNCHANGED <<due, cur, worked, inflight, client>>
  /\ UNCHANGED <<autoVars, runVars, effectVars, boundVars, histVars>>

EndTick ==
  /\ pc = "pick"
  /\ worked = TickBatch \/ \A r \in Runs : ~Available(r)
  /\ pc' = "idle" /\ job' = NoJob /\ worked' = 0
  /\ UNCHANGED <<due, cur, inflight, client>>
  /\ UNCHANGED <<autoVars, runVars, effectVars, boundVars, histVars>>

(* UPDATE .. WHERE id = run.id AND status = 'queued'. *)
ClaimRun ==
  /\ pc = "claim"
  /\ IF status[job.run] = "queued"
     THEN /\ status' = [status EXCEPT ![job.run] = "running"]
          /\ attempt' = [attempt EXCEPT ![job.run] = job.attempt + 1]
          /\ claims' = [claims EXCEPT ![job.run] = @ + 1]
          /\ pc' = "load"
          /\ UNCHANGED worked
     ELSE /\ pc' = "pick"
          /\ worked' = worked + 1
          /\ UNCHANGED <<status, attempt, claims>>
  /\ UNCHANGED <<info, waiting, results, due, cur, job, inflight, client, reset>>
  /\ UNCHANGED <<autoVars, effectVars, boundVars>>

(* run.reload(), then the automation is read and executeActions started. *)
LoadRun ==
  /\ pc = "load"
  /\ job' = [job EXCEPT !.attempt = attempt[job.run]]
  /\ LET row == autos[info[job.run].auto] IN
       IF row.state = "live"
       THEN /\ inflight' = inflight \cup
                 {[run |-> job.run, claim |-> claims[job.run],
                   done |-> 0, total |-> row.actions]}
            /\ pc' = "exec"
       ELSE /\ pc' = "missing"
            /\ UNCHANGED inflight
  /\ UNCHANGED <<due, cur, worked, client>>
  /\ UNCHANGED <<autoVars, runVars, effectVars, boundVars, histVars>>

(* Mutant: a status the run history does not know. *)
FailMissing_Cancelled ==
  /\ pc = "missing"
  /\ status' = [status EXCEPT ![job.run] = "cancelled"]
  /\ pc' = "pick" /\ worked' = worked + 1
  /\ UNCHANGED <<info, attempt, waiting, results, due, cur, job, inflight, client>>
  /\ UNCHANGED <<autoVars, effectVars, boundVars, histVars>>

(* 'Automation no longer exists' *)
FailMissing ==
  /\ pc = "missing"
  /\ status' = [status EXCEPT ![job.run] = "failed"]
  /\ pc' = "pick" /\ worked' = worked + 1
  /\ UNCHANGED <<info, attempt, waiting, results, due, cur, job, inflight, client>>
  /\ UNCHANGED <<autoVars, effectVars, boundVars, histVars>>

(* One action of executeActions creates its record, whether or not anybody *)
(* still awaits the promise.                                                *)
PerformAction(e) ==
  /\ e.done < e.total
  /\ resources' = resources \cup {<<e.run, e.claim, e.done + 1>>}
  /\ inflight' = (inflight \ {e}) \cup
       (IF Awaited(e) \/ e.done + 1 < e.total
        THEN {[e EXCEPT !.done = @ + 1]} ELSE {})
  /\ UNCHANGED <<audits, client>>
  /\ UNCHANGED <<autoVars, runVars, workVars, boundVars, histVars>>

(* An action is invalid or its insert fails, or the list is empty. *)
ActionFails(e) ==
  /\ e.done < e.total \/ e.total = 0
  /\ inflight' = inflight \ {e}
  /\ pc' = IF Awaited(e) THEN "settle" ELSE pc
  /\ UNCHANGED <<due, cur, job, worked, client>>
  /\ UNCHANGED <<autoVars, runVars, effectVars, boundVars, histVars>>

(* withTimeout rejects; nothing stops the execution. *)
TimeOut ==
  /\ \E e \in inflight : Awaited(e) /\ e.done < e.total
  /\ pc' = "settle"
  /\ UNCHANGED <<due, cur, job, worked, inflight, client>>
  /\ UNCHANGED <<autoVars, runVars, effectVars, boundVars, histVars>>

(* Mutant: the executions are not awaited. *)
CompleteRun_Early ==
  /\ \E e \in inflight :
       /\ Awaited(e)
       /\ results' = [results EXCEPT ![e.run] = [claim |-> e.claim, count |-> e.total]]
  /\ status' = [status EXCEPT ![job.run] = "completed"]
  /\ pc' = "audit"
  /\ UNCHANGED <<info, attempt, waiting, due, cur, job, worked, inflight, client>>
  /\ UNCHANGED <<autoVars, effectVars, boundVars, histVars>>

CompleteRun ==
  /\ \E e \in inflight :
       /\ Awaited(e) /\ e.done = e.total /\ e.total > 0
       /\ results' = [results EXCEPT ![e.run] = [claim |-> e.claim, count |-> e.total]]
       /\ inflight' = inflight \ {e}
  /\ status' = [status EXCEPT ![job.run] = "completed"]
  /\ pc' = "audit"
  /\ UNCHANGED <<info, attempt, waiting, due, cur, job, worked, client>>
  /\ UNCHANGED <<autoVars, effectVars, boundVars, histVars>>

(* Mutant: something in the try block throws after the audit row. *)
AuditCompleted_Throws ==
  /\ pc = "audit"
  /\ audits' = audits \cup {<<job.run, claims[job.run], "completed">>}
  /\ pc' = "settle"
  /\ UNCHANGED <<resources, due, cur, job, worked, inflight, client>>
  /\ UNCHANGED <<autoVars, runVars, boundVars, histVars>>

(* automation.update({lastRunAt}) and the audit row 'completed'. *)
AuditCompleted ==
  /\ pc = "audit"
  /\ audits' = audits \cup {<<job.run, claims[job.run], "completed">>}
  /\ pc' = "pick" /\ worked' = worked + 1
  /\ UNCHANGED <<resources, due, cur, job, inflight, client>>
  /\ UNCHANGED <<autoVars, runVars, boundVars, histVars>>

(* The catch block: another attempt after a back-off, or failed for good. *)
SettleFailure ==
  /\ pc = "settle"
  /\ IF MayRetry
     THEN /\ status' = [status EXCEPT ![job.run] = "queued"]
          /\ waiting' = [waiting EXCEPT ![job.run] = TRUE]
          /\ pc' = "pick" /\ worked' = worked + 1
     ELSE /\ status' = [status EXCEPT ![job.run] = "failed"]
          /\ pc' = "auditFailed"
          /\ UNCHANGED <<waiting, worked>>
  /\ UNCHANGED <<info, attempt, results, due, cur, job, inflight, client>>
  /\ UNCHANGED <<autoVars, effectVars, boundVars, histVars>>

AuditFailed ==
  /\ pc = "auditFailed"
  /\ audits' = audits \cup {<<job.run, claims[job.run], "failed">>}
  /\ pc' = "pick" /\ worked' = worked + 1
  /\ UNCHANGED <<resources, due, cur, job, inflight, client>>
  /\ UNCHANGED <<autoVars, runVars, boundVars, histVars>>

(* A database statement of the worker fails.  Inside the try block of       *)
(* workOne the catch block takes over; anywhere else the exception reaches  *)
(* tick, which drops the rest of the tick.                                  *)
DatabaseFault ==
  /\ faults < MaxFaults
  /\ faults' = faults + 1
  /\ \/ /\ pc \in {"enqueue", "advance", "pick", "claim", "load", "missing",
                   "settle", "auditFailed"}
        /\ pc' = "idle" /\ due' = {} /\ cur' = NoDue /\ job' = NoJob
        /\ worked' = 0
        /\ UNCHANGED inflight
     \/ /\ pc = "audit"
        /\ pc' = "settle"
        /\ UNCHANGED <<due, cur, job, worked, inflight>>
     \/ /\ \E e \in inflight : /\ Awaited(e) /\ e.done = e.total /\ e.total > 0
                               /\ inflight' = inflight \ {e}
        /\ pc' = "settle"
        /\ UNCHANGED <<due, cur, job, worked>>
  /\ UNCHANGED <<client, now, requests, crashes>>
  /\ UNCHANGED <<autoVars, runVars, effectVars, histVars>>

-----------------------------------------------------------------------------
(* API handlers *)

CreateAutomation(a) ==
  /\ pc # "down"
  /\ autos[a].state = "absent"
  /\ \E b \in NewAutomations :
       /\ b.next = Never /\ b.active => CanSchedule(b.interval)
       /\ autos' = [autos EXCEPT ![a] =
            [state |-> "live", active |-> b.active,
             next |-> IF b.next # Never THEN b.next
                      ELSE IF b.active THEN NextRun(b.interval, now) ELSE Never,
             interval |-> b.interval, retryLimit |-> b.retryLimit,
             actions |-> b.actions]]
  /\ UNCHANGED <<inflight, client>>
  /\ UNCHANGED <<runVars, effectVars, workVars, boundVars, histVars>>

(* The first await of a handler: what it reads is kept until the second. *)
Suspend(c, kind, record) ==
  /\ pc # "down" /\ kind \in Calls
  /\ client[c].op = "idle"
  /\ requests < MaxRequests /\ requests' = requests + 1
  /\ client' = [client EXCEPT ![c] = record]
  /\ UNCHANGED <<inflight, now, crashes, faults>>
  /\ UNCHANGED <<autoVars, runVars, effectVars, workVars, histVars>>

StartUpdate(c, a) ==
  /\ autos[a].state = "live"
  /\ Suspend(c, "update", [Idle EXCEPT !.op = "update", !.auto = a, !.seen = autos[a]])

Patched(value, old) == IF value = Keep THEN old ELSE value
PatchedActive(p, seen) ==
  IF p.active = "keep" THEN seen.active ELSE p.active = "on"

(* update() asks nextRun for a date: the row is active and has none, or its *)
(* trigger changes.  When nextRun throws the request is refused.            *)
Reschedules(p, seen) == /\ p.next = Keep /\ PatchedActive(p, seen)
                        /\ seen.next = Never \/ p.interval # Keep

PatchedRow(p, seen) ==
  LET interval == Patched(p.interval, seen.interval) IN
  [state |-> seen.state, active |-> PatchedActive(p, seen),
   next |-> IF p.next # Keep THEN p.next
            ELSE IF ~PatchedActive(p, seen) THEN Never
            ELSE IF Reschedules(p, seen) THEN NextRun(interval, now)
            ELSE seen.next,
   interval |-> interval,
   retryLimit |-> Patched(p.retryLimit, seen.retryLimit),
   actions |-> Patched(p.actions, seen.actions)]

(* automation.update(..): a column is written only when its new value       *)
(* differs from the one read at the start of the handler.                   *)
Column(new, seen, stored) == IF new = seen THEN stored ELSE new
WriteChanges(row, new, seen) ==
  [state |-> row.state,
   active |-> Column(new.active, seen.active, row.active),
   next |-> Column(new.next, seen.next, row.next),
   interval |-> Column(new.interval, seen.interval, row.interval),
   retryLimit |-> Column(new.retryLimit, seen.retryLimit, row.retryLimit),
   actions |-> Column(new.actions, seen.actions, row.actions)]

FinishUpdate(c) ==
  /\ client[c].op = "update"
  /\ \E p \in Edits :
       LET seen == client[c].seen IN
       IF Reschedules(p, seen) /\ ~CanSchedule(Patched(p.interval, seen.interval))
       THEN UNCHANGED autos
       ELSE autos' = [autos EXCEPT ![client[c].auto] =
                        WriteChanges(@, PatchedRow(p, seen), seen)]
  /\ client' = [client EXCEPT ![c] = Idle]
  /\ UNCHANGED inflight
  /\ UNCHANGED <<runVars, effectVars, workVars, boundVars, histVars>>

RemoveAutomation(a) ==
  /\ pc # "down" /\ "remove" \in Calls
  /\ requests < MaxRequests /\ requests' = requests + 1
  /\ autos[a].state = "live"
  /\ autos' = [autos EXCEPT ![a].state = "deleted"]
  /\ UNCHANGED <<inflight, client, now, crashes, faults>>
  /\ UNCHANGED <<runVars, effectVars, workVars, histVars>>

(* POST /automations/:id/run with a key no run has; with a key in use the   *)
(* handler returns that run and changes nothing.                            *)
StartRun(c, a, k) ==
  /\ autos[a].state = "live"
  /\ ~KeyInUse(k)
  /\ Suspend(c, "run", [Idle EXCEPT !.op = "run", !.auto = a, !.key = k, !.seen = autos[a]])

(* The insert: by now another request may have taken the key, and the      *)
(* unique index's error goes to the caller.                                 *)
FinishRun(c) ==
  /\ client[c].op = "run"
  /\ IF KeyInUse(client[c].key)
     THEN UNCHANGED <<info, status>>
     ELSE \E r \in Runs :
            /\ IsNextRow(r)
            /\ InsertRun(r, client[c].auto, client[c].key,
                         MaxAttempts(client[c].seen.retryLimit))
  /\ client' = [client EXCEPT ![c] = Idle]
  /\ UNCHANGED <<attempt, waiting, results, inflight>>
  /\ UNCHANGED <<autoVars, effectVars, workVars, boundVars, histVars>>

(* Mutant: any run that is over may be retried. *)
StartRetry_Ended(c, r) ==
  /\ status[r] \in {"failed", "completed"}
  /\ autos[info[r].auto].state = "live"
  /\ Suspend(c, "retry", [Idle EXCEPT !.op = "retry", !.run = r,
                          !.attempt = attempt[r], !.results = results[r]])

(* POST /automations/:id/runs/:runId/retry reads the run: it must be failed. *)
StartRetry(c, r) ==
  /\ status[r] = "failed"
  /\ autos[info[r].auto].state = "live"
  /\ Suspend(c, "retry", [Idle EXCEPT !.op = "retry", !.run = r,
                          !.attempt = attempt[r], !.results = results[r]])

(* .. and writes it back by id, whatever its status has become; as in       *)
(* FinishUpdate, only the columns that differ from what was read.           *)
FinishRetry(c) ==
  /\ client[c].op = "retry"
  /\ LET r == client[c].run IN
       /\ status' = [status EXCEPT ![r] = "queued"]
       /\ waiting' = [waiting EXCEPT ![r] = FALSE]
       /\ attempt' = [attempt EXCEPT ![r] = IF client[c].attempt = 0 THEN @ ELSE 0]
       /\ results' = [results EXCEPT ![r] =
                        IF client[c].results = NoResults THEN @ ELSE NoResults]
       /\ reset' = reset \cup {r}
  /\ client' = [client EXCEPT ![c] = Idle]
  /\ UNCHANGED <<info, inflight, claims>>
  /\ UNCHANGED <<autoVars, effectVars, workVars, boundVars>>

-----------------------------------------------------------------------------
(* Environment *)

(* The back-off of a requeued run is over: availableAt <= now. *)
BackoffEnds(r) ==
  /\ waiting[r]
  /\ waiting' = [waiting EXCEPT ![r] = FALSE]
  /\ UNCHANGED <<info, status, attempt, results, inflight, client>>
  /\ UNCHANGED <<autoVars, effectVars, workVars, boundVars, histVars>>

TimePasses ==
  /\ now < MaxTime /\ now' = now + 1
  /\ UNCHANGED <<inflight, client, requests, crashes, faults>>
  /\ UNCHANGED <<autoVars, runVars, effectVars, workVars, histVars>>

(* The process dies: the worker, the executions and the handlers with it. *)
Crash ==
  /\ pc # "down"
  /\ crashes < MaxCrashes /\ crashes' = crashes + 1
  /\ pc' = "down" /\ due' = {} /\ cur' = NoDue /\ job' = NoJob /\ worked' = 0
  /\ inflight' = {} /\ client' = [c \in Clients |-> Idle]
  /\ UNCHANGED <<now, requests, faults>>
  /\ UNCHANGED <<autoVars, runVars, effectVars, histVars>>

(* onModuleInit: every run left running is queued again. *)
Recover ==
  /\ pc = "down"
  /\ status' = [r \in Runs |-> IF Interrupted(r) THEN "queued" ELSE status[r]]
  /\ waiting' = [r \in Runs |-> IF Interrupted(r) THEN FALSE ELSE waiting[r]]
  /\ pc' = "idle"
  /\ UNCHANGED <<info, attempt, results, due, cur, job, worked, inflight, client>>
  /\ UNCHANGED <<autoVars, effectVars, boundVars, histVars>>

-----------------------------------------------------------------------------
Tick == StartTick \/ EnqueueOccurrence \/ AdvanceSchedule \/ EndTick

Work == PickRun \/ ClaimRun \/ LoadRun \/ FailMissing \/ TimeOut \/ CompleteRun
        \/ AuditCompleted \/ SettleFailure \/ AuditFailed

Execute == \E e \in inflight : PerformAction(e) \/ ActionFails(e)

Api == \/ \E a \in Automations : CreateAutomation(a) \/ RemoveAutomation(a)
       \/ \E c \in Clients :
            \/ FinishUpdate(c) \/ FinishRun(c) \/ FinishRetry(c)
            \/ \E a \in Automations : StartUpdate(c, a)
            \/ \E a \in Automations, k \in Keys : StartRun(c, a, k)
            \/ \E r \in Runs : StartRetry(c, r)

Environment == \/ \E r \in Runs : BackoffEnds(r)
               \/ DatabaseFault \/ TimePasses \/ Crash \/ Recover

Next == Tick \/ Work \/ Execute \/ Api \/ Environment

Spec == Init /\ [][Next]_vars

(* The poll timer keeps calling tick, awaited statements and executions     *)
(* return (withTimeout bounds the latter), a back-off ends, and the process *)
(* supervisor restarts the process.  Clients and the clock are not fair.    *)
Fairness == /\ WF_vars(Tick \/ Work) /\ WF_vars(Execute)
            /\ WF_vars(\E r \in Runs : BackoffEnds(r)) /\ WF_vars(Recover)

FairSpec == Spec /\ Fairness

-----------------------------------------------------------------------------
(* Properties *)

States == {"none", "queued", "running", "completed", "failed"}
Places == {"down", "idle", "enqueue", "advance", "pick", "claim", "load",
           "missing", "exec", "audit", "settle", "auditFailed"}

Working == {"claim", "load", "missing", "exec", "audit", "settle", "auditFailed"}

(* Every variable has its type, and the locals of a suspended function are  *)
(* set where it uses them.                                                  *)
TypeOK ==
  /\ autos \in [Automations -> AutoRow]
  /\ info \in [Runs -> RunInfo] /\ status \in [Runs -> States]
  /\ attempt \in [Runs -> Nat] /\ waiting \in [Runs -> BOOLEAN]
  /\ results \in [Runs -> Results]
  /\ resources \subseteq Runs \X Nat \X Nat
  /\ audits \subseteq Runs \X Nat \X {"completed", "failed"}
  /\ pc \in Places /\ due \subseteq Due /\ cur \in Due \cup {NoDue}
  /\ pc = "advance" => cur \in Due
  /\ job \in Job /\ worked \in Nat
  /\ inflight \subseteq Execution
  /\ client \in [Clients -> Suspended]
  /\ pc \in Working => job.run \in Runs /\ status[job.run] # "none"
  /\ \A r \in Runs : status[r] # "none" => info[r].auto \in Automations
  /\ \A c \in Clients :
       /\ client[c].op = "run" => client[c].auto \in Automations /\ client[c].key \in Keys
       /\ client[c].op = "retry" => client[c].run \in Runs /\ status[client[c].run] # "none"
  /\ now \in Nat /\ requests \in Nat /\ crashes \in Nat /\ faults \in Nat
  /\ claims \in [Runs -> Nat] /\ reset \subseteq Runs

(* The attemptCount shown in the run history is the number of times the     *)
(* worker really took the run, across crashes, failed statements and        *)
(* time-outs, and passes maxAttempts only by one for every crash, which     *)
(* requeues runs whatever their count.  Retry requests that race void both: *)
(* the second may requeue a run of which the first has used up attempts.    *)
AttemptBound ==
  \A r \in Runs \ reset :
    attempt[r] = claims[r] /\ attempt[r] <= info[r].max + crashes

(* No run is left in 'running' with nobody working on it, while the process *)
(* is up and no statement has failed: nothing but a restart would free it.  *)
RunningIsWorked ==
  pc # "down" /\ faults = 0 =>
    \A r \in Runs : status[r] = "running" =>
      job.run = r /\ pc \in {"load", "missing", "exec", "settle"}

(* What a completed run lists in actionResults was really created, every    *)
(* action of it and by one and the same attempt.                            *)
CompletedIsBacked ==
  \A r \in Runs : status[r] = "completed" =>
    /\ results[r].count > 0
    /\ \A i \in 1..results[r].count : <<r, results[r].claim, i>> \in resources

(* What a completed run lists is the work of its latest attempt, and any    *)
(* execution that still runs for it beside the worker belongs to an earlier *)
(* attempt, one that timed out: the attempts of a run do not mix.           *)
CompletedIsCurrent ==
  \A r \in Runs : status[r] = "completed" =>
    /\ results[r].claim = claims[r]
    /\ \A e \in inflight : e.run = r => e.claim < claims[r]

(* The audit log never gives an attempt two verdicts, and 'completed' only  *)
(* to one that performed actions.                                           *)
AuditIsTruthful ==
  \A x \in audits : x[3] = "completed" =>
    /\ <<x[1], x[2], "failed">> \notin audits
    /\ <<x[1], x[2], 1>> \in resources

(* A completed run is taken up again only by a catch block entered because  *)
(* the statements after 'completed' failed, or by a retry request that read *)
(* the run when it had failed, before another request had it retried.       *)
CompletedStays ==
  \A r \in Runs : status[r] = "completed" /\ status'[r] # "completed" =>
    \/ pc = "settle" /\ faults > 0 /\ job.run = r
    \/ r \in reset /\ \E c \in Clients : client[c].op = "retry" /\ client[c].run = r
CompletedIsFinal == [][CompletedStays]_vars

(* When the scheduler is about to move an automation on, the run of the     *)
(* occurrence it leaves behind exists: neither a crash nor a failed         *)
(* statement between the two writes, nor an edit meanwhile, loses it.       *)
NoOccurrenceSkipped ==
  pc = "advance" => KeyInUse(ScheduleKey(cur.auto, cur.at))

(* Automations nobody edits are scheduled as OccurrenceSchedule says.  The  *)
(* two statements of the code count as one: once the run of the stored      *)
(* nextRunAt exists the abstract cursor has already moved on.               *)
Moved(a) == autos[a].next # Never /\ KeyInUse(ScheduleKey(a, autos[a].next))
Schedule == INSTANCE OccurrenceSchedule WITH
  cursor <- [a \in Automations |-> autos[a].next +
                                     (IF Moved(a) THEN autos[a].interval ELSE 0)],
  step <- [a \in Automations |-> autos[a].interval],
  fired <- { info[r].key : r \in { q \in Runs : status[q] # "none" /\ info[q].key \notin Keys } }
ImplementsSchedule == Schedule!Spec

(* Every queued run is worked to the end, except that a failing statement   *)
(* outside workOne's try block (the reload, the automation's read, or one   *)
(* that writes the verdict) can leave it in 'running', which nothing but a  *)
(* restart undoes.                                                          *)
EveryRunSettles ==
  \A r \in Runs :
    status[r] = "queued" ~> \/ status[r] \in {"completed", "failed"}
                            \/ faults > 0 /\ [](status[r] = "running")

(* An occurrence that is due gets its run, or is cancelled. *)
EveryOccurrenceFires ==
  \A a \in Automations, t \in 0..MaxTime :
    autos[a].state = "live" /\ autos[a].active /\ autos[a].next = t /\ t <= now
      ~> \/ KeyInUse(ScheduleKey(a, t))
         \/ autos[a].state = "deleted" \/ ~autos[a].active \/ autos[a].next # t

(* retryRun: 'Only failed runs can be retried'. *)
OnlyFailedRetried ==
  [][\A r \in Runs : attempt[r] > 0 /\ attempt'[r] = 0 => status[r] = "failed"]_vars
=============================================================================
