------------------------------- MODULE AiTask -------------------------------
(***************************************************************************)
(* src/src/ai-task/ai-task.service.ts, composed with the agents' actions   *)
(* and the approvals they ask for.                                         *)
(*                                                                         *)
(* A request is a call of create, update, run, cancel or retry.  It reads  *)
(* the row, checks the status it has read, and writes the row later,       *)
(* whatever the row says by then; run() awaits the agents between two such *)
(* writes.  chat(), which AgentTeam models, is here one answer of the      *)
(* provider and one call of execute().                                     *)
(***************************************************************************)
EXTENDS AgentActions

CONSTANT Tasks

Modes == {"auto", "suggest"}
Keep == "keep" \* an update without executionMode

VARIABLES
  tasks,   \* the rows: status, executionMode and the call that the output shows
  requests \* requests that passed their checks, with what they have read
taskVars == <<tasks, requests>>
vars == <<taskVars, actionVars, approvalVars, arrived, faults, crashes>>

NoTask == [status |-> "none", mode |-> "auto", output |-> 0]

Init ==
  /\ ApprovalInit /\ ActionsInit
  /\ tasks = [t \in Tasks |-> NoTask] /\ requests = <<>>

-----------------------------------------------------------------------------
(* A request up to the first statement it awaits after its checks. *)

Accept(t, pc, mode, runNow) ==
  /\ Arrive
  /\ requests' = Append(requests, [task |-> t, pc |-> pc, mode |-> mode,
                                   runNow |-> runNow, call |-> 0])

Exists(t) == tasks[t].status # "none"

(* The row is inserted; unless runNow is false it is read again to be run. *)
CreateTask(t, mode, runNow) ==
  /\ ~Exists(t)
  /\ tasks' = [tasks EXCEPT ![t] = [status |-> "queued", mode |-> mode, output |-> 0]]
  /\ Accept(t, IF runNow THEN "read" ELSE "over", Keep, FALSE)

(* A mode that the row already has is no change and will not be written. *)
StartUpdate(t, mode, runNow) ==
  /\ Exists(t) /\ Accept(t, "update", IF mode = tasks[t].mode THEN Keep ELSE mode, runNow)
  /\ UNCHANGED tasks

Runnable(t) == tasks[t].status \notin {"running", "completed"}

StartRun(t) ==
  /\ Exists(t) /\ Runnable(t) /\ Accept(t, "mark", tasks[t].mode, FALSE)
  /\ UNCHANGED tasks

(* Mutant: a completed task may be cancelled. *)
StartCancel_Completed(t) ==
  /\ Exists(t) /\ tasks[t].status # "cancelled"
  /\ Accept(t, "cancel", Keep, FALSE)
  /\ UNCHANGED tasks

StartCancel(t) ==
  /\ Exists(t) /\ tasks[t].status \notin {"completed", "cancelled"}
  /\ Accept(t, "cancel", Keep, FALSE)
  /\ UNCHANGED tasks

StartRetry(t) ==
  /\ tasks[t].status \in {"failed", "cancelled"} /\ Accept(t, "requeue", Keep, FALSE)
  /\ UNCHANGED tasks

Client(t) == \/ \E mode \in Modes, runNow \in BOOLEAN : CreateTask(t, mode, runNow)
             \/ \E mode \in Modes \cup {Keep}, runNow \in BOOLEAN : StartUpdate(t, mode, runNow)
             \/ StartRun(t) \/ StartCancel(t) \/ StartRetry(t)

-----------------------------------------------------------------------------
(* The stretches of request q between its awaits. *)

Is(q, pc) == requests[q].pc = pc
Proceed(q, pc) == requests' = [requests EXCEPT ![q].pc = pc]
Return(q) == requests' = [requests EXCEPT ![q].pc = "over", ![q].mode = Keep,
                                          ![q].runNow = FALSE]
Write(q, status) == tasks' = [tasks EXCEPT ![requests[q].task].status = status]
Elsewhere == UNCHANGED <<actionVars, approvalVars, arrived, crashes>>

(* A statement before the try block throws; the request ends. *)
Throws(q) ==
  /\ requests[q].pc \in {"read", "update", "cancel", "requeue", "mark"}
  /\ Fault /\ Return(q)
  /\ UNCHANGED tasks /\ Elsewhere

FinishUpdate(q) ==
  /\ Is(q, "update")
  /\ tasks' = [tasks EXCEPT ![requests[q].task].mode =
                 IF requests[q].mode = Keep THEN @ ELSE requests[q].mode]
  /\ IF requests[q].runNow THEN Proceed(q, "read") ELSE Return(q)
  /\ UNCHANGED faults /\ Elsewhere

FinishCancel(q) ==
  /\ Is(q, "cancel") /\ Write(q, "cancelled") /\ Return(q)
  /\ UNCHANGED faults /\ Elsewhere

(* Mutant: a status that tasks do not have. *)
Requeue_Pending(q) ==
  /\ Is(q, "requeue") /\ Write(q, "pending") /\ Proceed(q, "read")
  /\ UNCHANGED faults /\ Elsewhere

Requeue(q) ==
  /\ Is(q, "requeue") /\ Write(q, "queued") /\ Proceed(q, "read")
  /\ UNCHANGED faults /\ Elsewhere

(* run() after create, update or retry: the row is read, and refused if by  *)
(* now it is running or completed.                                          *)
ReadTask(q) ==
  /\ Is(q, "read")
  /\ LET t == requests[q].task IN
     IF Runnable(t)
     THEN requests' = [requests EXCEPT ![q].pc = "mark", ![q].mode = tasks[t].mode]
     ELSE Return(q)
  /\ UNCHANGED <<tasks, faults>> /\ Elsewhere

MarkRunning(q) ==
  /\ Is(q, "mark") /\ Write(q, "running") /\ Proceed(q, "chat")
  /\ UNCHANGED faults /\ Elsewhere

(* Mutant: an error of the provider is not caught. *)
Chat_Throws(q) ==
  /\ Is(q, "chat")
  /\ \/ /\ \E requested \in Requested : Perform(requests[q].mode, requested)
        /\ requests' = [requests EXCEPT ![q].pc = "acting", ![q].mode = Keep,
                                      ![q].call = Len(calls) + 1]
     \/ Return(q) /\ UNCHANGED calls
  /\ UNCHANGED <<tasks, tables, approvalVars, arrived, faults, crashes>>

(* The provider answers, perhaps with actions, or it fails. *)
Chat(q) ==
  /\ Is(q, "chat")
  /\ \/ /\ \E requested \in Requested : Perform(requests[q].mode, requested)
        /\ requests' = [requests EXCEPT ![q].pc = "acting", ![q].mode = Keep,
                                      ![q].call = Len(calls) + 1]
     \/ Proceed(q, "fail") /\ UNCHANGED calls
  /\ UNCHANGED <<tasks, tables, approvalVars, arrived, faults, crashes>>

(* Mutant: execute() is not awaited. *)
Answer_Early(q) ==
  /\ Is(q, "acting") /\ Proceed(q, "complete")
  /\ UNCHANGED <<tasks, faults>> /\ Elsewhere

(* Mutant: only an answer whose actions all succeeded is one. *)
Answer_Strict(q) ==
  /\ Is(q, "acting") /\ Ended(requests[q].call)
  /\ \A n \in DOMAIN calls[requests[q].call].results :
       calls[requests[q].call].results[n] # "failed"
  /\ Proceed(q, "complete")
  /\ UNCHANGED <<tasks, faults>> /\ Elsewhere

(* The actions have their results, and chat() returns them, unless one of   *)
(* its last statements throws.                                              *)
Answer(q) ==
  /\ Is(q, "acting") /\ Ended(requests[q].call)
  /\ \/ Proceed(q, "complete") /\ UNCHANGED faults
     \/ Fault /\ Proceed(q, "fail")
  /\ UNCHANGED tasks /\ Elsewhere

Complete(q) ==
  /\ Is(q, "complete")
  /\ \/ /\ tasks' = [tasks EXCEPT ![requests[q].task].status = "completed",
                                  ![requests[q].task].output = requests[q].call]
        /\ Return(q) /\ UNCHANGED faults
     \/ Fault /\ Proceed(q, "fail") /\ UNCHANGED tasks
  /\ Elsewhere

(* The catch block. *)
Fail(q) ==
  /\ Is(q, "fail") /\ Return(q)
  /\ \/ Write(q, "failed") /\ UNCHANGED faults
     \/ Fault /\ UNCHANGED tasks
  /\ Elsewhere

Run(q) == \/ Throws(q) \/ FinishUpdate(q) \/ FinishCancel(q) \/ Requeue(q)
          \/ ReadTask(q) \/ MarkRunning(q) \/ Chat(q) \/ Answer(q)
          \/ Complete(q) \/ Fail(q)

-----------------------------------------------------------------------------

(* The process ends and starts again; no code takes up what it left. *)
Crash ==
  /\ faults + crashes < MaxFaults /\ crashes' = crashes + 1
  /\ requests' = [q \in DOMAIN requests |->
                    [requests[q] EXCEPT !.pc = "over", !.mode = Keep, !.runNow = FALSE]]
  /\ CallsLost /\ ReviewsLost
  /\ UNCHANGED <<tasks, tables, approvals, decisions, arrived, faults>>

(* The agents' actions go on beside everything else. *)
ActFor(c) == Act(c) /\ UNCHANGED <<taskVars, reviews, decisions, arrived, crashes>>

Next ==
  \/ \E t \in Tasks : Client(t) /\ UNCHANGED <<actionVars, approvalVars, faults, crashes>>
  \/ \E q \in DOMAIN requests : Run(q)
  \/ \E c \in DOMAIN calls : ActFor(c)
  \/ Clients /\ UNCHANGED <<taskVars, actionVars, crashes>>
  \/ \E r \in DOMAIN reviews : Review(r) /\ UNCHANGED <<taskVars, actionVars, arrived, crashes>>
  \/ Crash

Spec == Init /\ [][Next]_vars

(* What has been awaited returns: statements, the provider's answers or     *)
(* their time-outs, the actions of a call.                                  *)
FairSpec ==
  /\ Spec
  /\ \A q \in 1..MaxCalls : WF_vars(q \in DOMAIN requests /\ Run(q))
  /\ \A c \in 1..MaxCalls :
       WF_vars(c \in DOMAIN calls /\ ActFor(c))

-----------------------------------------------------------------------------
(* Properties *)

TaskRow == [status : {"none", "queued", "running", "completed", "failed", "cancelled"},
            mode : Modes, output : Nat]
RequestCall == [task : Tasks,
                pc : {"read", "update", "cancel", "requeue", "mark", "chat", "acting",
                      "complete", "fail", "over"},
                mode : Modes \cup {Keep}, runNow : BOOLEAN, call : Nat]

TypeOK ==
  /\ ApprovalType /\ ActionsType
  /\ tasks \in [Tasks -> TaskRow] /\ requests \in Seq(RequestCall)
  /\ \A q \in DOMAIN requests :
       Is(q, "acting") \/ Is(q, "complete") => requests[q].call \in DOMAIN calls

(* Executions of t under way. *)
Executing(t) == { q \in DOMAIN requests :
                    /\ requests[q].task = t
                    /\ requests[q].pc \in {"chat", "acting", "complete", "fail"} }

(* Requests that may still write the status of t. *)
Writing(t) == Executing(t) \cup
  { q \in DOMAIN requests : /\ requests[q].task = t
                            /\ requests[q].pc \in {"cancel", "requeue", "mark"} }

(* A task shown as running is being executed, however its runs, retries and *)
(* cancellations overlap; only a failing statement or the end of the        *)
(* process leaves one that nobody executes.                                 *)
RunningIsExecuted ==
  faults = 0 /\ crashes = 0 =>
    \A t \in Tasks : tasks[t].status = "running" => Executing(t) # {}

(* "Completed output always contains .. actions" (docs/CUSTOMER_MVP_FE_     *)
(* INTEGRATION.md:184): those of an execution of this task, with their      *)
(* final results.                                                           *)
OutputIsFinal ==
  \A t \in Tasks : tasks[t].status = "completed" =>
    \E q \in DOMAIN requests :
      /\ requests[q].task = t /\ requests[q].call = tasks[t].output
      /\ tasks[t].output \in DOMAIN calls /\ Ended(tasks[t].output)

Completed(t, c) ==
  tasks[t].status = "completed" /\ tasks[t].output = c /\ Writing(t) = {}

(* "AI task has already completed" (ai-task.service.ts:90), as far as the   *)
(* code ensures it: once no request that read the row before may still      *)
(* write it, the status and the output stay.                                *)
CompletionStands ==
  [][\A t \in Tasks, c \in DOMAIN calls : Completed(t, c) => Completed(t, c)']_vars

(* A running task comes to its end, also when its client has gone away. *)
EveryTaskSettles ==
  \A t \in Tasks :
    tasks[t].status = "running" ~>
      tasks[t].status # "running" \/ faults > 0 \/ crashes > 0
=============================================================================
