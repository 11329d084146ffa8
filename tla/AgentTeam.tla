------------------------------ MODULE AgentTeam ------------------------------
(***************************************************************************)
(* One chat request in src/src/ceo-chat/ceo-chat.service.ts: the           *)
(* orchestrators (CEO, Executive) assign specialists who work              *)
(* concurrently, a specialist may consult others one after the other, and  *)
(* all share the request's delegation budget.                              *)
(*                                                                         *)
(* A call of executeDelegation() is an element of the sequence execs, in   *)
(* the order of the calls.  A step is what runs between two awaits: of the *)
(* database, the AI provider, the action service or a child.  What the     *)
(* provider answers is arbitrary; providerRequest() ends with an answer or *)
(* an error, its retries are left out.                                     *)
(***************************************************************************)
EXTENDS Integers, Sequences, FiniteSets, Functions

CONSTANTS
  Assistants, Ceo,
  Orchestrators, \* "ceo" and "executive"
  Budget,        \* executions of one request (8 in the code)
  TopLimit,      \* assignments of the orchestrator (4)
  ChildLimit,    \* assignments of a specialist (2)
  PathLimit,     \* agents along a path (3)
  MaxFaults      \* bound on failing database statements

ASSUME TeamAssumption ==
  /\ Ceo \in Orchestrators /\ Orchestrators \subseteq Assistants
  /\ Budget \in Nat \ {0} /\ TopLimit \in 1..Budget
  /\ ChildLimit \in Nat /\ PathLimit \in Nat \ {0, 1} /\ MaxFaults \in Nat

Modes == {"auto", "suggest"}

VARIABLES
  execs,  \* the executions, with their locals and their row's status
  budget, \* delegationBudget.remaining
  chat,   \* chat(): where it is, the assistant asked and the executionMode
  reply,  \* what the client got
  faults
vars == <<execs, budget, chat, reply, faults>>

(* executeDelegation() as far as its first await; parent 0 is chat(). *)
Opened(a, parent, ancestors, mode) ==
  [agent |-> a, parent |-> parent, path |-> Append(ancestors, a), mode |-> mode,
   phase |-> "opening", row |-> "none", may |-> FALSE, todo |-> <<>>,
   result |-> "none", acted |-> FALSE]

Specialists == Assistants \ {Ceo}

(* Whom the specialist may ask: nobody who is on its path. *)
Available(i) == IF execs[i].may THEN Specialists \ Range(execs[i].path) ELSE {}

(* normalizeDelegations() and slice: up to n different members of s. *)
Assignments(s, n) == { f \in UNION { [1..k -> s] : k \in 0..n } : IsInjective(f) }

(* Mutant: what was found before the provider was asked. *)
MayStart_Stale(i) == execs[i].may

(* budget.remaining > 0 when a child is about to be started. *)
MayStart(i) == budget > 0

Init ==
  /\ execs = <<>> /\ budget = Budget
  /\ chat = [phase |-> "idle", asked |-> Ceo, mode |-> "auto"]
  /\ reply = "none" /\ faults = 0

Fault == faults < MaxFaults /\ faults' = faults + 1

-----------------------------------------------------------------------------
(* chat() *)

(* An orchestrator asks the provider for a plan, a specialist is executed. *)
Ask(a, m) ==
  /\ chat.phase = "idle"
  /\ IF a \in Orchestrators
     THEN /\ chat' = [phase |-> "routing", asked |-> a, mode |-> m]
          /\ UNCHANGED <<execs, budget>>
     ELSE /\ chat' = [phase |-> "waiting", asked |-> a, mode |-> m]
          /\ execs' = <<Opened(a, 0, <<>>, m)>>
          /\ budget' = budget - 1
  /\ UNCHANGED <<reply, faults>>

Answer(r) == reply' = IF reply = "none" THEN r ELSE reply

(* The plan: the assignments are all started before any of them proceeds,   *)
(* with none of them the orchestrator's own answer is the reply.            *)
Route ==
  /\ chat.phase = "routing"
  /\ \/ \E plan \in Assignments(Specialists \ {chat.asked}, TopLimit) :
          /\ plan # <<>>
          /\ execs' = [n \in 1..Len(plan) |->
                         Opened(plan[n], 0, <<chat.asked>>, chat.mode)]
          /\ budget' = budget - Len(plan)
          /\ chat' = [chat EXCEPT !.phase = "waiting"]
          /\ UNCHANGED reply
     \/ /\ chat' = [chat EXCEPT !.phase = "done"]
        /\ Answer("answer") \/ Answer("error")
        /\ UNCHANGED <<execs, budget>>
  /\ UNCHANGED faults

Over(i) == execs[i].phase = "over"
Top == { i \in DOMAIN execs : execs[i].parent = 0 }

(* Promise.all rejects with the first of its promises; the others run on. *)
Reject ==
  /\ chat.phase = "waiting"
  /\ \E i \in Top : execs[i].result = "rejected"
  /\ chat' = [chat EXCEPT !.phase = "done"]
  /\ Answer("error")
  /\ UNCHANGED <<execs, budget, faults>>

Returned(i) == execs[i].result \in {"completed", "failed"}

(* Mutant: without the results of the children. *)
Flattened_Top == { i \in Top : Returned(i) }

(* flattenDelegations(): the results that reached chat() up the tree. *)
Flattened ==
  LET Reached[i \in DOMAIN execs] ==
        Returned(i) /\ (execs[i].parent # 0 => Reached[execs[i].parent])
  IN { i \in DOMAIN execs : Reached[i] }

(* All have returned: the synthesis, and the reply, an error if every       *)
(* execution failed.  A failing synthesis is replaced by the results.       *)
Join ==
  /\ chat.phase = "waiting"
  /\ \A i \in Top : Returned(i)
  /\ chat' = [chat EXCEPT !.phase = "done"]
  /\ \/ /\ IF \A i \in Flattened : execs[i].result = "failed"
           THEN Answer("error") ELSE Answer("answer")
        /\ UNCHANGED faults
     \/ Fault /\ Answer("error")
  /\ UNCHANGED <<execs, budget>>

(* RequestTimeoutInterceptor: the client is answered, chat() goes on. *)
TimeOut ==
  /\ chat.phase \in {"routing", "waiting"}
  /\ reply = "none" /\ reply' = "timeout"
  /\ UNCHANGED <<execs, budget, chat, faults>>

-----------------------------------------------------------------------------
(* executeDelegation() *)

Set(i, e) == execs' = [execs EXCEPT ![i] = e]
Goes(i, p) == [execs[i] EXCEPT !.phase = p]

(* The agent, its team and the row exist; whether others may be asked is    *)
(* decided now.  A failing statement here is not in the try block.          *)
Register(i) ==
  /\ execs[i].phase = "opening"
  /\ \/ /\ Set(i, [Goes(i, "asking") EXCEPT
                     !.row = "running",
                     !.may = Len(execs[i].path) < PathLimit /\ budget > 0])
        /\ UNCHANGED faults
     \/ Fault /\ Set(i, [Goes(i, "over") EXCEPT !.result = "rejected"])
  /\ UNCHANGED <<budget, chat, reply>>

(* The loop over the requested children, up to its next await. *)
NextChild(i, todo) ==
  /\ todo # <<>> /\ MayStart(i)
  /\ execs' = Append([execs EXCEPT ![i] = [Goes(i, "waiting") EXCEPT !.todo = Tail(todo)]],
                     Opened(Head(todo), i, execs[i].path, execs[i].mode))
  /\ budget' = budget - 1

(* The specialist answers, perhaps with requests for help, or fails. *)
Consult(i) ==
  /\ execs[i].phase = "asking"
  /\ \/ \E todo \in Assignments(Available(i), ChildLimit) :
          IF todo # <<>> /\ MayStart(i)
          THEN NextChild(i, todo)
          ELSE Set(i, Goes(i, "acting")) /\ UNCHANGED budget
     \/ Set(i, Goes(i, "failing")) /\ UNCHANGED budget
  /\ UNCHANGED <<chat, reply, faults>>

Child(i, c) == /\ execs[c].parent = i
               /\ \A d \in DOMAIN execs : execs[d].parent = i => d <= c

(* Mutant: the child's promise is not awaited. *)
Resume_Eager(i) ==
  /\ execs[i].phase = "waiting"
  /\ IF execs[i].todo # <<>> /\ MayStart(i)
     THEN NextChild(i, execs[i].todo)
     ELSE Set(i, Goes(i, "concluding")) /\ UNCHANGED budget
  /\ UNCHANGED <<chat, reply, faults>>

(* Mutant: nobody handles the child's rejection. *)
Resume_Hangs(i) ==
  /\ execs[i].phase = "waiting"
  /\ \E c \in DOMAIN execs : Child(i, c) /\ Returned(c)
  /\ IF execs[i].todo # <<>> /\ MayStart(i)
     THEN NextChild(i, execs[i].todo)
     ELSE Set(i, Goes(i, "concluding")) /\ UNCHANGED budget
  /\ UNCHANGED <<chat, reply, faults>>

(* The awaited child is over: its rejection is caught; otherwise the next   *)
(* child, or with all results the specialist is asked again.                *)
Resume(i) ==
  /\ execs[i].phase = "waiting"
  /\ \E c \in DOMAIN execs :
       /\ Child(i, c) /\ Over(c)
       /\ IF execs[c].result = "rejected"
          THEN Set(i, Goes(i, "failing")) /\ UNCHANGED budget
          ELSE IF execs[i].todo # <<>> /\ MayStart(i)
               THEN NextChild(i, execs[i].todo)
               ELSE Set(i, Goes(i, "concluding")) /\ UNCHANGED budget
  /\ UNCHANGED <<chat, reply, faults>>

Conclude(i) ==
  /\ execs[i].phase = "concluding"
  /\ Set(i, Goes(i, "acting")) \/ Set(i, Goes(i, "failing"))
  /\ UNCHANGED <<budget, chat, reply, faults>>

(* AgentActionService.execute(): it catches what its actions throw; in      *)
(* suggest mode nothing is performed.                                       *)
Act(i) ==
  /\ execs[i].phase = "acting"
  /\ \E some \in BOOLEAN :
       Set(i, [Goes(i, "saving") EXCEPT !.acted = some /\ execs[i].mode = "auto"])
  /\ UNCHANGED <<budget, chat, reply, faults>>

(* Mutant: a status delegations do not have. *)
Finished_Done(i, r) == [Goes(i, "over") EXCEPT !.row = "done", !.result = r]

Finished(i, r) == [Goes(i, "over") EXCEPT !.row = r, !.result = r]

Save(i) ==
  /\ execs[i].phase = "saving"
  /\ \/ Set(i, Finished(i, "completed")) /\ UNCHANGED faults
     \/ Fault /\ Set(i, Goes(i, "failing"))
  /\ UNCHANGED <<budget, chat, reply>>

(* Mutant: the result says failed, the row is forgotten. *)
SaveFailure_NoRow(i) ==
  /\ execs[i].phase = "failing"
  /\ Set(i, [Goes(i, "over") EXCEPT !.result = "failed"])
  /\ UNCHANGED <<budget, chat, reply, faults>>

(* The catch block; when its own statement fails the promise is rejected. *)
SaveFailure(i) ==
  /\ execs[i].phase = "failing"
  /\ \/ Set(i, Finished(i, "failed")) /\ UNCHANGED faults
     \/ Fault /\ Set(i, [Goes(i, "over") EXCEPT !.result = "rejected"])
  /\ UNCHANGED <<budget, chat, reply>>

Execute(i) == \/ Register(i) \/ Consult(i) \/ Resume(i) \/ Conclude(i)
              \/ Act(i) \/ Save(i) \/ SaveFailure(i)

-----------------------------------------------------------------------------
(* The process ends: nothing takes the request up again. *)
Crash ==
  /\ chat.phase # "idle" /\ chat.phase # "lost"
  /\ chat' = [chat EXCEPT !.phase = "lost"]
  /\ execs' = [i \in DOMAIN execs |-> IF Over(i) THEN execs[i] ELSE Goes(i, "lost")]
  /\ UNCHANGED <<budget, reply, faults>>

Chat == Route \/ Reject \/ Join

Next == \/ \E a \in Assistants, m \in Modes : Ask(a, m)
        \/ Chat \/ (\E i \in DOMAIN execs : Execute(i))
        \/ TimeOut \/ Crash

Spec == Init /\ [][Next]_vars

(* Awaited statements return, and the provider's answers or their time-outs *)
(* arrive.                                                                  *)
FairSpec == Spec /\ WF_vars(Chat) /\ WF_vars(\E i \in DOMAIN execs : Execute(i))

-----------------------------------------------------------------------------
(* Properties *)

Phases == {"opening", "asking", "waiting", "concluding", "acting", "saving",
           "failing", "over", "lost"}

Exec == [agent : Assistants, parent : Nat, path : Seq(Assistants), mode : Modes,
         phase : Phases, row : {"none", "running", "completed", "failed"},
         may : BOOLEAN, todo : Seq(Assistants),
         result : {"none", "completed", "failed", "rejected"}, acted : BOOLEAN]

(* Every variable has its type and an execution is younger than the one     *)
(* that asked for it.                                                       *)
TypeOK ==
  /\ execs \in Seq(Exec)
  /\ \A i \in DOMAIN execs : execs[i].parent < i
  /\ budget \in Int
  /\ chat \in [phase : {"idle", "routing", "waiting", "done", "lost"},
               asked : Assistants, mode : Modes]
  /\ reply \in {"none", "answer", "error", "timeout"} /\ faults \in Nat

(* Who an execution works for, down from the orchestrator, and itself. *)
Ancestry(i) ==
  IF execs[i].parent # 0 THEN execs[execs[i].parent].path
  ELSE IF chat.asked \in Orchestrators THEN <<chat.asked>> ELSE <<>>

(* "Maximum eight agent executions per request and three agents along a path.  *)
(* Ancestors cannot be called again", although the specialists that spend the  *)
(* budget run concurrently and ask for others on what they found before: no    *)
(* execution starts without its share, the budget is never overdrawn, and the  *)
(* path on which an execution decides whom to ask is the one it was called on, *)
(* with nobody on it twice.                                                    *)
LimitsKept ==
  /\ Len(execs) + budget = Budget /\ budget >= 0
  /\ \A i \in DOMAIN execs :
       /\ execs[i].path = Append(Ancestry(i), execs[i].agent)
       /\ IsInjective(execs[i].path) /\ Len(execs[i].path) <= PathLimit

(* "Child results are returned to the assigning agent before its final      *)
(* actions run": an execution that concludes, acts or settles has nobody    *)
(* working for it any more.                                                 *)
HelpersFirst ==
  \A i, j \in DOMAIN execs :
    execs[j].parent = i /\ execs[i].phase \notin {"waiting", "lost"} => Over(j)

(* A client that gets an answer gets it when all is over: no execution of      *)
(* its request is still consulting or about to act.  A client that is told the *)
(* request failed may send it again: unless a statement failed, nothing was    *)
(* done for it, by helpers of failed executions neither.                       *)
ReplyIsTrue ==
  /\ reply = "answer" => \A i \in DOMAIN execs : Over(i)
  /\ reply = "error" /\ faults = 0 => \A i \in DOMAIN execs : ~execs[i].acted

(* The delegation shown as running is running, unless the process ended or  *)
(* a statement failed: an execution that is over left its verdict.          *)
RowsSettle ==
  faults = 0 => \A i \in DOMAIN execs :
    /\ Over(i) => execs[i].row = execs[i].result
    /\ execs[i].phase \notin {"opening", "over", "lost"} => execs[i].row = "running"

(* Every request ends, and so does every execution, also those that a       *)
(* rejected or timed-out request leaves behind.                             *)
EverythingEnds ==
  /\ chat.phase \in {"routing", "waiting"} ~> chat.phase \in {"done", "lost"}
  /\ \A i \in 1..Budget :
       i \in DOMAIN execs ~> i \in DOMAIN execs /\ execs[i].phase \in {"over", "lost"}
=============================================================================
