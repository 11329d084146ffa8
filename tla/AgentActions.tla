---------------------------- MODULE AgentActions ----------------------------
(***************************************************************************)
(* AgentActionService.execute() of                                         *)
(* src/src/ceo-chat/agent-action.service.ts: the actions an agent asked    *)
(* for are performed one after the other, each by several statements, and  *)
(* what one of them throws becomes its result.                             *)
(*                                                                         *)
(* Of the six types two differ in their statements: an invoice is created  *)
(* together with its items in a transaction, an approval is created and    *)
(* announced.  The other four, "record" here, insert one row.              *)
(***************************************************************************)
EXTENDS Approval, Functions

CONSTANTS
  MaxActions,  \* actions of one call (6 in the code)
  TotalActions \* bound on the actions of all calls together
ASSUME ActionsAssumption == MaxActions \in Nat /\ TotalActions \in Nat

VARIABLES
  calls,   \* calls of execute(): actions left, place in the first, results
  records, \* rows created, with the action they were created for
  items,   \* invoices whose items exist
  notices, \* approvals that were announced
  logs     \* audit rows
actionVars == <<calls, records, items, notices, logs>>
tables == <<records, items, notices, logs>>

Kinds == {"record", "invoice", "approval"}

(* How many actions the calls were given. *)
Given == FoldFunction(LAMBDA call, sum : Len(call.todo) + Len(call.results) + sum, 0, calls)

(* slice(0, 6) of what the agent asked for. *)
Requested == UNION { [1..n -> Kinds] : n \in { m \in 0..MaxActions : m + Given <= TotalActions } }

ActionsInit == /\ calls = <<>> /\ records = {} /\ items = {}
               /\ notices = {} /\ logs = {}

(* Suggest mode: no statement; an action that may not be run or whose       *)
(* payload is malformed has failed.                                         *)
Preview(requested) ==
  \E results \in [DOMAIN requested -> {"proposed", "failed"}] :
    calls' = Append(calls, [todo |-> <<>>, stage |-> "check", results |-> results])

Begin(requested) ==
  calls' = Append(calls, [todo |-> requested, stage |-> "check", results |-> <<>>])

Perform(mode, requested) == IF mode = "suggest" THEN Preview(requested) ELSE Begin(requested)

Ended(c) == calls[c].todo = <<>>

(* The action that c performs, named by the call and its position. *)
Current(c) == <<c, Len(calls[c].results) + 1>>
Insert(c, kind) == records' = records \cup {[action |-> Current(c), kind |-> kind]}

At(c, stage) == ~Ended(c) /\ calls[c].stage = stage
AtKind(c, stage, kind) == At(c, stage) /\ Head(calls[c].todo) = kind

Reach(c, stage) == calls' = [calls EXCEPT ![c].stage = stage]
Result(c, verdict) ==
  calls' = [calls EXCEPT ![c] = [todo |-> Tail(@.todo), stage |-> "check",
                                 results |-> Append(@.results, verdict)]]

(* A check throws: not allowed, payload, ids of other organizations. *)
Refuse(c) ==
  /\ At(c, "check")
  /\ Result(c, "failed")
  /\ UNCHANGED <<tables, approvals, faults>>

(* A statement of the action throws. *)
Throw(c) == Fault /\ Result(c, "failed") /\ UNCHANGED <<tables, approvals>>

(* Mutant: the result is that of the insert, the audit is skipped. *)
CreateRecord_Unaudited(c) ==
  /\ AtKind(c, "check", "record")
  /\ Insert(c, "record") /\ Result(c, "executed")
  /\ UNCHANGED <<items, notices, logs, approvals, faults>>

CreateRecord(c) ==
  /\ AtKind(c, "check", "record")
  /\ \/ /\ Insert(c, "record") /\ Reach(c, "audit")
        /\ UNCHANGED <<items, notices, logs, approvals, faults>>
     \/ Throw(c)

(* Mutant: the invoice is created without { transaction }. *)
CreateInvoice_Outside(c) ==
  /\ AtKind(c, "check", "invoice")
  /\ Insert(c, "invoice") /\ Reach(c, "items")
  /\ UNCHANGED <<items, notices, logs, approvals, faults>>

(* Within the transaction nobody sees the invoice. *)
CreateInvoice(c) ==
  /\ AtKind(c, "check", "invoice")
  /\ \/ Reach(c, "items") /\ UNCHANGED <<tables, approvals, faults>>
     \/ Throw(c)

(* The items are inserted and the transaction commits, or it rolls back. *)
CommitInvoice(c) ==
  /\ At(c, "items")
  /\ \/ /\ Insert(c, "invoice") /\ items' = items \cup {Current(c)}
        /\ Reach(c, "audit")
        /\ UNCHANGED <<notices, logs, approvals, faults>>
     \/ Throw(c)

RequestApproval(c) ==
  /\ AtKind(c, "check", "approval")
  /\ \/ /\ Insert(c, "approval") /\ Reach(c, "notify")
        /\ approvals' = Append(approvals, Row(Agent))
        /\ UNCHANGED <<items, notices, logs, faults>>
     \/ Throw(c)

Notify(c) ==
  /\ At(c, "notify")
  /\ \/ /\ notices' = notices \cup {Current(c)} /\ Reach(c, "audit")
        /\ UNCHANGED <<records, items, logs, approvals, faults>>
     \/ Throw(c)

(* The audit row, then the result. *)
AuditAction(c) ==
  /\ At(c, "audit")
  /\ \/ /\ logs' = logs \cup {Current(c)} /\ Result(c, "executed")
        /\ UNCHANGED <<records, items, notices, approvals, faults>>
     \/ Throw(c)

Act(c) == \/ Refuse(c) \/ CreateRecord(c) \/ CreateInvoice(c) \/ CommitInvoice(c)
          \/ RequestApproval(c) \/ Notify(c) \/ AuditAction(c)

(* The process has ended: the calls are gone, their transactions rolled back. *)
CallsLost == calls' = [c \in DOMAIN calls |-> [calls[c] EXCEPT !.todo = <<>>]]

-----------------------------------------------------------------------------
(* Properties *)

Actions == Nat \X Nat
Call == [todo : Seq(Kinds), stage : {"check", "items", "notify", "audit"},
         results : Seq({"proposed", "executed", "failed"})]

ActionsType ==
  /\ calls \in Seq(Call)
  /\ records \subseteq [action : Actions, kind : Kinds]
  /\ items \subseteq Actions /\ notices \subseteq Actions /\ logs \subseteq Actions

(* "Every executed action creates an audit log" (AI_ORCHESTRATION.md:131),  *)
(* and the log names what exists: the row of the action, and the            *)
(* notification if it asks for an approval.                                 *)
ExecutedIsAudited ==
  /\ \A c \in DOMAIN calls : \A n \in DOMAIN calls[c].results :
       calls[c].results[n] = "executed" => <<c, n>> \in logs
  /\ \A l \in logs : \E x \in records :
       x.action = l /\ (x.kind = "approval" => l \in notices)

(* An invoice that can be seen has its items, whatever fails or ends. *)
InvoiceIsWhole == \A x \in records : x.kind = "invoice" => x.action \in items
=============================================================================
