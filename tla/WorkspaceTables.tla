-------------------------- MODULE WorkspaceTables --------------------------
(***************************************************************************)
(* The tables of one organization that CrmService, FinanceService,         *)
(* ProjectService and ProjectDemoService share (models/crm.models.ts,      *)
(* finance.models.ts, work.models.ts), and the requests under way on them. *)
(*                                                                         *)
(* A request is suspended at an await and holds what it has read.  A row's *)
(* id is its place in the table.  Columns that are only stored and shown,  *)
(* and the look-ups of companies, contacts and members, are left out; a    *)
(* request that a check refuses changes nothing and has no step.           *)
(***************************************************************************)
EXTENDS Integers, Sequences

CONSTANTS
  Projects,
  None,
  Requests,   \* slots of requests under way at the same time
  Unit,       \* the fractions of a cent in which the amounts of clients are given
  Scenarios   \* the projects there are, and the requests the clients may send

Kinds == {"list", "create", "edit", "move", "remove", "invoice", "pay", "transaction",
          "project", "update", "archive", "seed", "fault"}

(* One open stage stands for Lead, Qualified, Proposal and Negotiation. *)
Names == {"lead", "won", "lost"}
Stage == [pipeline : Nat, name : Names]
NoStage == [pipeline |-> 0, name |-> "lead"]
Pipeline == [default : BOOLEAN, stages : SUBSET Names]

(* loose: history, the client chose the status or two requests wrote the row at   *)
(* once.  Only stage() takes other statuses.                                      *)
Statuses == {"open", "won", "lost", "other"}
Deal == [live : BOOLEAN, pipeline : Nat, stage : Stage, status : Statuses, loose : BOOLEAN]
NoDeal == [live |-> FALSE, pipeline |-> 0, stage |-> NoStage, status |-> "open", loose |-> FALSE]

(* Amounts that a client sends are in fractions of a cent, Unit of them to the    *)
(* cent, and may be negative; those that a table stores are in cents.             *)
(* answered: the request that creates the invoice has been answered.              *)
Line == [net : Int, tax : Int]
Invoice == [lines : Seq(Line), discount : Int, total : Int, items : Seq(Int),
            paid : Nat, answered : BOOLEAN]

(* data, crm: the counts recorded in settings.demoDataSeed and .demoCrmSeed. *)
RowTypes == {"companies", "contacts", "pipelines", "stages", "deals", "accounts", "budgets",
             "invoices", "invoiceItems", "payments", "transactions", "expenses", "tasks",
             "taskAssignees", "approvals", "reports", "crmActivities"}
Counts == [RowTypes -> Nat]
NoRows == [t \in RowTypes |-> 0]
Linked == {"company", "contact", "deal"}
Project == [state : {"none", "active", "archived"}, links : SUBSET Linked,
            data : Counts, crm : Counts]
NoProject == [state |-> "none", links |-> {}, data |-> NoRows, crm |-> NoRows]

(* The CRM counts have only ever been recorded with the others or after them. *)
ASSUME WorkspaceAssumption ==
  /\ Unit \in Nat \ {0}
  /\ None \notin Projects
  /\ Scenarios \subseteq [budget : [Kinds -> Nat], projects : [Projects -> Project]]
  /\ \A s \in Scenarios, p \in Projects :
       /\ s.projects[p].state = "none" => s.projects[p].data = NoRows
       /\ s.projects[p].data = NoRows => s.projects[p].crm = NoRows

VARIABLES
  pipelines, deals,        \* CRM
  invoices,                \* finance
  accounts, transactions,  \* .. accounts named 'Primary Cash', and transactions
  projects,
  rows,                    \* demo rows of each project that have been committed
  requests,
  budget                   \* requests still to be sent
vars == <<pipelines, deals, invoices, accounts, transactions, projects, rows, requests, budget>>
tables == <<pipelines, deals, invoices, accounts, transactions, projects, rows>>

Steps == {"idle", "find", "new", "ready", "edit", "move", "invoice", "pay", "account",
          "entry", "update", "seed"}
Request == [step : Steps, kind : Kinds \cup {None}, row : Nat, pipeline : Nat, stage : Stage,
            seen : Deal, to : Deal, amount : Int,
            project : Projects \cup {None}, before : Project, after : Project]
Idle == [step |-> "idle", kind |-> None, row |-> 0, pipeline |-> 0, stage |-> NoStage,
         seen |-> NoDeal, to |-> NoDeal, amount |-> 0,
         project |-> None, before |-> NoProject, after |-> NoProject]

Plus(a, b) == [t \in RowTypes |-> a[t] + b[t]]
Recorded(p) == Plus(projects[p].data, projects[p].crm)

(* The other rows of a project that an earlier version has seeded are left out. *)
Init ==
  /\ pipelines = <<>> /\ deals = <<>> /\ invoices = <<>>
  /\ accounts = 0 /\ transactions = 0
  /\ \E s \in Scenarios : projects = s.projects /\ budget = s.budget
  /\ rows = [p \in Projects |-> Recorded(p)]
  /\ requests = [q \in Requests |-> Idle]

-----------------------------------------------------------------------------
At(q, step) == requests[q].step = step
Spend(kind) == budget[kind] > 0 /\ budget' = [budget EXCEPT ![kind] = @ - 1]
Goes(q, r) == requests' = [requests EXCEPT ![q] = r] /\ UNCHANGED budget
Ends(q) == Goes(q, Idle)
Start(q, kind, r) ==
  /\ At(q, "idle") /\ Spend(kind)
  /\ requests' = [requests EXCEPT ![q] = [r EXCEPT !.kind = kind]]

(* Sequelize writes a column only if it differs from what was read. *)
Column(read, written, stored) == IF read = written THEN stored ELSE written

(* A statement fails: the request ends, an open transaction is rolled back. *)
StatementFails(q) ==
  /\ ~At(q, "idle") /\ Spend("fault")
  /\ requests' = [requests EXCEPT ![q] = Idle]
  /\ UNCHANGED tables

Crash ==
  /\ \E q \in Requests : ~At(q, "idle")
  /\ Spend("fault")
  /\ requests' = [q \in Requests |-> Idle]
  /\ UNCHANGED tables

=============================================================================
