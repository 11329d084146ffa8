---------------------------- MODULE ProjectDemo ----------------------------
(***************************************************************************)
(* src/src/project/project.service.ts, and the demo data that              *)
(* project-demo.service.ts and project-demo-crm.ts insert into a project:  *)
(* one transaction that locks the project's row, fills the tables of the   *)
(* CRM, of finance and of work, and records in the project's settings what *)
(* it has created.  The statements of the transaction appear together with *)
(* its commit.  The public endpoint is the owner's one for some owner.     *)
(***************************************************************************)
EXTENDS WorkspaceTables

LOCAL INSTANCE Functions

Locked(p) == \E q \in Requests : At(q, "seed") /\ requests[q].project = p

-----------------------------------------------------------------------------
(* Projects.  A new one has settings {}; the DTOs know no settings. *)
CreateProject(p, links) ==
  /\ projects[p].state = "none" /\ Spend("project")
  /\ projects' = [projects EXCEPT ![p] = [NoProject EXCEPT !.state = "active", !.links = links]]
  /\ UNCHANGED <<pipelines, deals, invoices, accounts, transactions, rows, requests>>

StartUpdate(q, p, kind, after) ==
  /\ projects[p].state # "none"
  /\ Start(q, kind, [Idle EXCEPT !.step = "update", !.project = p,
                                 !.before = projects[p], !.after = after])
  /\ UNCHANGED tables

Update(q, p, state, links) ==
  StartUpdate(q, p, "update", [projects[p] EXCEPT !.state = state, !.links = links])
Archive(q, p) == StartUpdate(q, p, "archive", [projects[p] EXCEPT !.state = "archived"])

(* The columns that differ from what was read are written, once the row is free. *)
FinishUpdate(q) ==
  LET r == requests[q]  p == r.project IN
  /\ At(q, "update") /\ ~Locked(p)
  /\ projects' = [projects EXCEPT
       ![p].state = Column(r.before.state, r.after.state, @),
       ![p].links = (@ \cup (r.after.links \ r.before.links)) \ (r.before.links \ r.after.links)]
  /\ Ends(q)
  /\ UNCHANGED <<pipelines, deals, invoices, accounts, transactions, rows>>

-----------------------------------------------------------------------------
(* What the demo consists of, in cents where it is an amount. *)
One(missing) == IF missing THEN 1 ELSE 0

(* A company, a contact and a deal in a pipeline of its own if the project has none; *)
(* the rest always.                                                                  *)
CustomerRows(links) ==
  [NoRows EXCEPT !["companies"] = One("company" \notin links),
                 !["contacts"] = One("contact" \notin links),
                 !["pipelines"] = One("deal" \notin links), !["deals"] = One("deal" \notin links),
                 !["stages"] = 5 * One("deal" \notin links)]

DemoInvoices == << [total |-> 1500000, paid |-> 1500000], [total |-> 1000000, paid |-> 0] >>
DemoExpenses == <<300000, 600000, 200000>>
DemoBudget == 2000000

(* A paid invoice has a payment and a transaction, an expense has a transaction. *)
Paid == { i \in DOMAIN DemoInvoices : DemoInvoices[i].paid # 0 }
FinanceRows ==
  [NoRows EXCEPT !["accounts"] = 1, !["budgets"] = 1, !["invoices"] = 2, !["invoiceItems"] = 2,
                 !["payments"] = 1, !["transactions"] = 4, !["expenses"] = 3]

WorkRows == [NoRows EXCEPT !["tasks"] = 8, !["taskAssignees"] = 8, !["approvals"] = 2,
                           !["reports"] = 1]

DataRows(links) == Plus(CustomerRows(links), Plus(FinanceRows, WorkRows))

(* seedDemoCrm(): six companies with two contacts, a deal and three activities each *)
CrmRows ==
  [NoRows EXCEPT !["pipelines"] = 1, !["stages"] = 5, !["companies"] = 6, !["contacts"] = 12,
                 !["deals"] = 6, !["crmActivities"] = 18]

(* The figures that the scenario tells the agents. *)
Scenario ==
  [budget |-> 2000000, spending |-> 1100000, remainingBudget |-> 900000,
   forecastAdditionalCost |-> 1100000, forecastFinalCost |-> 2200000,
   forecastOverrun |-> 200000, invoiced |-> 2500000, received |-> 1500000,
   outstanding |-> 1000000, cashBalance |-> 400000]

(* FinanceService.overview(): paid on invoices, expenses, and cleared transactions, *)
(* an expense's counted negative.                                                   *)
SumOf(f) == FoldFunction(+, 0, f)
Overview(sold, spent, earned) ==
  [revenue |-> SumOf([i \in DOMAIN sold |-> sold[i].paid]),
   expenses |-> SumOf(spent), cashBalance |-> SumOf(earned) - SumOf(spent)]

(* The figures are those of the rows, and the rows are as many as are counted. *)
ASSUME ScenarioAddsUp ==
  LET overview == Overview(DemoInvoices, DemoExpenses, [i \in Paid |-> DemoInvoices[i].paid])
      invoiced == SumOf([i \in DOMAIN DemoInvoices |-> DemoInvoices[i].total]) IN
  /\ Scenario.received = overview.revenue /\ Scenario.spending = overview.expenses
  /\ Scenario.cashBalance = overview.cashBalance
  /\ Scenario.invoiced = invoiced /\ Scenario.outstanding = invoiced - overview.revenue
  /\ Scenario.budget = DemoBudget /\ Scenario.remainingBudget = DemoBudget - overview.expenses
  /\ Scenario.forecastFinalCost = overview.expenses + Scenario.forecastAdditionalCost
  /\ Scenario.forecastOverrun = Scenario.forecastFinalCost - DemoBudget
  /\ FinanceRows["invoices"] = Len(DemoInvoices) /\ FinanceRows["expenses"] = Len(DemoExpenses)

DemoPipeline == [default |-> FALSE, stages |-> Names]
DemoDeal(k, name) ==
  [live |-> TRUE, pipeline |-> k, stage |-> [pipeline |-> k, name |-> name],
   status |-> IF name = "lead" THEN "open" ELSE name, loose |-> FALSE]

(* One deal stands for those at the same stage. *)
CustomerDeals(k) == <<DemoDeal(k, "lead")>>
CrmDeals(k) == <<DemoDeal(k, "lead"), DemoDeal(k, "won"), DemoDeal(k, "lost")>>

InvoiceRow(i) ==
  [lines |-> <<[net |-> Unit * DemoInvoices[i].total, tax |-> 0]>>, discount |-> 0,
   total |-> DemoInvoices[i].total, items |-> <<DemoInvoices[i].total>>,
   paid |-> DemoInvoices[i].paid, answered |-> TRUE]

-----------------------------------------------------------------------------
Seeded(p) == projects[p].data # NoRows
Whole(p) == Seeded(p) /\ projects[p].crm # NoRows

Seed(q, p) ==
  Start(q, "seed", [Idle EXCEPT !.step = "seed", !.project = p, !.before = projects[p]])

(* Mutant: the project is read without FOR UPDATE. *)
StartSeed_Unlocked(q, p) ==
  /\ projects[p].state # "none" /\ ~Whole(p)
  /\ Seed(q, p)
  /\ UNCHANGED tables

(* The row is locked, or awaited, and read; with both parts recorded nothing is done. *)
StartSeed(q, p) ==
  /\ projects[p].state # "none" /\ ~Locked(p) /\ ~Whole(p)
  /\ Seed(q, p)
  /\ UNCHANGED tables

(* A project that was seeded before there were CRM data gets only these. *)
CommitSeed(q) ==
  LET p == requests[q].project
      read == requests[q].before
      first == read.data = NoRows
      sales == first /\ "deal" \notin read.links
      k == Len(pipelines) + 1
      made == IF first THEN Plus(DataRows(read.links), CrmRows) ELSE CrmRows IN
  /\ At(q, "seed")
  /\ projects' = [projects EXCEPT
       ![p].data = IF first THEN DataRows(read.links) ELSE read.data,
       ![p].crm = CrmRows,
       ![p].links = IF first THEN Linked ELSE @]
  /\ rows' = [rows EXCEPT ![p] = Plus(@, made)]
  /\ \/ /\ sales
        /\ pipelines' = pipelines \o <<DemoPipeline, DemoPipeline>>
        /\ deals' = deals \o CustomerDeals(k) \o CrmDeals(k + 1)
     \/ /\ ~sales
        /\ pipelines' = Append(pipelines, DemoPipeline)
        /\ deals' = deals \o CrmDeals(k)
  /\ \/ /\ first
        /\ invoices' = invoices \o [i \in DOMAIN DemoInvoices |-> InvoiceRow(i)]
        /\ transactions' = transactions + FinanceRows["transactions"]
     \/ ~first /\ UNCHANGED <<invoices, transactions>>
  /\ Ends(q)
  /\ UNCHANGED accounts

ProjectRequest ==
  \E p \in Projects :
    \/ \E links \in SUBSET Linked : CreateProject(p, links)
    \/ \E q \in Requests :
         \/ StartSeed(q, p) \/ Archive(q, p)
         \/ \E links \in SUBSET Linked : Update(q, p, "active", links)
ProjectStep(q) == FinishUpdate(q) \/ CommitSeed(q)

-----------------------------------------------------------------------------
(* Property *)

(* Seeding is done once and as a whole (project-demo.service.ts: "Demo data        *)
(* already exists."): the demo rows of a project are exactly those that its        *)
(* settings record, however often it is seeded at the same time, updated or        *)
(* archived meanwhile, and wherever the process ends.                              *)
DemoIsWhole == \A p \in Projects : rows[p] = Recorded(p)

=============================================================================
