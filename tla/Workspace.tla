----------------------------- MODULE Workspace -----------------------------
(* The records of an organization together: a demo seed puts pipelines, deals *)
(* and invoices into the tables that the CRM and finance requests work on.    *)
EXTENDS Crm, Finance, ProjectDemo

Next ==
  \/ CrmRequest \/ ProjectRequest
  \/ \E q \in Requests :
       \/ FinanceRequest(q) \/ CrmStep(q) \/ FinanceStep(q) \/ ProjectStep(q)
       \/ StatementFails(q)
  \/ Crash
Spec == Init /\ [][Next]_vars

(* The rows have their types, and references lead to rows. *)
TypeOK ==
  /\ pipelines \in Seq(Pipeline) /\ deals \in Seq(Deal) /\ invoices \in Seq(Invoice)
  /\ accounts \in Nat /\ transactions \in Nat
  /\ projects \in [Projects -> Project] /\ rows \in [Projects -> Counts]
  /\ requests \in [Requests -> Request] /\ budget \in [Kinds -> Nat]
  /\ \A i \in DOMAIN deals : deals[i].pipeline \in DOMAIN pipelines
=============================================================================
