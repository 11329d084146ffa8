---------------------------- MODULE MCWorkspace ----------------------------
(* What the clients of Workspace send, in six scenarios. *)
EXTENDS Workspace, TLC

Nothing == [k \in Kinds |-> 0]
New == [p \in Projects |-> NoProject]
(* Projects that an earlier version has seeded, or nobody yet. *)
Old == [p \in Projects |-> [NoProject EXCEPT !.state = "active", !.links = Linked,
                                             !.data = DataRows({"company"})]]

(* Projects are created, changed and archived while several requests seed them. *)
Seeding == [Nothing EXCEPT !["project"] = 1, !["update"] = 1, !["archive"] = 1, !["seed"] = 3,
                           !["transaction"] = 1, !["fault"] = 1]
(* Deals of a demo are edited, moved and removed at once. *)
Selling == [Nothing EXCEPT !["seed"] = 1, !["edit"] = 1, !["move"] = 1, !["remove"] = 1,
                           !["fault"] = 1]
(* A deal is created where there are two pipelines. *)
Entering == [Nothing EXCEPT !["seed"] = 1, !["create"] = 1, !["edit"] = 1]
(* Several requests find no default pipeline. *)
Opening == [Nothing EXCEPT !["list"] = 1, !["create"] = 2, !["move"] = 1, !["fault"] = 1]
(* Invoices are created and paid. *)
Billing == [Nothing EXCEPT !["invoice"] = 2, !["pay"] = 2, !["transaction"] = 2, !["fault"] = 1]

Cases == {[budget |-> Seeding, projects |-> New], [budget |-> Seeding, projects |-> Old],
          [budget |-> Selling, projects |-> Old], [budget |-> Entering, projects |-> Old],
          [budget |-> Opening, projects |-> New], [budget |-> Billing, projects |-> New]}

(* In tenths of a cent: amounts that are rounded up, down and from the half, in   *)
(* sums that are rounded the other way; taxed or not; a negative line and a       *)
(* negative discount, and a discount that exceeds the invoice.                    *)
Invoicing == {[lines |-> <<[net |-> 300, tax |-> 45], [net |-> 4, tax |-> 1]>>, discount |-> 0],
              [lines |-> <<[net |-> 4, tax |-> 0], [net |-> 4, tax |-> 0], [net |-> 3, tax |-> 1]>>,
               discount |-> 6],
              [lines |-> <<[net |-> -15, tax |-> -1], [net |-> 25, tax |-> 0]>>, discount |-> -5],
              [lines |-> <<>>, discount |-> 24]}
Payments == {-10, 0, 4, 15, 352}
Symmetric == Permutations(Requests)
=============================================================================
