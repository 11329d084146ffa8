------------------------------ MODULE Finance ------------------------------
(***************************************************************************)
(* src/src/finance/finance.service.ts: invoices with their items, payments *)
(* and transactions.  No transaction spans their statements.               *)
(***************************************************************************)
EXTENDS WorkspaceTables

CONSTANTS Bodies,   \* invoices that clients send: [lines |-> .., discount |-> ..]
          Amounts   \* and what they say has been paid

Records == <<pipelines, deals, projects, rows>>

(* DECIMAL(16, 2): the nearest cent, half a cent is rounded away from zero. *)
Round(amount) == IF amount >= 0 THEN (2 * amount + Unit) \div (2 * Unit)
                                ELSE -((Unit - 2 * amount) \div (2 * Unit))

(* reduce((s, x) => s + .., 0): the sums of the first amounts, and the last of them *)
Sums(amounts) ==
  LET sum[k \in 0..Len(amounts)] == IF k = 0 THEN 0 ELSE sum[k - 1] + amounts[k] IN sum
Total(amounts) == Sums(amounts)[Len(amounts)]

LineTotal(line) == line.net + line.tax
LineTotals(lines) == [k \in DOMAIN lines |-> LineTotal(lines[k])]

(* Bodies come unchecked: quantities, prices, taxes and discounts of any sign. *)
ASSUME FinanceAssumption ==
  Bodies \subseteq [lines : Seq(Line), discount : Int] /\ Amounts \subseteq Int

-----------------------------------------------------------------------------
(* createInvoice(): the row with its totals, then the items one by one. *)
InsertInvoice(q, body) ==
  /\ Start(q, "invoice", [Idle EXCEPT !.step = "invoice", !.row = Len(invoices) + 1])
  /\ invoices' = Append(invoices,
       [lines |-> body.lines, discount |-> Round(body.discount),
        total |-> Round(Total(LineTotals(body.lines)) - body.discount),
        items |-> <<>>, paid |-> 0, answered |-> FALSE])
  /\ UNCHANGED <<accounts, transactions, Records>>

(* Mutant: the tax is left to the totals. *)
AddItem_NoTax(q) ==
  LET i == requests[q].row  next == Len(invoices[i].items) + 1 IN
  /\ At(q, "invoice") /\ next <= Len(invoices[i].lines)
  /\ invoices' = [invoices EXCEPT ![i].items = Append(@, Round(invoices[i].lines[next].net))]
  /\ UNCHANGED <<accounts, transactions, Records, requests, budget>>

AddItem(q) ==
  LET i == requests[q].row  next == Len(invoices[i].items) + 1 IN
  /\ At(q, "invoice") /\ next <= Len(invoices[i].lines)
  /\ invoices' = [invoices EXCEPT ![i].items =
                    Append(@, Round(LineTotal(invoices[i].lines[next])))]
  /\ UNCHANGED <<accounts, transactions, Records, requests, budget>>

AnswerInvoice(q) ==
  LET i == requests[q].row IN
  /\ At(q, "invoice") /\ Len(invoices[i].items) = Len(invoices[i].lines)
  /\ invoices' = [invoices EXCEPT ![i].answered = TRUE]
  /\ Ends(q)
  /\ UNCHANGED <<accounts, transactions, Records>>

(* Mutant: the lower bound is not checked. *)
StartPay_Negative(q, i, amount) ==
  /\ amount <= Unit * invoices[i].total
  /\ Start(q, "pay", [Idle EXCEPT !.step = "pay", !.row = i, !.amount = amount])
  /\ UNCHANGED tables

(* updateInvoice(): "amountPaid must be between zero and the invoice total" *)
StartPay(q, i, amount) ==
  /\ amount >= 0 /\ amount <= Unit * invoices[i].total
  /\ Start(q, "pay", [Idle EXCEPT !.step = "pay", !.row = i, !.amount = amount])
  /\ UNCHANGED tables

FinishPay(q) ==
  LET r == requests[q] IN
  /\ At(q, "pay")
  /\ invoices' = [invoices EXCEPT ![r.row].paid = Round(r.amount)]
  /\ Ends(q)
  /\ UNCHANGED <<accounts, transactions, Records>>

(* createTransaction(): 'Primary Cash' is found or created like the default pipeline. *)
StartTransaction(q) ==
  /\ Start(q, "transaction", [Idle EXCEPT !.step = IF accounts = 0 THEN "account" ELSE "entry"])
  /\ UNCHANGED tables

NewAccount(q) ==
  /\ At(q, "account")
  /\ accounts' = accounts + 1
  /\ Goes(q, [requests[q] EXCEPT !.step = "entry"])
  /\ UNCHANGED <<invoices, transactions, Records>>

InsertTransaction(q) ==
  /\ At(q, "entry")
  /\ transactions' = transactions + 1
  /\ Ends(q)
  /\ UNCHANGED <<invoices, accounts, Records>>

FinanceRequest(q) ==
  \/ \E body \in Bodies : InsertInvoice(q, body)
  \/ \E i \in DOMAIN invoices, amount \in Amounts : StartPay(q, i, amount)
  \/ StartTransaction(q)
FinanceStep(q) ==
  AddItem(q) \/ AnswerInvoice(q) \/ FinishPay(q) \/ NewAccount(q) \/ InsertTransaction(q)

-----------------------------------------------------------------------------
(* Property *)

(* An invoice that createInvoice() or a demo seed has answered with has all its   *)
(* items, and they add up to its total and discount but for half a cent on each   *)
(* of these amounts, rounded one by one; and at most the total is paid, whatever  *)
(* was paid on it while it was being created.                                     *)
InvoiceAddsUp ==
  \A i \in DOMAIN invoices :
    LET invoice == invoices[i]
        n == Len(invoice.lines)
        excess == 2 * (Total(invoice.items) - invoice.total - invoice.discount) IN
    /\ invoice.answered => Len(invoice.items) = n /\ excess \in -(n + 2)..(n + 2)
    /\ invoice.paid = 0 \/ invoice.paid \in 1..invoice.total

=============================================================================
