SPECIFICATION Spec
CONSTANTS
  Projects = {p1}
  None = none
  Requests = {q1, q2, q3}
  Unit = 10
  Scenarios <- Cases
  Bodies <- Invoicing
  Amounts <- Payments
SYMMETRY Symmetric
INVARIANTS
  TypeOK
  DemoIsWhole
  InvoiceAddsUp
  DealIsSound
CHECK_DEADLOCK FALSE
