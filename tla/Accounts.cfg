SPECIFICATION Spec
CONSTANTS
  Emails = {ann, bob}
  None = none
  Requests = {q1, q2, q3}
  Budgets <- Scenarios
  MaxTokens = 4
  MaxResets = 2
  MaxInvitations = 2
  MaxLinks = 4
SYMMETRY Symmetric
INVARIANTS
  TypeOK
  LinkUsedOnce
  ReplacedIsRevoked
  ResetEndsSessions
PROPERTIES
  AcceptanceStands
CHECK_DEADLOCK FALSE
