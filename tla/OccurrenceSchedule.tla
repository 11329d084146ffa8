-------------------------- MODULE OccurrenceSchedule --------------------------
(***************************************************************************)
(* What the scheduler of src/src/automation/automation.service.ts promises *)
(* of the automations nobody edits: every automation has a cursor, the     *)
(* next occurrence of its trigger, and the ledger of the occurrences that  *)
(* were fired.  Firing enters the cursor in the ledger and moves it on, in *)
(* one step.  The code does it in two statements with crashes between      *)
(* them; module Automation implements this one.                            *)
(***************************************************************************)
EXTENDS Integers

CONSTANT Automations

Never == -1

VARIABLES
  cursor, \* next occurrence, Never when there is none
  step,   \* distance between occurrences
  fired   \* occurrences <<automation, date>> that have a run
vars == <<cursor, step, fired>>

Init == /\ cursor = [a \in Automations |-> Never]
        /\ step = [a \in Automations |-> 0]
        /\ fired = {}

(* A new automation starts with a first occurrence or with none. *)
Begin(a) ==
  /\ cursor[a] = Never
  /\ cursor'[a] \in {Never} \cup Nat /\ step'[a] \in Nat
  /\ cursor' = [cursor EXCEPT ![a] = cursor'[a]]
  /\ step' = [step EXCEPT ![a] = step'[a]]
  /\ UNCHANGED fired

Fire(a) ==
  /\ cursor[a] # Never
  /\ fired' = fired \cup {<<a, cursor[a]>>}
  /\ cursor' = [cursor EXCEPT ![a] = @ + step[a]]
  /\ UNCHANGED step

Next == \E a \in Automations : Fire(a) \/ Begin(a)

Spec == Init /\ [][Next]_vars

TypeOK == /\ cursor \in [Automations -> {Never} \cup Nat]
          /\ step \in [Automations -> Nat]
          /\ fired \subseteq Automations \X Nat

(* The ledger has no gap: once an automation fired, the occurrence before   *)
(* its cursor has fired, and so has the one before any but the earliest.    *)
NoGap ==
  \A x \in fired :
    /\ x[2] <= cursor[x[1]]
    /\ <<x[1], cursor[x[1]] - step[x[1]]>> \in fired
    /\ \A y \in fired : y[1] = x[1] /\ x[2] < y[2] => <<y[1], y[2] - step[y[1]]>> \in fired
=============================================================================
