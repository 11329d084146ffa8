----------------------- MODULE OccurrenceScheduleProofs -----------------------
(* The promise of OccurrenceSchedule: no occurrence is left out. *)
EXTENDS OccurrenceSchedule, TLAPS

USE DEF Never

LEMMA ScheduleTypeStep == TypeOK /\ [Next]_vars => TypeOK'
<1> SUFFICES ASSUME TypeOK, [Next]_vars PROVE TypeOK'
  OBVIOUS
<1> USE DEF TypeOK
<1>1. ASSUME NEW a \in Automations, Begin(a) PROVE TypeOK'
  BY <1>1 DEF Begin
<1>2. ASSUME NEW a \in Automations, Fire(a) PROVE TypeOK'
  <2>1. cursor[a] \in Nat /\ cursor[a] + step[a] \in Nat
    BY <1>2 DEF Fire
  <2>2. QED
    BY <1>2, <2>1 DEF Fire
<1>3. QED
  BY <1>1, <1>2 DEF Next, vars

LEMMA NoGapStep == TypeOK /\ NoGap /\ [Next]_vars => NoGap'
<1> SUFFICES ASSUME TypeOK, NoGap, [Next]_vars PROVE NoGap'
  OBVIOUS
<1>1. \A x \in fired : /\ x[1] \in Automations /\ x[2] \in Nat
                       /\ x[2] <= cursor[x[1]]
                       /\ <<x[1], cursor[x[1]] - step[x[1]]>> \in fired
                       /\ \A y \in fired : y[1] = x[1] /\ x[2] < y[2] =>
                                             <<y[1], y[2] - step[y[1]]>> \in fired
  BY DEF TypeOK, NoGap
<1>2. ASSUME NEW a \in Automations, Begin(a) PROVE NoGap'
  <2>1. \A x \in fired : x[1] # a
    <3>1. cursor[a] = -1
      BY <1>2 DEF Begin
    <3>2. ASSUME NEW x \in fired, x[1] = a PROVE FALSE
      <4>1. x[2] \in Nat /\ x[2] <= cursor[a]
        BY <1>1, <3>2
      <4>2. QED
        BY <3>1, <4>1
    <3>3. QED
      BY <3>2
  <2>2. fired' = fired /\ \A b \in Automations \ {a} : cursor'[b] = cursor[b] /\ step'[b] = step[b]
    BY <1>2 DEF Begin, TypeOK
  <2>3. QED
    BY <1>1, <2>1, <2>2 DEF NoGap
<1>3. ASSUME NEW a \in Automations, Fire(a) PROVE NoGap'
  <2> DEFINE new == <<a, cursor[a]>>
  <2>1. cursor[a] \in Nat /\ step[a] \in Nat /\ new[1] = a /\ new[2] = cursor[a]
    BY <1>3 DEF Fire, TypeOK
  <2>2. /\ fired' = fired \cup {new} /\ step' = step
        /\ cursor'[a] = cursor[a] + step[a]
        /\ \A b \in Automations \ {a} : cursor'[b] = cursor[b]
    BY <1>3 DEF Fire, TypeOK
  <2>3. cursor'[a] - step'[a] = cursor[a]
    BY <2>1, <2>2
  <2> HIDE DEF new
  <2>4. ASSUME NEW x \in fired' PROVE x[2] <= cursor'[x[1]]
    <3>1. CASE x = new
      <4>1. cursor[a] <= cursor'[a]
        BY <2>1, <2>2
      <4>2. QED
        BY <2>1, <3>1, <4>1
    <3>2. CASE x \in fired /\ x[1] = a
      <4>1. x[2] \in Nat /\ x[2] <= cursor[x[1]]
        BY <1>1, <3>2
      <4>2. x[2] <= cursor[a]
        BY <3>2, <4>1
      <4>3. cursor'[a] \in Nat /\ cursor[a] <= cursor'[a]
        BY <2>1, <2>2
      <4>4. x[2] <= cursor'[a]
        BY <2>1, <4>1, <4>2, <4>3
      <4>5. QED
        BY <3>2, <4>4
    <3>3. CASE x \in fired /\ x[1] # a
      BY <1>1, <2>2, <3>3
    <3>4. QED
      BY <2>2, <3>1, <3>2, <3>3
  <2>5. ASSUME NEW x \in fired' PROVE <<x[1], cursor'[x[1]] - step'[x[1]]>> \in fired'
    <3>1. CASE x[1] = a
      BY <2>2, <2>3, <3>1 DEF new
    <3>2. CASE x[1] # a
      BY <1>1, <2>1, <2>2, <3>2
    <3>3. QED
      BY <3>1, <3>2
  <2>6. ASSUME NEW x \in fired', NEW y \in fired', y[1] = x[1], x[2] < y[2]
        PROVE  <<y[1], y[2] - step'[y[1]]>> \in fired'
    <3>1. CASE x \in fired /\ y \in fired
      BY <1>1, <2>2, <2>6, <3>1
    <3>2. CASE x \in fired /\ y = new
      <4>1. x[1] = a /\ <<a, cursor[a] - step[a]>> \in fired
        BY <1>1, <2>1, <2>6, <3>2
      <4>2. QED
        BY <2>1, <2>2, <3>2, <4>1
    <3>3. CASE x = new /\ y \in fired
      <4>1. y[2] <= cursor[a] /\ cursor[a] < y[2] /\ y[2] \in Nat
        BY <1>1, <2>1, <2>6, <3>3
      <4>2. QED
        BY <2>1, <4>1
    <3>4. QED
      BY <2>1, <2>2, <2>6, <3>1, <3>2, <3>3
  <2>7. QED
    BY <2>4, <2>5, <2>6 DEF NoGap
<1>4. CASE UNCHANGED vars
  BY <1>4 DEF NoGap, vars
<1>5. QED
  BY <1>2, <1>3, <1>4 DEF Next

(* What every implementation of the schedule inherits: the fired            *)
(* occurrences of an automation are consecutive, up to its cursor.          *)
THEOREM ScheduleHasNoGap == Spec => [](TypeOK /\ NoGap)
<1>1. Init => TypeOK /\ NoGap
  BY DEF Init, TypeOK, NoGap
<1>2. QED
  BY <1>1, ScheduleTypeStep, NoGapStep, PTL DEF Spec
=============================================================================
