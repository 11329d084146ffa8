--------------------------- MODULE AgentTeamProofs ---------------------------
(***************************************************************************)
(* Proofs about AgentTeam for any number of assistants and any limits: the *)
(* types, that the limits of a request are kept, that the rows of its      *)
(* executions are settled with them, that helpers answer before whoever    *)
(* asked them, and that the reply tells what happened.                     *)
(***************************************************************************)
EXTENDS AgentTeam, SequenceTheorems, WellFoundedInduction, TLAPS

(* An execution that works for those in up, and those it may still ask. *)
Fit(e, up) ==
  /\ e \in Exec /\ e.path = Append(up, e.agent)
  /\ IsInjective(e.path) /\ Len(e.path) <= PathLimit
  /\ e.may \/ e.todo # <<>> => Len(e.path) < PathLimit
  /\ \A k \in DOMAIN e.todo : e.todo[k] \notin Range(e.path)

(* What a sequence of executions must be like. *)
Root == IF chat.asked \in Orchestrators THEN <<chat.asked>> ELSE <<>>
Up(s, root, i) == IF s[i].parent # 0 THEN s[s[i].parent].path ELSE root
Tree(s, root) ==
  s \in Seq(Exec) /\ \A i \in DOMAIN s : s[i].parent < i /\ Fit(s[i], Up(s, root, i))

(* A path that is continued by somebody new names nobody twice. *)
LEMMA PathContinued ==
  ASSUME NEW up \in Seq(Assistants), NEW a \in Assistants, IsInjective(up), a \notin Range(up)
  PROVE  /\ Append(up, a) \in Seq(Assistants) /\ IsInjective(Append(up, a))
         /\ Len(Append(up, a)) = Len(up) + 1
<1> DEFINE t == Append(up, a)
<1>1. t \in Seq(Assistants) /\ Len(t) = Len(up) + 1 /\ DOMAIN t = 1..(Len(up) + 1)
  OBVIOUS
<1>2. \A k \in 1..Len(up) : t[k] = up[k] /\ t[k] # a BY DEF Range
<1>3. t[Len(up) + 1] = a /\ Len(up) \in Nat OBVIOUS
<1>4. \A j, k \in 1..Len(up) : up[j] = up[k] => j = k BY DEF IsInjective
<1> HIDE DEF t
<1>5. ASSUME NEW j \in DOMAIN t, NEW k \in DOMAIN t, t[j] = t[k] PROVE j = k
  <2>1. j \in 1..Len(up) \/ j = Len(up) + 1 BY <1>1, <1>3
  <2>2. k \in 1..Len(up) \/ k = Len(up) + 1 BY <1>1, <1>3
  <2> QED BY <1>2, <1>3, <1>4, <1>5, <2>1, <2>2
<1>6. IsInjective(t) BY <1>5 DEF IsInjective
<1> QED BY <1>1, <1>6 DEF t

(* A call of executeDelegation starts as a well-typed execution. *)
LEMMA OpenedFits ==
  ASSUME NEW a \in Assistants, NEW p \in Nat, NEW up \in Seq(Assistants), NEW m \in Modes,
         IsInjective(up), a \notin Range(up), Len(up) < PathLimit, TeamAssumption
  PROVE  Fit(Opened(a, p, up, m), up) /\ Opened(a, p, up, m).parent = p
<1>1. /\ Append(up, a) \in Seq(Assistants) /\ IsInjective(Append(up, a))
      /\ Len(Append(up, a)) = Len(up) + 1
  BY PathContinued
<1>2. <<>> \in Seq(Assistants) /\ DOMAIN <<>> = {} OBVIOUS
<1>3. Len(up) \in Nat /\ PathLimit \in Nat BY DEF TeamAssumption
<1>4. Opened(a, p, up, m) \in Exec BY <1>1, <1>2 DEF Opened, Exec, Phases
<1> HIDE DEF TeamAssumption
<1> QED BY <1>1, <1>2, <1>3, <1>4 DEF Opened, Fit

(* A list of assignments is a sequence of at most n assistants. *)
LEMMA AssignmentsAreSequences ==
  ASSUME NEW S, NEW n \in Nat, NEW f \in Assignments(S, n)
  PROVE  f \in Seq(S) /\ Len(f) <= n
<1>1. PICK k \in 0..n : f \in [1..k -> S] BY DEF Assignments
<1>2. k \in Nat BY <1>1
<1> QED BY <1>1, <1>2

(* A step of an execution changes one element, but no parent and no path. *)
LEMMA SetKeepsTree ==
  ASSUME NEW root, Tree(execs, root), NEW i \in DOMAIN execs, NEW e,
         Fit(e, Up(execs, root, i)), e.parent = execs[i].parent, e.path = execs[i].path
  PROVE  LET s == [execs EXCEPT ![i] = e] IN
         Tree(s, root) /\ Len(s) = Len(execs) /\ DOMAIN s = DOMAIN execs
<1> DEFINE s == [execs EXCEPT ![i] = e]
<1>0. execs \in Seq(Exec) /\ e \in Exec BY DEF Tree, Fit
<1>1. s \in Seq(Exec) /\ Len(s) = Len(execs) /\ DOMAIN s = DOMAIN execs BY <1>0
<1>2. \A j \in DOMAIN s : s[j] = IF j = i THEN e ELSE execs[j] BY <1>0
<1>3. \A j \in DOMAIN s : s[j].parent = execs[j].parent /\ s[j].path = execs[j].path
  BY <1>1, <1>2
<1> HIDE DEF s
<1>4. ASSUME NEW j \in DOMAIN s PROVE s[j].parent < j /\ Fit(s[j], Up(s, root, j))
  <2>1. j \in DOMAIN execs /\ execs[j].parent < j /\ Fit(execs[j], Up(execs, root, j))
    BY <1>1 DEF Tree
  <2>2. execs[j].parent \in Nat BY <2>1 DEF Fit, Exec
  <2>3. j \in Nat /\ j <= Len(execs) /\ DOMAIN execs = 1..Len(execs) BY <1>0, <2>1
  <2>4. execs[j].parent # 0 => execs[j].parent \in DOMAIN s BY <1>0, <1>1, <2>1, <2>2, <2>3
  <2>5. Up(s, root, j) = Up(execs, root, j) BY <1>3, <2>4 DEF Up
  <2>6. s[j].parent < j BY <1>3, <2>1
  <2>7. Fit(s[j], Up(execs, root, j)) BY <1>2, <2>1
  <2> QED BY <2>5, <2>6, <2>7
<1> QED BY <1>1, <1>4 DEF s, Tree

(* A new execution whose parent exists keeps the executions a tree. *)
LEMMA AppendKeepsTree ==
  ASSUME NEW root, NEW s, Tree(s, root), NEW e, e.parent \in DOMAIN s,
         Fit(e, s[e.parent].path)
  PROVE  Tree(Append(s, e), root) /\ Len(Append(s, e)) = Len(s) + 1
<1> DEFINE t == Append(s, e)
<1>0. s \in Seq(Exec) /\ e \in Exec /\ Len(s) \in Nat /\ DOMAIN s = 1..Len(s)
  BY DEF Tree, Fit
<1>1. t \in Seq(Exec) /\ Len(t) = Len(s) + 1 /\ DOMAIN t = 1..(Len(s) + 1) BY <1>0
<1>2. t[Len(s) + 1] = e /\ \A j \in DOMAIN s : t[j] = s[j] BY <1>0
<1> HIDE DEF t
<1>3. ASSUME NEW j \in DOMAIN t PROVE t[j].parent < j /\ Fit(t[j], Up(t, root, j))
  <2>1. j \in 1..(Len(s) + 1) BY <1>1
  <2>2. CASE j = Len(s) + 1
    <3>1. t[j] = e BY <1>2, <2>2
    <3>2. e.parent # 0 /\ e.parent < j BY <1>0, <2>2
    <3>3. Up(t, root, j) = s[e.parent].path BY <1>2, <3>1, <3>2 DEF Up
    <3> QED BY <3>1, <3>2, <3>3
  <2>3. CASE j \in 1..Len(s)
    <3>1. t[j] = s[j] /\ j \in DOMAIN s BY <1>0, <1>2, <2>3
    <3>2. s[j].parent < j /\ Fit(s[j], Up(s, root, j)) BY <3>1 DEF Tree
    <3>3. s[j].parent \in Nat BY <3>2 DEF Fit, Exec
    <3>4. s[j].parent # 0 => s[j].parent \in DOMAIN s BY <1>0, <2>3, <3>2, <3>3
    <3>5. Up(t, root, j) = Up(s, root, j) BY <1>2, <3>1, <3>4 DEF Up
    <3> QED BY <3>1, <3>2, <3>5
  <2> QED BY <1>0, <2>1, <2>2, <2>3
<1> QED BY <1>1, <1>3 DEF t, Tree

(* The types and the limits, so far as they are about the executions. *)
Limits ==
  /\ Tree(execs, Root) /\ budget \in Int /\ faults \in Nat
  /\ Len(execs) + budget = Budget /\ budget >= 0

(* The next child takes one share of the budget, which had one. *)
LEMMA NextChildIsPaid ==
  ASSUME Limits, TeamAssumption, NEW i \in DOMAIN execs, NEW todo \in Seq(Assistants),
         Len(execs[i].path) < PathLimit, \A k \in DOMAIN todo : todo[k] \notin Range(execs[i].path),
         NextChild(i, todo)
  PROVE  /\ Tree(execs', Root) /\ Len(execs') = Len(execs) + 1
         /\ budget' = budget - 1 /\ budget > 0
<1> DEFINE e == [Goes(i, "waiting") EXCEPT !.todo = Tail(todo)]
           s == [execs EXCEPT ![i] = e]
           new == Opened(Head(todo), i, execs[i].path, execs[i].mode)
           root == Root
<1>1. /\ Tree(execs, root) /\ execs[i] \in Exec /\ i \in Nat
      /\ Fit(execs[i], Up(execs, root, i))
  BY DEF Limits, Tree
<1> HIDE DEF root
<1>2. todo # <<>> /\ budget > 0 /\ budget' = budget - 1 /\ execs' = Append(s, new)
  BY DEF NextChild, MayStart
<1>3. Head(todo) \in Assistants /\ Tail(todo) \in Seq(Assistants) BY <1>2
<1>4. Head(todo) \notin Range(execs[i].path)
      /\ \A k \in DOMAIN Tail(todo) : Tail(todo)[k] \notin Range(execs[i].path)
  <2>1. Len(todo) \in Nat \ {0} /\ Head(todo) = todo[1] /\ DOMAIN todo = 1..Len(todo) BY <1>2
  <2>2. \A k \in DOMAIN Tail(todo) : k + 1 \in DOMAIN todo /\ Tail(todo)[k] = todo[k + 1] BY <1>2
  <2> QED BY <2>1, <2>2
<1>5. /\ e \in Exec /\ e.parent = execs[i].parent /\ e.path = execs[i].path
      /\ e.agent = execs[i].agent /\ e.todo = Tail(todo)
  BY <1>1, <1>3 DEF Exec, Phases, Goes
<1> HIDE DEF e
<1>6. Fit(e, Up(execs, root, i)) BY <1>1, <1>4, <1>5 DEF Fit
<1>7. Tree(s, root) /\ Len(s) = Len(execs) /\ DOMAIN s = DOMAIN execs
  BY <1>1, <1>5, <1>6, SetKeepsTree
<1>8. execs[i].path \in Seq(Assistants) /\ execs[i].mode \in Modes /\ IsInjective(execs[i].path)
  BY <1>1 DEF Exec, Fit
<1>9. Fit(new, execs[i].path) /\ new.parent = i BY <1>1, <1>3, <1>4, <1>8, OpenedFits
<1>10. s[i] = e BY <1>1 DEF Tree
<1> HIDE DEF s, new
<1>11. Tree(Append(s, new), root) /\ Len(Append(s, new)) = Len(s) + 1
  BY <1>5, <1>7, <1>9, <1>10, AppendKeepsTree
<1> QED BY <1>2, <1>7, <1>11 DEF root

(* A step that leaves an execution's place and its children alone keeps the *)
(* limits.                                                                  *)
Keeps(i, e) ==
  /\ e \in Exec /\ e.parent = execs[i].parent /\ e.path = execs[i].path
  /\ e.agent = execs[i].agent /\ e.todo = execs[i].todo
  /\ e.may => execs[i].may \/ Len(execs[i].path) < PathLimit

LEMMA SetKeepsLimits ==
  ASSUME Limits, NEW i \in DOMAIN execs, NEW e, Keeps(i, e), Set(i, e)
  PROVE  Tree(execs', Root) /\ Len(execs') = Len(execs)
<1> DEFINE root == Root
<1>1. Tree(execs, root) /\ Fit(execs[i], Up(execs, root, i)) BY DEF Limits, Tree
<1> HIDE DEF root
<1>2. Fit(e, Up(execs, root, i)) BY <1>1 DEF Fit, Keeps
<1>3. e.parent = execs[i].parent /\ e.path = execs[i].path BY DEF Keeps
<1>4. LET s == [execs EXCEPT ![i] = e] IN
        Tree(s, root) /\ Len(s) = Len(execs) /\ DOMAIN s = DOMAIN execs
  BY <1>1, <1>2, <1>3, SetKeepsTree
<1> QED BY <1>4 DEF Set, root

(* A step of one execution either starts a child, which is paid for, or     *)
(* leaves the budget and the number of executions alone.                    *)
LEMMA ExecuteIsPaid ==
  ASSUME Limits, TeamAssumption, NEW i \in DOMAIN execs, Execute(i)
  PROVE  /\ Tree(execs', Root) /\ faults' \in Nat /\ UNCHANGED <<chat, reply>>
         /\ \/ Len(execs') = Len(execs) /\ UNCHANGED budget
            \/ Len(execs') = Len(execs) + 1 /\ budget' = budget - 1 /\ budget > 0
<1>1. execs[i] \in Exec /\ faults \in Nat /\ Fit(execs[i], Up(execs, Root, i))
  BY DEF Limits, Tree
<1>2. ASSUME NEW p \in Phases PROVE Keeps(i, Goes(i, p))
  BY <1>1, <1>2 DEF Exec, Goes, Keeps
<1>3. ASSUME NEW e, Keeps(i, e), Set(i, e) PROVE Tree(execs', Root) /\ Len(execs') = Len(execs)
  BY <1>3, SetKeepsLimits
<1>4. CASE Register(i)
  <2>1. CASE Set(i, [Goes(i, "asking") EXCEPT !.row = "running",
                       !.may = Len(execs[i].path) < PathLimit /\ budget > 0])
             /\ UNCHANGED faults
    <3> DEFINE m == Len(execs[i].path) < PathLimit /\ budget > 0
               e == [Goes(i, "asking") EXCEPT !.row = "running", !.may = m]
    <3>1. m \in BOOLEAN /\ (m => Len(execs[i].path) < PathLimit) OBVIOUS
    <3> HIDE DEF m
    <3>2. Keeps(i, e) BY <1>1, <3>1 DEF Exec, Goes, Phases, Keeps
    <3> QED BY <2>1, <3>2, <1>1, <1>3, <1>4 DEF Register, m
  <2>2. CASE Fault /\ Set(i, [Goes(i, "over") EXCEPT !.result = "rejected"])
    <3> DEFINE e == [Goes(i, "over") EXCEPT !.result = "rejected"]
    <3>1. Keeps(i, e) BY <1>1 DEF Exec, Goes, Phases, Keeps
    <3>2. faults' \in Nat BY <2>2, <1>1 DEF Fault
    <3>3. Tree(execs', Root) /\ Len(execs') = Len(execs) BY <2>2, <3>1, <1>3
    <3> QED BY <3>2, <3>3, <1>4 DEF Register
  <2> QED BY <1>4, <2>1, <2>2 DEF Register
<1>5. CASE Consult(i)
  <2>1. ASSUME NEW todo \in Assignments(Available(i), ChildLimit),
               IF todo # <<>> /\ MayStart(i)
               THEN NextChild(i, todo)
               ELSE Set(i, Goes(i, "acting")) /\ UNCHANGED budget
        PROVE  /\ Tree(execs', Root)
               /\ \/ Len(execs') = Len(execs) /\ UNCHANGED budget
                  \/ Len(execs') = Len(execs) + 1 /\ budget' = budget - 1 /\ budget > 0
    <3>1. Available(i) \subseteq Assistants BY DEF Available, Specialists
    <3>2. todo \in Seq(Available(i))
      BY TeamAssumption, AssignmentsAreSequences DEF TeamAssumption
    <3>3. todo \in Seq(Assistants) BY <3>1, <3>2
    <3>4. CASE todo # <<>> /\ MayStart(i)
      <4>1. todo[1] \in Available(i) BY <3>2, <3>4
      <4>2. execs[i].may BY <4>1 DEF Available
      <4>3. \A k \in DOMAIN todo : todo[k] \notin Range(execs[i].path)
        BY <3>2 DEF Available
      <4>4. Len(execs[i].path) < PathLimit BY <1>1, <4>2 DEF Fit
      <4> QED BY <2>1, <3>3, <3>4, <4>3, <4>4, NextChildIsPaid
    <3>5. CASE ~(todo # <<>> /\ MayStart(i))
      <4>1. Set(i, Goes(i, "acting")) /\ UNCHANGED budget BY <2>1, <3>5
      <4> QED BY <4>1, <1>2, <1>3 DEF Phases
    <3> QED BY <3>4, <3>5
  <2>2. CASE Set(i, Goes(i, "failing")) /\ UNCHANGED budget
    BY <1>1, <1>5, <2>2, <1>2, <1>3 DEF Phases, Consult
  <2> QED BY <1>1, <1>5, <2>1, <2>2 DEF Consult
<1>6. CASE Resume(i)
  <2>1. PICK c \in DOMAIN execs :
          IF execs[c].result = "rejected"
          THEN Set(i, Goes(i, "failing")) /\ UNCHANGED budget
          ELSE IF execs[i].todo # <<>> /\ MayStart(i)
               THEN NextChild(i, execs[i].todo)
               ELSE Set(i, Goes(i, "concluding")) /\ UNCHANGED budget
    BY <1>6 DEF Resume
  <2>2. execs[i].todo \in Seq(Assistants) BY <1>1 DEF Exec
  <2>3. CASE execs[i].todo # <<>> /\ NextChild(i, execs[i].todo)
    <3>1. /\ Len(execs[i].path) < PathLimit
          /\ \A k \in DOMAIN execs[i].todo : execs[i].todo[k] \notin Range(execs[i].path)
      BY <1>1, <2>3 DEF Fit
    <3> QED BY <1>1, <1>6, <2>2, <2>3, <3>1, NextChildIsPaid DEF Resume
  <2>4. CASE Set(i, Goes(i, "failing")) /\ UNCHANGED budget
    BY <1>1, <1>6, <2>4, <1>2, <1>3 DEF Phases, Resume
  <2>5. CASE Set(i, Goes(i, "concluding")) /\ UNCHANGED budget
    BY <1>1, <1>6, <2>5, <1>2, <1>3 DEF Phases, Resume
  <2> QED BY <2>1, <2>3, <2>4, <2>5
<1>7. CASE Conclude(i) BY <1>1, <1>7, <1>2, <1>3 DEF Phases, Conclude
<1>8. CASE Act(i)
  <2>1. PICK some \in BOOLEAN :
          Set(i, [Goes(i, "saving") EXCEPT !.acted = some /\ execs[i].mode = "auto"])
    BY <1>8 DEF Act
  <2> DEFINE b == some /\ execs[i].mode = "auto"
             e == [Goes(i, "saving") EXCEPT !.acted = b]
  <2>2. b \in BOOLEAN OBVIOUS
  <2> HIDE DEF b
  <2>3. Keeps(i, e) BY <1>1, <2>2 DEF Exec, Goes, Phases, Keeps
  <2> QED BY <2>1, <2>3, <1>1, <1>3, <1>8 DEF Act, b
<1>9. CASE Save(i)
  <2>1. CASE Set(i, Finished(i, "completed")) /\ UNCHANGED faults
    <3>1. Keeps(i, Finished(i, "completed")) BY <1>1 DEF Exec, Goes, Phases, Finished, Keeps
    <3> QED BY <2>1, <3>1, <1>1, <1>3, <1>9 DEF Save
  <2>2. CASE Fault /\ Set(i, Goes(i, "failing"))
    BY <2>2, <1>1, <1>2, <1>3, <1>9 DEF Save, Fault, Phases
  <2> QED BY <1>9, <2>1, <2>2 DEF Save
<1>10. CASE SaveFailure(i)
  <2>1. CASE Set(i, Finished(i, "failed")) /\ UNCHANGED faults
    <3>1. Keeps(i, Finished(i, "failed")) BY <1>1 DEF Exec, Goes, Phases, Finished, Keeps
    <3> QED BY <2>1, <3>1, <1>1, <1>3, <1>10 DEF SaveFailure
  <2>2. CASE Fault /\ Set(i, [Goes(i, "over") EXCEPT !.result = "rejected"])
    <3> DEFINE e == [Goes(i, "over") EXCEPT !.result = "rejected"]
    <3>1. Keeps(i, e) BY <1>1 DEF Exec, Goes, Phases, Keeps
    <3>2. faults' \in Nat BY <2>2, <1>1 DEF Fault
    <3>3. Tree(execs', Root) /\ Len(execs') = Len(execs) BY <2>2, <3>1, <1>3
    <3> QED BY <3>2, <3>3, <1>10 DEF SaveFailure
  <2> QED BY <1>10, <2>1, <2>2 DEF SaveFailure
<1> QED BY <1>4, <1>5, <1>6, <1>7, <1>8, <1>9, <1>10 DEF Execute

-----------------------------------------------------------------------------
ChatOK ==
  /\ chat \in [phase : {"idle", "routing", "waiting", "done", "lost"},
               asked : Assistants, mode : Modes]
  /\ reply \in {"none", "answer", "error", "timeout"}

(* Nothing is executed before chat() has decided what. *)
LimitsInv ==
  /\ Limits /\ ChatOK
  /\ chat.phase \in {"idle", "routing"} => execs = <<>>
  /\ chat.phase = "routing" => chat.asked \in Orchestrators

(* As long as the assistant asked is the same, so is the root of the paths. *)
LEMMA LimitsAfter ==
  ASSUME chat'.asked = chat.asked, Tree(execs', Root), budget' \in Int, faults' \in Nat,
         Len(execs') + budget' = Budget, budget' >= 0
  PROVE  Limits'
<1>1. Root' = Root BY DEF Root
<1> QED BY <1>1 DEF Limits, Tree, Up, Fit, Exec, Phases, Modes

LEMMA LimitsStep == ASSUME LimitsInv, TeamAssumption, [Next]_vars PROVE LimitsInv'
<1>1. /\ Limits /\ ChatOK /\ Tree(execs, Root) /\ budget \in Int /\ faults \in Nat
      /\ Budget \in Nat \ {0} /\ PathLimit \in Nat \ {0, 1} /\ Len(execs) + budget = Budget /\ budget >= 0
      /\ Len(execs) \in Nat /\ Orchestrators \subseteq Assistants
  BY TeamAssumption DEF LimitsInv, Limits, Tree, TeamAssumption
<1>2. ASSUME NEW a \in Assistants, NEW m \in Modes, Ask(a, m) PROVE LimitsInv'
  <2>1. execs = <<>> /\ budget = Budget BY <1>1, <1>2 DEF Ask, LimitsInv
  <2>2. ChatOK' BY <1>1, <1>2 DEF Ask, ChatOK
  <2>3. CASE a \in Orchestrators
    <3>1. /\ execs' = <<>> /\ budget' = Budget /\ faults' = faults /\ chat'.phase = "routing"
          /\ chat'.asked = a
      BY <1>2, <2>1, <2>3 DEF Ask
    <3>2. <<>> \in Seq(Exec) /\ Len(<<>>) = 0 /\ DOMAIN <<>> = {} OBVIOUS
    <3>3. Limits' BY <1>1, <3>1, <3>2 DEF Limits, Tree
    <3> QED BY <2>2, <2>3, <3>1, <3>3 DEF LimitsInv
  <2>4. CASE a \notin Orchestrators
    <3> DEFINE e == Opened(a, 0, <<>>, m)
    <3>0. /\ <<>> \in Seq(Assistants) /\ 0 \in Nat /\ Len(<<>>) = 0 /\ IsInjective(<<>>)
          /\ a \notin Range(<<>>)
      BY DEF IsInjective, Range
    <3>1. Fit(e, <<>>) /\ e.parent = 0
      <4>1. Len(<<>>) < PathLimit BY <1>1, <3>0
      <4> DEFINE up == <<>>
      <4>2. up \in Seq(Assistants) /\ IsInjective(up) /\ a \notin Range(up) /\ Len(up) < PathLimit
        BY <3>0, <4>1
      <4>3. e = Opened(a, 0, up, m) OBVIOUS
      <4> HIDE DEF e, up
      <4>4. Fit(e, up) /\ e.parent = 0 BY <1>2, <3>0, <4>2, <4>3, OpenedFits, TeamAssumption
      <4> QED BY <4>4 DEF up
    <3>2. /\ execs' = <<e>> /\ budget' = budget - 1 /\ chat'.phase = "waiting" /\ faults' = faults
          /\ chat'.asked = a
      BY <1>2, <2>4 DEF Ask
    <3> HIDE DEF e
    <3>3. <<e>> \in Seq(Exec) /\ Len(<<e>>) = 1 /\ DOMAIN <<e>> = {1} /\ <<e>>[1] = e
      BY <3>1 DEF Fit
    <3>4. Up(<<e>>, <<>>, 1) = <<>> BY <3>1, <3>3 DEF Up
    <3>5. Tree(<<e>>, <<>>) BY <3>1, <3>3, <3>4 DEF Tree
    <3>6. Root' = <<>> BY <2>4, <3>2 DEF Root
    <3>7. Limits'
      <4>1. Tree(<<e>>, <<>>)' BY <3>5 DEF Tree, Fit, Up, Exec, Phases, Modes
      <4> QED BY <1>1, <2>1, <3>2, <3>3, <3>5, <3>6 DEF Limits
    <3> QED BY <2>2, <3>2, <3>7 DEF LimitsInv
  <2> QED BY <2>3, <2>4
<1>3. CASE Route
  <2>1. /\ execs = <<>> /\ budget = Budget /\ chat.asked \in Orchestrators /\ chat.mode \in Modes
        /\ chat \in [phase : {"idle", "routing", "waiting", "done", "lost"},
                     asked : Assistants, mode : Modes]
    BY <1>1, <1>3 DEF Route, LimitsInv, ChatOK
  <2>2. ASSUME NEW plan \in Assignments(Specialists \ {chat.asked}, TopLimit), plan # <<>>,
               execs' = [n \in 1..Len(plan) |-> Opened(plan[n], 0, <<chat.asked>>, chat.mode)],
               budget' = budget - Len(plan),
               chat' = [chat EXCEPT !.phase = "waiting"], UNCHANGED reply
        PROVE  LimitsInv'
    <3>1. TopLimit \in Nat /\ TopLimit <= Budget BY TeamAssumption DEF TeamAssumption
    <3>2. plan \in Seq(Specialists \ {chat.asked}) /\ Len(plan) <= TopLimit
      BY <3>1, AssignmentsAreSequences
    <3>3. \A n \in 1..Len(plan) : plan[n] \in Assistants /\ plan[n] # chat.asked
      BY <3>2 DEF Specialists
    <3>4. /\ <<chat.asked>> \in Seq(Assistants) /\ IsInjective(<<chat.asked>>)
          /\ Len(<<chat.asked>>) < PathLimit /\ Range(<<chat.asked>>) = {chat.asked}
      BY <1>1, <2>1 DEF IsInjective, Range
    <3>5. \A n \in 1..Len(plan) : Fit(execs'[n], <<chat.asked>>) /\ execs'[n].parent = 0
      <4>1. ASSUME NEW n \in 1..Len(plan)
            PROVE  Fit(execs'[n], <<chat.asked>>) /\ execs'[n].parent = 0
        <5>1. plan[n] \in Assistants /\ plan[n] \notin Range(<<chat.asked>>) BY <3>3, <3>4
        <5>2. execs'[n] = Opened(plan[n], 0, <<chat.asked>>, chat.mode) BY <2>2
        <5>3. 0 \in Nat /\ chat.mode \in Modes BY <2>1
        <5> DEFINE root == <<chat.asked>>
        <5>4. root \in Seq(Assistants) /\ IsInjective(root) /\ Len(root) < PathLimit
              /\ plan[n] \notin Range(root)
          BY <3>4, <5>1
        <5> HIDE DEF root
        <5>5. Fit(Opened(plan[n], 0, root, chat.mode), root)
              /\ Opened(plan[n], 0, root, chat.mode).parent = 0
          BY <5>1, <5>3, <5>4, OpenedFits, TeamAssumption
        <5> QED BY <5>2, <5>5 DEF root
      <4> QED BY <4>1
    <3>6. Len(plan) \in Nat BY <3>2
    <3>7. execs' \in Seq(Exec) /\ Len(execs') = Len(plan) /\ DOMAIN execs' = 1..Len(plan)
      <4>1. \A n \in 1..Len(plan) : execs'[n] \in Exec BY <3>5 DEF Fit
      <4> QED BY <2>2, <3>6, <4>1
    <3>8. Root = <<chat.asked>> BY <2>1 DEF Root
    <3>9. Tree(execs', Root)
      <4>1. ASSUME NEW n \in DOMAIN execs'
            PROVE  execs'[n].parent < n /\ Fit(execs'[n], Up(execs', Root, n))
        <5>1. n \in 1..Len(plan) BY <3>7
        <5>2. Up(execs', Root, n) = <<chat.asked>> BY <3>5, <3>8, <5>1 DEF Up
        <5> QED BY <3>5, <3>6, <5>1, <5>2
      <4> QED BY <3>7, <4>1 DEF Tree
    <3>10. chat'.asked = chat.asked /\ chat'.phase = "waiting" BY <2>1, <2>2
    <3>11. faults' \in Nat /\ budget' \in Int /\ Len(execs') + budget' = Budget /\ budget' >= 0
      <4>1. faults' = faults BY <1>3 DEF Route
      <4>2. budget' = Budget - Len(plan) BY <2>1, <2>2
      <4>3. Budget \in Nat /\ faults \in Nat BY <1>1
      <4> QED BY <3>1, <3>2, <3>6, <3>7, <4>1, <4>2, <4>3
    <3>12. Limits' BY <3>9, <3>10, <3>11, LimitsAfter
    <3>13. ChatOK' BY <1>1, <2>2 DEF ChatOK
    <3> QED BY <3>10, <3>12, <3>13 DEF LimitsInv
  <2>3. CASE chat' = [chat EXCEPT !.phase = "done"] /\ UNCHANGED <<execs, budget>>
             /\ (Answer("answer") \/ Answer("error"))
    <3>1. chat'.asked = chat.asked /\ chat'.phase = "done" /\ ChatOK'
      BY <1>1, <2>1, <2>3 DEF ChatOK, Answer
    <3>2. Limits' BY <1>1, <1>3, <2>3, <3>1, LimitsAfter DEF Route
    <3> QED BY <3>1, <3>2 DEF LimitsInv
  <2> QED BY <1>3, <2>2, <2>3 DEF Route
<1>4. CASE Reject \/ Join
  <2>1. /\ chat' = [chat EXCEPT !.phase = "done"] /\ UNCHANGED <<execs, budget>>
        /\ faults' \in Nat /\ (Answer("answer") \/ Answer("error"))
    BY <1>1, <1>4 DEF Reject, Join, Fault
  <2>2. chat'.asked = chat.asked /\ chat'.phase = "done" /\ ChatOK'
    BY <1>1, <2>1 DEF ChatOK, Answer
  <2>3. Limits' BY <1>1, <2>1, <2>2, LimitsAfter
  <2> QED BY <2>2, <2>3 DEF LimitsInv
<1>5. ASSUME NEW i \in DOMAIN execs, Execute(i) PROVE LimitsInv'
  <2>1. /\ Tree(execs', Root) /\ faults' \in Nat /\ UNCHANGED <<chat, reply>>
        /\ \/ Len(execs') = Len(execs) /\ UNCHANGED budget
           \/ Len(execs') = Len(execs) + 1 /\ budget' = budget - 1 /\ budget > 0
    BY <1>1, <1>5, TeamAssumption, ExecuteIsPaid
  <2>2. execs # <<>> BY <1>5
  <2>3. Len(execs') + budget' = Budget /\ budget' \in Int /\ budget' >= 0 BY <1>1, <2>1
  <2>4. Limits' BY <2>1, <2>3, LimitsAfter
  <2>5. ChatOK' BY <1>1, <2>1 DEF ChatOK
  <2> QED BY <2>1, <2>2, <2>4, <2>5 DEF LimitsInv
<1>6. CASE TimeOut
  <2>1. Limits' BY <1>1, <1>6, LimitsAfter DEF TimeOut
  <2> QED BY <1>1, <1>6, <2>1 DEF TimeOut, ChatOK, LimitsInv
<1>7. CASE Crash
  <2>1. /\ execs' = [i \in DOMAIN execs |-> IF Over(i) THEN execs[i] ELSE Goes(i, "lost")]
        /\ chat' = [chat EXCEPT !.phase = "lost"] /\ UNCHANGED <<budget, reply, faults>>
    BY <1>7 DEF Crash
  <2> DEFINE root == Root
  <2>2. Tree(execs, root) BY <1>1
  <2> HIDE DEF root
  <2>3. ASSUME NEW i \in DOMAIN execs
        PROVE  /\ Fit(execs'[i], Up(execs, root, i)) /\ execs'[i].parent = execs[i].parent
               /\ execs'[i].path = execs[i].path
    <3>1. execs[i] \in Exec /\ Fit(execs[i], Up(execs, root, i)) BY <2>2 DEF Tree
    <3>2. Keeps(i, Goes(i, "lost")) /\ Goes(i, "lost").may = execs[i].may
      BY <3>1 DEF Exec, Goes, Phases, Keeps
    <3>3. Fit(Goes(i, "lost"), Up(execs, root, i)) BY <3>1, <3>2 DEF Fit, Keeps
    <3> QED BY <2>1, <3>1, <3>2, <3>3 DEF Keeps
  <2>4. DOMAIN execs = 1..Len(execs) /\ Len(execs) \in Nat BY <2>2 DEF Tree
  <2>5. execs' \in Seq(Exec) /\ Len(execs') = Len(execs) /\ DOMAIN execs' = DOMAIN execs
    <3>1. \A i \in DOMAIN execs : execs'[i] \in Exec BY <2>3 DEF Fit
    <3> QED BY <2>1, <2>4, <3>1
  <2>6. ASSUME NEW i \in DOMAIN execs'
        PROVE  execs'[i].parent < i /\ Fit(execs'[i], Up(execs', root, i))
    <3>1. i \in DOMAIN execs /\ execs[i].parent < i /\ execs[i].parent \in Nat
      BY <2>2, <2>5 DEF Tree, Exec, Fit
    <3>2. execs[i].parent # 0 => execs[i].parent \in DOMAIN execs BY <2>4, <3>1
    <3>3. Up(execs', root, i) = Up(execs, root, i) BY <2>3, <3>1, <3>2 DEF Up
    <3> QED BY <2>3, <3>1, <3>3
  <2>7. Tree(execs', root) BY <2>5, <2>6 DEF Tree
  <2>8. chat'.asked = chat.asked /\ chat'.phase = "lost" /\ ChatOK' BY <1>1, <2>1 DEF ChatOK
  <2>9. Limits' BY <1>1, <2>1, <2>5, <2>7, <2>8, LimitsAfter DEF root
  <2> QED BY <2>8, <2>9 DEF LimitsInv
<1>8. CASE UNCHANGED vars
  <2>1. Limits' BY <1>1, <1>8, LimitsAfter DEF vars
  <2> QED BY <1>8, <2>1 DEF vars, LimitsInv, ChatOK
<1> QED BY <1>2, <1>3, <1>4, <1>5, <1>6, <1>7, <1>8 DEF Next, Chat

LEMMA LimitsInvHolds == Spec => []LimitsInv
<1>1. Init => LimitsInv
  <2> SUFFICES ASSUME Init PROVE LimitsInv OBVIOUS
  <2>1. /\ execs = <<>> /\ budget = Budget /\ faults = 0 /\ reply = "none"
        /\ chat = [phase |-> "idle", asked |-> Ceo, mode |-> "auto"] BY DEF Init
  <2>2. <<>> \in Seq(Exec) /\ Len(<<>>) = 0 /\ DOMAIN <<>> = {} OBVIOUS
  <2>3. Budget \in Nat /\ Ceo \in Assistants BY TeamAssumption DEF TeamAssumption
  <2>4. Limits BY <2>1, <2>2, <2>3 DEF Limits, Tree
  <2> QED BY <2>1, <2>3, <2>4 DEF LimitsInv, ChatOK, Modes
<1>2. LimitsInv /\ [Next]_vars => LimitsInv' BY TeamAssumption, LimitsStep
<1> QED BY <1>1, <1>2, PTL DEF Spec

LEMMA LimitsFollow == LimitsInv => TypeOK /\ LimitsKept
<1> SUFFICES ASSUME LimitsInv PROVE TypeOK /\ LimitsKept OBVIOUS
<1>1. /\ execs \in Seq(Exec) /\ budget \in Int /\ faults \in Nat
      /\ Len(execs) + budget = Budget /\ budget >= 0
  BY DEF LimitsInv, Limits, Tree
<1>2. \A i \in DOMAIN execs : execs[i].parent < i /\ Fit(execs[i], Up(execs, Root, i))
  BY DEF LimitsInv, Limits, Tree
<1>3. \A i \in DOMAIN execs : Ancestry(i) = Up(execs, Root, i) BY DEF Ancestry, Up, Root
<1>4. LimitsKept BY <1>1, <1>2, <1>3 DEF LimitsKept, Fit
<1> QED BY <1>1, <1>2, <1>4 DEF TypeOK, LimitsInv, ChatOK

(* A request never executes more agents than its budget allows, nor        *)
(* anybody twice on a path or further down than the limit, however its     *)
(* specialists interleave.                                                 *)
THEOREM LimitsSafe == Spec => []LimitsKept
BY LimitsInvHolds, LimitsFollow, PTL

(* Every variable has its type, and an execution is younger than the one   *)
(* that asked for it.                                                      *)
THEOREM TeamTyped == Spec => []TypeOK
BY LimitsInvHolds, LimitsFollow, PTL

-----------------------------------------------------------------------------
(* What a step of an execution leaves behind *)

(* An execution e has its verdict when it is over, and while no statement  *)
(* has failed (f counts them) its row shows the verdict, and running       *)
(* before; who acted is about to be saved, or completed.                   *)
Verdict(e, f) ==
  /\ e.result # "none" => e.phase = "over"
  /\ f = 0 =>
       /\ e.phase = "over" => e.row = e.result /\ e.result \in {"completed", "failed"}
       /\ e.phase \notin {"opening", "over", "lost"} => e.row = "running"
       /\ e.acted => e.phase \in {"saving", "lost"} \/ e.result = "completed"
Verdicts == \A i \in DOMAIN execs : Verdict(execs[i], faults)

(* The step of execution i changes its element and perhaps adds a child.   *)
Alters(i) ==
  /\ \A j \in DOMAIN execs : j # i => execs'[j] = execs[j]
  /\ execs'[i].parent = execs[i].parent
  /\ Verdict(execs'[i], faults')
  /\ \/ Len(execs') = Len(execs) /\ execs'[i].phase # "waiting"
     \/ /\ Len(execs') = Len(execs) + 1 /\ execs'[i].phase = "waiting"
        /\ execs'[Len(execs) + 1].parent = i
        /\ execs'[Len(execs) + 1].phase = "opening"
        /\ Verdict(execs'[Len(execs) + 1], faults')

LEMMA SetAlters ==
  ASSUME execs \in Seq(Exec), NEW i \in DOMAIN execs, NEW e, Set(i, e),
         e \in Exec, e.parent = execs[i].parent, e.phase # "waiting", Verdict(e, faults')
  PROVE  Alters(i)
<1>1. /\ Len(execs') = Len(execs) /\ execs'[i] = e
      /\ \A j \in DOMAIN execs : j # i => execs'[j] = execs[j]
  BY DEF Set
<1> QED BY <1>1 DEF Alters

LEMMA NextChildAlters ==
  ASSUME execs \in Seq(Exec), NEW i \in DOMAIN execs, NEW todo, NextChild(i, todo),
         todo \in Seq(Assistants), Verdict(execs[i], faults), execs[i].phase \in {"asking", "waiting"},
         UNCHANGED faults
  PROVE  Alters(i)
<1> DEFINE e == [Goes(i, "waiting") EXCEPT !.todo = Tail(todo)]
           new == Opened(Head(todo), i, execs[i].path, execs[i].mode)
           s == [execs EXCEPT ![i] = e]
<1>1. execs' = Append(s, new) /\ Tail(todo) \in Seq(Assistants) BY DEF NextChild
<1>2. execs[i] \in Exec OBVIOUS
<1>3. /\ e \in Exec /\ e.parent = execs[i].parent /\ e.phase = "waiting" /\ e.row = execs[i].row
      /\ e.result = execs[i].result /\ e.acted = execs[i].acted
  BY <1>1, <1>2 DEF Exec, Goes, Phases
<1>4. /\ new.parent = i /\ new.phase = "opening" /\ new.result = "none" /\ new.acted = FALSE
  BY DEF Opened
<1> HIDE DEF e, new
<1>5. s \in Seq(Exec) /\ Len(s) = Len(execs) /\ s[i] = e
      /\ \A j \in DOMAIN execs : j # i => s[j] = execs[j]
  BY <1>3
<1> HIDE DEF s
<1>6. DOMAIN execs = 1..Len(execs) /\ DOMAIN s = 1..Len(s) /\ Len(s) \in Nat BY <1>5
<1>7. /\ Len(Append(s, new)) = Len(s) + 1 /\ Append(s, new)[Len(s) + 1] = new
      /\ \A j \in 1..Len(s) : Append(s, new)[j] = s[j]
  BY <1>5, <1>6
<1>8. Verdict(e, faults') /\ Verdict(new, faults') BY <1>3, <1>4 DEF Verdict
<1> QED BY <1>1, <1>3, <1>4, <1>5, <1>6, <1>7, <1>8 DEF Alters

LEMMA ExecuteAlters ==
  ASSUME LimitsInv, NEW i \in DOMAIN execs, Execute(i), Verdict(execs[i], faults)
  PROVE  /\ Alters(i) /\ ~Over(i) /\ execs[i].phase # "lost" /\ UNCHANGED <<chat, reply>>
         /\ faults' = 0 => faults = 0
         /\ execs[i].phase = "waiting" => \E c \in DOMAIN execs : Child(i, c) /\ Over(c)
<1>1. execs \in Seq(Exec) /\ execs[i] \in Exec /\ faults \in Nat BY DEF LimitsInv, Limits, Tree
<1>2. ASSUME NEW p \in Phases
      PROVE  /\ Goes(i, p) \in Exec /\ Goes(i, p).parent = execs[i].parent /\ Goes(i, p).phase = p
             /\ Goes(i, p).row = execs[i].row /\ Goes(i, p).result = execs[i].result
             /\ Goes(i, p).acted = execs[i].acted
  BY <1>1, <1>2 DEF Exec, Goes
<1>3. ASSUME NEW p \in Phases \ {"opening", "waiting", "over", "lost"}, Set(i, Goes(i, p)),
             execs[i].phase \notin {"opening", "saving", "over", "lost"}, UNCHANGED faults
      PROVE  Alters(i)
  <2>1. Verdict(Goes(i, p), faults') BY <1>2, <1>3 DEF Verdict
  <2> QED BY <1>1, <1>2, <1>3, <2>1, SetAlters
<1>4. ASSUME Fault PROVE faults' # 0 /\ faults' \in Nat BY <1>1, <1>4 DEF Fault
<1>5. CASE Register(i)
  <2>1. execs[i].phase = "opening" /\ UNCHANGED <<chat, reply>> BY <1>5 DEF Register
  <2>2. CASE UNCHANGED faults /\ Set(i, [Goes(i, "asking") EXCEPT !.row = "running",
                       !.may = Len(execs[i].path) < PathLimit /\ budget > 0])
    <3> DEFINE m == Len(execs[i].path) < PathLimit /\ budget > 0
               e == [Goes(i, "asking") EXCEPT !.row = "running", !.may = m]
    <3>1. m \in BOOLEAN OBVIOUS
    <3> HIDE DEF m
    <3>2. /\ e \in Exec /\ e.parent = execs[i].parent /\ e.phase = "asking" /\ e.row = "running"
          /\ e.result = execs[i].result /\ e.acted = execs[i].acted
      BY <1>1, <3>1 DEF Exec, Goes, Phases
    <3>3. Set(i, e) BY <2>2 DEF m
    <3> HIDE DEF e
    <3>4. Verdict(e, faults') BY <2>1, <2>2, <3>2 DEF Verdict
    <3> QED BY <1>1, <2>1, <2>2, <3>2, <3>3, <3>4, SetAlters DEF Over
  <2>3. CASE Fault /\ Set(i, [Goes(i, "over") EXCEPT !.result = "rejected"])
    <3> DEFINE e == [Goes(i, "over") EXCEPT !.result = "rejected"]
    <3>1. e \in Exec /\ e.parent = execs[i].parent /\ e.phase = "over"
      BY <1>1 DEF Exec, Goes, Phases
    <3>2. Set(i, e) BY <2>3
    <3> HIDE DEF e
    <3>3. Verdict(e, faults') BY <1>4, <2>3, <3>1 DEF Verdict
    <3> QED BY <1>1, <1>4, <2>1, <2>3, <3>1, <3>2, <3>3, SetAlters DEF Over
  <2> QED BY <1>5, <2>2, <2>3 DEF Register
<1>6. CASE Consult(i)
  <2>1. execs[i].phase = "asking" /\ UNCHANGED <<chat, reply, faults>> BY <1>6 DEF Consult
  <2>2. ASSUME NEW todo \in Assignments(Available(i), ChildLimit), NextChild(i, todo)
        PROVE  Alters(i)
    <3>1. Available(i) \subseteq Assistants BY DEF Available, Specialists
    <3>2. todo \in Seq(Available(i)) BY TeamAssumption, AssignmentsAreSequences DEF TeamAssumption
    <3>3. todo \in Seq(Assistants) BY <3>1, <3>2
    <3> QED BY <1>1, <2>1, <2>2, <3>3, NextChildAlters
  <2>3. ASSUME Set(i, Goes(i, "acting")) \/ Set(i, Goes(i, "failing")) PROVE Alters(i)
    BY <1>3, <2>1, <2>3 DEF Phases
  <2> QED BY <1>6, <2>1, <2>2, <2>3 DEF Consult, Over
<1>7. CASE Resume(i)
  <2>1. execs[i].phase = "waiting" /\ UNCHANGED <<chat, reply, faults>> BY <1>7 DEF Resume
  <2>2. PICK c \in DOMAIN execs :
          /\ Child(i, c) /\ Over(c)
          /\ \/ Set(i, Goes(i, "failing")) \/ Set(i, Goes(i, "concluding"))
             \/ NextChild(i, execs[i].todo)
    BY <1>7 DEF Resume
  <2>3. ASSUME Set(i, Goes(i, "failing")) \/ Set(i, Goes(i, "concluding")) PROVE Alters(i)
    BY <1>3, <2>1, <2>3 DEF Phases
  <2>4. ASSUME NextChild(i, execs[i].todo) PROVE Alters(i)
    <3>1. execs[i].todo \in Seq(Assistants) BY <1>1 DEF Exec
    <3> QED BY <1>1, <2>1, <2>4, <3>1, NextChildAlters
  <2> QED BY <2>1, <2>2, <2>3, <2>4 DEF Over
<1>8. CASE Conclude(i)
  <2>1. Alters(i) BY <1>3, <1>8 DEF Phases, Conclude
  <2> QED BY <1>8, <2>1 DEF Conclude, Over
<1>9. CASE Act(i)
  <2>1. PICK some \in BOOLEAN :
          Set(i, [Goes(i, "saving") EXCEPT !.acted = some /\ execs[i].mode = "auto"])
    BY <1>9 DEF Act
  <2>2. execs[i].phase = "acting" /\ UNCHANGED <<chat, reply, faults>> BY <1>9 DEF Act
  <2> DEFINE b == some /\ execs[i].mode = "auto"
             e == [Goes(i, "saving") EXCEPT !.acted = b]
  <2>3. b \in BOOLEAN OBVIOUS
  <2>4. Set(i, e) BY <2>1
  <2> HIDE DEF b
  <2>5. /\ e \in Exec /\ e.parent = execs[i].parent /\ e.phase = "saving"
        /\ e.row = execs[i].row /\ e.result = execs[i].result
    BY <1>1, <2>3 DEF Exec, Goes, Phases
  <2> HIDE DEF e
  <2>6. Verdict(e, faults') BY <2>2, <2>5 DEF Verdict
  <2> QED BY <1>1, <2>2, <2>4, <2>5, <2>6, SetAlters DEF Over
<1>10. CASE Save(i)
  <2>1. execs[i].phase = "saving" /\ UNCHANGED <<chat, reply>> BY <1>10 DEF Save
  <2>2. CASE Set(i, Finished(i, "completed")) /\ UNCHANGED faults
    <3> DEFINE e == Finished(i, "completed")
    <3>1. /\ e \in Exec /\ e.parent = execs[i].parent /\ e.phase = "over"
          /\ e.row = "completed" /\ e.result = "completed"
      BY <1>1 DEF Exec, Goes, Phases, Finished
    <3>2. Verdict(e, faults') BY <3>1 DEF Verdict
    <3> HIDE DEF e
    <3>3. Alters(i) BY <1>1, <2>2, <3>1, <3>2, SetAlters DEF e
    <3> QED BY <2>1, <2>2, <3>3 DEF Over
  <2>3. CASE Fault /\ Set(i, Goes(i, "failing"))
    <3>1. "failing" \in Phases BY DEF Phases
    <3>2. Verdict(Goes(i, "failing"), faults')
      BY <1>2, <1>4, <2>1, <2>3, <3>1 DEF Verdict
    <3>3. Alters(i) BY <1>1, <1>2, <2>3, <3>1, <3>2, SetAlters
    <3> QED BY <1>4, <2>1, <2>3, <3>3 DEF Over
  <2> QED BY <1>10, <2>2, <2>3 DEF Save
<1>11. CASE SaveFailure(i)
  <2>1. execs[i].phase = "failing" /\ UNCHANGED <<chat, reply>> BY <1>11 DEF SaveFailure
  <2>2. CASE Set(i, Finished(i, "failed")) /\ UNCHANGED faults
    <3> DEFINE e == Finished(i, "failed")
    <3>1. /\ e \in Exec /\ e.parent = execs[i].parent /\ e.phase = "over"
          /\ e.row = "failed" /\ e.result = "failed" /\ e.acted = execs[i].acted
      BY <1>1 DEF Exec, Goes, Phases, Finished
    <3>2. Verdict(e, faults') BY <2>1, <2>2, <3>1 DEF Verdict
    <3> HIDE DEF e
    <3>3. Alters(i) BY <1>1, <2>2, <3>1, <3>2, SetAlters DEF e
    <3> QED BY <2>1, <2>2, <3>3 DEF Over
  <2>3. CASE Fault /\ Set(i, [Goes(i, "over") EXCEPT !.result = "rejected"])
    <3> DEFINE e == [Goes(i, "over") EXCEPT !.result = "rejected"]
    <3>1. e \in Exec /\ e.parent = execs[i].parent /\ e.phase = "over"
      BY <1>1 DEF Exec, Goes, Phases
    <3>2. Set(i, e) BY <2>3
    <3> HIDE DEF e
    <3>3. Verdict(e, faults') BY <1>4, <2>3, <3>1 DEF Verdict
    <3>4. Alters(i) BY <1>1, <3>1, <3>2, <3>3, SetAlters
    <3> QED BY <1>4, <2>1, <2>3, <3>4 DEF Over
  <2> QED BY <1>11, <2>2, <2>3 DEF SaveFailure
<1> QED BY <1>5, <1>6, <1>7, <1>8, <1>9, <1>10, <1>11 DEF Execute

-----------------------------------------------------------------------------
(* What an execution leaves in the tables *)

(* The first executions of a request, and all of them after a crash.       *)
Starts ==
  \A i \in DOMAIN execs' : execs'[i].phase = "opening" /\ execs'[i].parent = 0 /\ execs'[i].result = "none"
                           /\ ~execs'[i].acted

LEMMA RequestStarts ==
  ASSUME LimitsInv, (\E a \in Assistants, m \in Modes : Ask(a, m)) \/ Route
  PROVE  /\ execs = <<>> /\ Starts /\ UNCHANGED faults
         /\ chat'.phase \in {"routing", "waiting"} => UNCHANGED reply
         /\ chat'.phase \notin {"routing", "waiting"} => chat'.phase = "done" /\ execs' = <<>>
<1>1. execs = <<>> /\ DOMAIN <<>> = {} BY DEF LimitsInv, Ask, Route
<1>2. chat \in [phase : {"idle", "routing", "waiting", "done", "lost"},
                asked : Assistants, mode : Modes]
  BY DEF LimitsInv, ChatOK
<1>3. ASSUME NEW a \in Assistants, NEW m \in Modes, Ask(a, m)
      PROVE  /\ Starts /\ UNCHANGED <<faults, reply>> /\ chat'.phase \in {"routing", "waiting"}
  <2>1. execs' = execs \/ (DOMAIN execs' = {1} /\ execs'[1] = Opened(a, 0, <<>>, m)) BY <1>3 DEF Ask
  <2>2. UNCHANGED <<faults, reply>> /\ chat'.phase \in {"routing", "waiting"} BY <1>3 DEF Ask
  <2> QED BY <1>1, <2>1, <2>2 DEF Starts, Opened
<1>4. ASSUME NEW plan, execs' = [n \in 1..Len(plan) |-> Opened(plan[n], 0, <<chat.asked>>, chat.mode)],
             chat' = [chat EXCEPT !.phase = "waiting"]
      PROVE  Starts /\ chat'.phase = "waiting"
  BY <1>2, <1>4 DEF Starts, Opened
<1>5. ASSUME UNCHANGED execs, chat' = [chat EXCEPT !.phase = "done"]
      PROVE  Starts /\ chat'.phase = "done" /\ execs' = <<>>
  BY <1>1, <1>2, <1>5 DEF Starts
<1>6. CASE Route
  <2>1. /\ UNCHANGED faults
        /\ \/ /\ \E plan \in Assignments(Specialists \ {chat.asked}, TopLimit) :
                   execs' = [n \in 1..Len(plan) |-> Opened(plan[n], 0, <<chat.asked>>, chat.mode)]
              /\ chat' = [chat EXCEPT !.phase = "waiting"] /\ UNCHANGED reply
           \/ chat' = [chat EXCEPT !.phase = "done"] /\ UNCHANGED execs
    BY <1>6 DEF Route
  <2> QED BY <1>1, <1>4, <1>5, <2>1
<1> QED BY <1>1, <1>3, <1>6

LEMMA CrashLoses ==
  ASSUME LimitsInv, Crash
  PROVE  /\ DOMAIN execs' = DOMAIN execs /\ UNCHANGED <<reply, faults>> /\ chat'.phase = "lost"
         /\ \A i \in DOMAIN execs :
              \/ Over(i) /\ execs'[i] = execs[i]
              \/ /\ ~Over(i) /\ execs'[i].phase = "lost"
                 /\ execs'[i].parent = execs[i].parent /\ execs'[i].result = execs[i].result
                 /\ execs'[i].row = execs[i].row /\ execs'[i].acted = execs[i].acted
<1>1. /\ execs' = [i \in DOMAIN execs |-> IF Over(i) THEN execs[i] ELSE Goes(i, "lost")]
      /\ chat' = [chat EXCEPT !.phase = "lost"] /\ UNCHANGED <<reply, faults>>
  BY DEF Crash
<1>2. chat'.phase = "lost" BY <1>1 DEF LimitsInv, ChatOK
<1>3. \A i \in DOMAIN execs : execs[i] \in Exec BY DEF LimitsInv, Limits, Tree
<1>4. ASSUME NEW i \in DOMAIN execs, ~Over(i)
      PROVE  /\ execs'[i].phase = "lost" /\ execs'[i].parent = execs[i].parent
             /\ execs'[i].result = execs[i].result /\ execs'[i].row = execs[i].row
             /\ execs'[i].acted = execs[i].acted
  BY <1>1, <1>3, <1>4 DEF Goes, Exec
<1> QED BY <1>1, <1>2, <1>4

LEMMA VerdictsStay == ASSUME LimitsInv, Verdicts, [Next]_vars PROVE Verdicts'
<1>0. execs \in Seq(Exec) /\ faults \in Nat BY DEF LimitsInv, Limits, Tree
<1>1. ASSUME Starts PROVE Verdicts' BY <1>1 DEF Starts, Verdicts, Verdict
<1>2. CASE (\E a \in Assistants, m \in Modes : Ask(a, m)) \/ Route BY <1>1, <1>2, RequestStarts
<1>3. CASE Reject \/ Join \/ TimeOut
  <2>1. UNCHANGED execs /\ (faults' = 0 => faults = 0)
    BY <1>0, <1>3 DEF Reject, Join, TimeOut, Fault
  <2> QED BY <2>1 DEF Verdicts, Verdict
<1>4. ASSUME NEW i \in DOMAIN execs, Execute(i) PROVE Verdicts'
  <2>1. Alters(i) /\ (faults' = 0 => faults = 0) BY <1>4, ExecuteAlters DEF Verdicts
  <2>2. LimitsInv' BY <1>4, LimitsStep, TeamAssumption DEF Next
  <2>3. execs' \in Seq(Exec) BY <2>2 DEF LimitsInv, Limits, Tree, Exec, Phases, Modes
  <2>4. ASSUME NEW j \in DOMAIN execs' PROVE Verdict(execs'[j], faults')
    <3>1. j \in DOMAIN execs \/ (j = Len(execs) + 1 /\ Len(execs') = Len(execs) + 1)
      BY <1>0, <2>1, <2>3 DEF Alters
    <3>2. CASE j \in DOMAIN execs /\ j # i
      <4>1. execs'[j] = execs[j] BY <2>1, <3>2 DEF Alters
      <4> QED BY <2>1, <3>2, <4>1 DEF Verdicts, Verdict
    <3>3. CASE j = i BY <2>1, <3>3 DEF Alters
    <3>4. CASE j = Len(execs) + 1 /\ Len(execs') = Len(execs) + 1
      BY <1>0, <2>1, <3>4 DEF Alters
    <3> QED BY <3>1, <3>2, <3>3, <3>4
  <2> QED BY <2>4 DEF Verdicts
<1>5. CASE Crash
  BY <1>5, CrashLoses DEF Verdicts, Verdict, Over
<1>6. CASE UNCHANGED vars BY <1>6 DEF vars, Verdicts, Verdict
<1> QED BY <1>2, <1>3, <1>4, <1>5, <1>6 DEF Next, Chat

(* The delegation shown as running is running, unless the process ended or *)
(* a statement failed; an execution that is over left its verdict: every   *)
(* way out of executeDelegation() writes its row.                          *)
THEOREM RowsAreSettled == Spec => []RowsSettle
<1>1. Init => Verdicts BY DEF Init, Verdicts
<1>2. Verdicts => RowsSettle BY DEF Verdicts, Verdict, RowsSettle, Over
<1>3. LimitsInv /\ Verdicts /\ [Next]_vars => Verdicts' BY VerdictsStay
<1> QED BY <1>1, <1>2, <1>3, LimitsInvHolds, PTL DEF Spec

-----------------------------------------------------------------------------
(* Helpers are over before those they help *)

(* Of those that work for an execution only the last may still run, and    *)
(* only while it is waited for.                                            *)
Helpers ==
  \A i, j \in DOMAIN execs :
    execs[j].parent = i /\ execs[i].phase # "lost" =>
      Over(j) \/ (execs[i].phase = "waiting" /\ Child(i, j))

LEMMA ExecuteKeepsHelpers ==
  ASSUME LimitsInv, LimitsInv', Verdicts, Helpers, NEW k \in DOMAIN execs, Execute(k)
  PROVE  Helpers'
<1>1. /\ execs \in Seq(Exec) /\ \A j \in DOMAIN execs : execs[j].parent < j
  BY DEF LimitsInv, Limits, Tree
<1>2. execs' \in Seq(Exec) BY DEF LimitsInv, Limits, Tree, Exec, Phases, Modes
<1>3. /\ Alters(k) /\ ~Over(k) /\ execs[k].phase # "lost"
      /\ execs[k].phase = "waiting" => \E c \in DOMAIN execs : Child(k, c) /\ Over(c)
  BY ExecuteAlters DEF Verdicts
<1>4. /\ Len(execs) \in Nat /\ DOMAIN execs = 1..Len(execs) /\ DOMAIN execs' = 1..Len(execs')
      /\ \A j \in DOMAIN execs : execs[j].parent \in Nat /\ execs'[j].parent = execs[j].parent
      /\ DOMAIN execs \subseteq DOMAIN execs'
      /\ \A j \in DOMAIN execs' : j \notin DOMAIN execs =>
           /\ j = Len(execs) + 1 /\ execs'[j].parent = k /\ execs'[k].phase = "waiting"
  <2>1. \A j \in DOMAIN execs : execs[j] \in Exec BY <1>1
  <2>2. Len(execs) \in Nat /\ DOMAIN execs = 1..Len(execs) /\ DOMAIN execs' = 1..Len(execs')
    BY <1>1, <1>2
  <2>3. Len(execs') = Len(execs) \/ Len(execs') = Len(execs) + 1 BY <1>3 DEF Alters
  <2>4. \A j \in DOMAIN execs : execs[j].parent \in Nat BY <2>1 DEF Exec
  <2>5. \A j \in DOMAIN execs : execs'[j].parent = execs[j].parent BY <1>3 DEF Alters
  <2> DEFINE n == Len(execs)
             m == Len(execs')
  <2>6. n \in Nat /\ (m = n \/ m = n + 1) /\ DOMAIN execs = 1..n /\ DOMAIN execs' = 1..m
    BY <2>2, <2>3
  <2> HIDE DEF n, m
  <2>7. m = n + 1 => execs'[n + 1].parent = k /\ execs'[k].phase = "waiting"
    <3>1. m = n + 1 => m # n BY <2>6
    <3> QED BY <1>3, <3>1 DEF Alters, n, m
  <2>8. DOMAIN execs \subseteq DOMAIN execs'
        /\ \A j \in DOMAIN execs' : j \notin DOMAIN execs => j = n + 1 /\ m = n + 1
    BY <2>6
  <2> QED BY <2>2, <2>4, <2>5, <2>7, <2>8 DEF n
<1>5. \A j \in DOMAIN execs : Over(j) => Over(j)' BY <1>3 DEF Alters, Over
<1>6. ASSUME NEW i \in DOMAIN execs', NEW j \in DOMAIN execs',
             execs'[j].parent = i, execs'[i].phase # "lost"
      PROVE  Over(j)' \/ (execs'[i].phase = "waiting" /\ \A d \in DOMAIN execs' : execs'[d].parent = i => d <= j)
  <2>1. CASE j \notin DOMAIN execs BY <1>4, <1>6, <2>1
  <2>2. CASE j \in DOMAIN execs
    <3>1. execs[j].parent = i /\ i \in DOMAIN execs BY <1>1, <1>4, <1>6, <2>2
    <3>2. CASE i # k
      <4>1. execs'[i] = execs[i] BY <1>3, <3>1, <3>2 DEF Alters
      <4>2. Over(j) \/ (execs[i].phase = "waiting" /\ Child(i, j))
        BY <1>6, <2>2, <3>1, <4>1 DEF Helpers
      <4>3. \A d \in DOMAIN execs' : execs'[d].parent = i => d \in DOMAIN execs /\ execs[d].parent = i
        BY <1>4, <3>2
      <4> QED BY <1>5, <2>2, <3>1, <4>1, <4>2, <4>3 DEF Child
    <3>3. CASE i = k
      <4>1. Over(j) \/ (execs[k].phase = "waiting" /\ Child(k, j))
        BY <1>3, <2>2, <3>1, <3>3 DEF Helpers
      <4>2. ASSUME execs[k].phase = "waiting", Child(k, j) PROVE Over(j)
        <5>1. PICK c \in DOMAIN execs : Child(k, c) /\ Over(c) BY <1>3, <4>2
        <5>2. c <= j /\ j <= c BY <2>2, <4>2, <5>1 DEF Child
        <5>3. c = j BY <1>4, <2>2, <5>1, <5>2
        <5> QED BY <5>1, <5>3
      <4> QED BY <1>5, <2>2, <4>1, <4>2
    <3> QED BY <3>2, <3>3
  <2> QED BY <2>1, <2>2
<1> QED BY <1>6 DEF Helpers, Child

LEMMA HelpersStay == ASSUME LimitsInv, Verdicts, Helpers, [Next]_vars PROVE Helpers'
<1>1. /\ execs \in Seq(Exec) /\ faults \in Nat BY DEF LimitsInv, Limits, Tree
<1>2. LimitsInv' BY LimitsStep, TeamAssumption
<1>3. execs' \in Seq(Exec) BY <1>2 DEF LimitsInv, Limits, Tree, Exec, Phases, Modes
<1>4. ASSUME Starts PROVE Helpers'
  <2>1. 0 \notin DOMAIN execs' BY <1>3
  <2> QED BY <1>4, <2>1 DEF Starts, Helpers
<1>5. CASE (\E a \in Assistants, m \in Modes : Ask(a, m)) \/ Route BY <1>4, <1>5, RequestStarts
<1>6. CASE Reject \/ Join \/ TimeOut \/ UNCHANGED vars
  <2>1. UNCHANGED execs BY <1>6 DEF Reject, Join, TimeOut, vars
  <2> QED BY <2>1 DEF Helpers, Child, Over
<1>7. ASSUME NEW i \in DOMAIN execs, Execute(i) PROVE Helpers'
  BY <1>2, <1>7, ExecuteKeepsHelpers
<1>8. CASE Crash
  <2>1. /\ DOMAIN execs' = DOMAIN execs
        /\ \A i \in DOMAIN execs : execs'[i].parent = execs[i].parent
        /\ \A i \in DOMAIN execs : Over(i) => Over(i)'
        /\ \A i \in DOMAIN execs : execs'[i].phase # "lost" => Over(i)
    BY <1>8, CrashLoses DEF Over
  <2>2. ASSUME NEW i \in DOMAIN execs', NEW j \in DOMAIN execs',
               execs'[j].parent = i, execs'[i].phase # "lost"
        PROVE  Over(j)'
    BY <2>1, <2>2 DEF Helpers, Over
  <2> QED BY <2>2 DEF Helpers
<1> QED BY <1>5, <1>6, <1>7, <1>8 DEF Next, Chat

(* Child results are returned to the assigning agent before its final      *)
(* actions run: an execution that concludes, acts or settles has nobody    *)
(* working for it any more.                                                *)
THEOREM HelpersAreFirst == Spec => []HelpersFirst
<1>1. Init => Verdicts /\ Helpers BY DEF Init, Verdicts, Helpers
<1>2. Helpers => HelpersFirst BY DEF Helpers, HelpersFirst
<1>3. LimitsInv /\ Verdicts /\ [Next]_vars => Verdicts' BY VerdictsStay
<1>4. LimitsInv /\ Verdicts /\ Helpers /\ [Next]_vars => Helpers' BY HelpersStay
<1> QED BY <1>1, <1>2, <1>3, <1>4, LimitsInvHolds, PTL DEF Spec

-----------------------------------------------------------------------------
(* What the client is told *)

(* Induction over the executions: a set of them has a first one.           *)
LEMMA FirstOf ==
  ASSUME NEW T, T \subseteq Nat, T # {}
  PROVE  \E m \in T : \A n \in T : m <= n
<1> DEFINE R == OpToRel(<, Nat)
<1>1. IsWellFoundedOn(R, Nat) BY NatLessThanWellFounded
<1>2. \A m, n \in Nat : <<n, m>> \in R <=> n < m BY DEF OpToRel
<1> HIDE DEF R
<1>3. PICK m \in T : \A n \in T : <<n, m>> \notin R BY <1>1, WFMin
<1>4. m \in Nat /\ \A n \in T : n \in Nat /\ ~(n < m) BY <1>2, <1>3
<1> QED BY <1>4

(* When those that chat() started are over, so are all: nobody is left     *)
(* behind by an execution that is over.                                    *)
LEMMA AllAreOver ==
  ASSUME LimitsInv, Helpers, \A i \in Top : Over(i)
  PROVE  \A i \in DOMAIN execs : Over(i)
<1> SUFFICES ASSUME NEW T, T = { i \in DOMAIN execs : ~Over(i) }, T # {} PROVE FALSE
  OBVIOUS
<1>1. /\ execs \in Seq(Exec) /\ \A i \in DOMAIN execs : execs[i].parent < i
      /\ \A i \in DOMAIN execs : execs[i].parent \in Nat
  <2>1. execs \in Seq(Exec) /\ \A i \in DOMAIN execs : execs[i].parent < i
    BY DEF LimitsInv, Limits, Tree
  <2>2. \A i \in DOMAIN execs : execs[i] \in Exec BY <2>1
  <2> QED BY <2>1, <2>2 DEF Exec
<1>2. T \subseteq Nat BY <1>1
<1>3. PICK m \in T : \A n \in T : m <= n BY <1>2, FirstOf
<1>4. m \in DOMAIN execs /\ ~Over(m) /\ m \in Nat BY <1>2
<1> DEFINE p == execs[m].parent
<1>5. p \in Nat /\ p < m BY <1>1, <1>4
<1>6. p # 0 BY <1>4 DEF Top
<1>7. p \in DOMAIN execs BY <1>1, <1>4, <1>5, <1>6
<1>8. Over(p) BY <1>3, <1>4, <1>5, <1>7
<1> QED BY <1>4, <1>7, <1>8 DEF Helpers, Over

(* When all have returned, chat() sees all their results.                  *)
LEMMA AllAreReached ==
  ASSUME LimitsInv, \A i \in DOMAIN execs : Returned(i)
  PROVE  Flattened = DOMAIN execs
<1> DEFINE Through(f) == [i \in DOMAIN execs |->
                            Returned(i) /\ (execs[i].parent # 0 => f[execs[i].parent])]
           all == [i \in DOMAIN execs |-> TRUE]
           Reached == CHOOSE f : f = Through(f)
<1>1. /\ execs \in Seq(Exec) /\ \A i \in DOMAIN execs : execs[i].parent < i
      /\ \A i \in DOMAIN execs : execs[i].parent \in Nat
  <2>1. execs \in Seq(Exec) /\ \A i \in DOMAIN execs : execs[i].parent < i
    BY DEF LimitsInv, Limits, Tree
  <2>2. \A i \in DOMAIN execs : execs[i] \in Exec BY <2>1
  <2> QED BY <2>1, <2>2 DEF Exec
<1>2. \A i \in DOMAIN execs : execs[i].parent # 0 => execs[i].parent \in DOMAIN execs
  BY <1>1
<1>3. all = Through(all) BY <1>2
<1>4. Reached = Through(Reached)
  <2> HIDE DEF Through, all
  <2> QED BY <1>3
<1>5. Flattened = { i \in DOMAIN execs : Reached[i] } BY DEF Flattened
<1> HIDE DEF Reached
<1>6. \A i \in DOMAIN execs : Reached[i] = (execs[i].parent # 0 => Reached[execs[i].parent])
  BY <1>4
<1>7. ASSUME NEW T, T = { i \in DOMAIN execs : ~Reached[i] }, T # {} PROVE FALSE
  <2>1. T \subseteq Nat BY <1>1, <1>7
  <2>2. PICK m \in T : \A n \in T : m <= n BY <1>7, <2>1, FirstOf
  <2>3. m \in DOMAIN execs /\ ~Reached[m] /\ m \in Nat BY <1>7, <2>1
  <2>4. execs[m].parent # 0 /\ ~Reached[execs[m].parent] BY <1>6, <2>3
  <2>5. execs[m].parent \in T BY <1>2, <1>7, <2>3, <2>4
  <2>6. execs[m].parent < m /\ execs[m].parent \in Nat BY <1>1, <2>3
  <2> QED BY <2>2, <2>3, <2>5, <2>6
<1>8. \A i \in DOMAIN execs : Reached[i] BY <1>7
<1> QED BY <1>5, <1>8

(* The reply stands only for a request that chat() has ended, and that has *)
(* nothing under way; while no statement failed a client is told of a      *)
(* failure when nobody acted.                                              *)
Replies ==
  /\ reply \in {"answer", "error"} => chat.phase \in {"done", "lost"}
  /\ reply = "answer" \/ (reply = "error" /\ faults = 0) => \A i \in DOMAIN execs : Over(i)
  /\ reply = "error" /\ faults = 0 => \A i \in DOMAIN execs : ~execs[i].acted

LEMMA JoinKeepsReplies == ASSUME LimitsInv, Verdicts, Helpers, Replies, Join PROVE Replies'
<1>1. /\ chat.phase = "waiting" /\ \A i \in Top : Returned(i)
      /\ UNCHANGED execs /\ faults \in Nat
      /\ reply' = reply \/ reply' = "answer" \/ reply' = "error"
  BY DEF Join, Answer, LimitsInv, Limits
<1>2. chat'.phase = "done" BY DEF Join, LimitsInv, ChatOK
<1>3. reply \notin {"answer", "error"} BY <1>1 DEF Replies
<1>4. \A i \in Top : Over(i) BY <1>1 DEF Top, Verdicts, Verdict, Over, Returned
<1>5. \A i \in DOMAIN execs : Over(i) BY <1>4, AllAreOver
<1>6. ASSUME reply' = "error", faults' = 0 PROVE \A i \in DOMAIN execs : ~execs[i].acted
  <2>1. faults = 0 BY <1>1, <1>6 DEF Join, Fault
  <2>2. \A i \in DOMAIN execs : Returned(i)
    BY <1>5, <2>1 DEF Verdicts, Verdict, Over, Returned
  <2>3. Flattened = DOMAIN execs BY <2>2, AllAreReached
  <2>4. \A i \in DOMAIN execs : execs[i].result = "failed"
    <3>1. ~Fault BY <1>1, <1>6 DEF Fault
    <3>2. IF \A i \in DOMAIN execs : execs[i].result = "failed"
          THEN Answer("error") ELSE Answer("answer")
      BY <2>3, <3>1 DEF Join
    <3> QED BY <1>3, <1>6, <3>2 DEF Answer
  <2> QED BY <1>5, <2>1, <2>4 DEF Verdicts, Verdict, Over
<1> QED BY <1>1, <1>2, <1>5, <1>6 DEF Replies, Over

LEMMA RepliesStay ==
  ASSUME LimitsInv, Verdicts, Helpers, Replies, [Next]_vars PROVE Replies'
<1>1. /\ execs \in Seq(Exec) /\ faults \in Nat BY DEF LimitsInv, Limits, Tree
<1>2. CASE (\E a \in Assistants, m \in Modes : Ask(a, m)) \/ Route
  <2>1. execs = <<>> /\ Starts /\ UNCHANGED faults
        /\ (chat'.phase \in {"routing", "waiting"} => UNCHANGED reply)
        /\ (chat'.phase \notin {"routing", "waiting"} => chat'.phase = "done" /\ execs' = <<>>)
    BY <1>2, RequestStarts
  <2>2. chat.phase \in {"idle", "routing"} BY <1>2 DEF Ask, Route
  <2>3. reply \notin {"answer", "error"} BY <2>2 DEF Replies
  <2>4. DOMAIN <<>> = {} OBVIOUS
  <2> QED BY <2>1, <2>3, <2>4 DEF Replies
<1>3. CASE Reject
  <2>1. chat.phase = "waiting" /\ \E i \in DOMAIN execs : execs[i].result = "rejected"
    BY <1>3 DEF Reject, Top
  <2>2. faults # 0 BY <2>1 DEF Verdicts, Verdict
  <2>3. /\ chat'.phase = "done" /\ UNCHANGED <<execs, faults>> /\ reply' \in {reply, "error"}
    BY <1>3 DEF Reject, Answer, LimitsInv, ChatOK
  <2>4. reply # "answer" BY <2>1 DEF Replies
  <2> QED BY <2>2, <2>3, <2>4 DEF Replies
<1>4. CASE Join BY <1>4, JoinKeepsReplies
<1>5. CASE TimeOut BY <1>5 DEF TimeOut, Replies
<1>6. ASSUME NEW i \in DOMAIN execs, Execute(i) PROVE Replies'
  <2>1. ~Over(i) /\ UNCHANGED <<chat, reply>> /\ (faults' = 0 => faults = 0)
    BY <1>6, ExecuteAlters DEF Verdicts
  <2> QED BY <2>1 DEF Replies
<1>7. CASE Crash
  <2>1. /\ DOMAIN execs' = DOMAIN execs /\ UNCHANGED <<reply, faults>> /\ chat'.phase = "lost"
        /\ \A i \in DOMAIN execs : Over(i) => execs'[i] = execs[i]
    BY <1>7, CrashLoses
  <2> QED BY <2>1 DEF Replies, Over
<1>8. CASE UNCHANGED vars BY <1>8 DEF vars, Replies, Over
<1> QED BY <1>2, <1>3, <1>4, <1>5, <1>6, <1>7, <1>8 DEF Next, Chat

(* A client that gets an answer gets it when all is over, and one that is  *)
(* told the request failed may send it again: unless a statement failed,   *)
(* nothing was done for it, by helpers of failed executions neither.       *)
THEOREM RepliesAreTrue == Spec => []ReplyIsTrue
<1>1. Init => Verdicts /\ Helpers /\ Replies BY DEF Init, Verdicts, Helpers, Replies
<1>2. Replies => ReplyIsTrue BY DEF Replies, ReplyIsTrue
<1>3. LimitsInv /\ Verdicts /\ [Next]_vars => Verdicts' BY VerdictsStay
<1>4. LimitsInv /\ Verdicts /\ Helpers /\ [Next]_vars => Helpers' BY HelpersStay
<1>5. LimitsInv /\ Verdicts /\ Helpers /\ Replies /\ [Next]_vars => Replies' BY RepliesStay
<1> QED BY <1>1, <1>2, <1>3, <1>4, <1>5, LimitsInvHolds, PTL DEF Spec

=============================================================================
