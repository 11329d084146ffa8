--------------------------- MODULE WorkspaceProofs ---------------------------
(***************************************************************************)
(* Proofs about Workspace for any projects, any number of requests under   *)
(* way and any scenarios: the types and references, that deals are sound,  *)
(* that the demo rows of a project are those it records, and that the      *)
(* amounts of an invoice add up.                                           *)
(***************************************************************************)
EXTENDS Workspace, SequenceTheorems, WellFoundedInduction, TLAPS

-----------------------------------------------------------------------------
(* Sums *)

(* Induction over the amounts: a set of numbers has a least one. *)
LEMMA LeastOf ==
  ASSUME NEW T, T \subseteq Nat, T # {}
  PROVE  \E m \in T : \A n \in T : m <= n
<1> DEFINE R == OpToRel(<, Nat)
<1>1. IsWellFoundedOn(R, Nat) BY NatLessThanWellFounded
<1>2. \A m, n \in Nat : <<n, m>> \in R <=> n < m BY DEF OpToRel
<1> HIDE DEF R
<1>3. PICK m \in T : \A n \in T : <<n, m>> \notin R BY <1>1, WFMin
<1>4. m \in Nat /\ \A n \in T : n \in Nat /\ ~(n < m) BY <1>2, <1>3
<1> QED BY <1>4

(* The sums are those that their recursion describes. *)
LEMMA SumsOf ==
  ASSUME NEW a \in Seq(Int)
  PROVE  /\ Sums(a)[0] = 0
         /\ \A k \in 1..Len(a) : Sums(a)[k] = Sums(a)[k - 1] + a[k]
         /\ \A k \in 0..Len(a) : Sums(a)[k] \in Int
<1> DEFINE Sum(g) == [k \in 0..Len(a) |-> IF k = 0 THEN 0 ELSE g[k - 1] + a[k]]
           sum == CHOOSE g : g = Sum(g)
           Upto(n, g) == /\ g \in [0..n -> Int] /\ g[0] = 0
                         /\ \A k \in 1..n : g[k] = g[k - 1] + a[k]
           Has(n) == \E g : Upto(n, g)
           Without == { n \in 0..Len(a) : ~Has(n) }
<1>1. Len(a) \in Nat /\ \A k \in 1..Len(a) : a[k] \in Int OBVIOUS
<1>2. Without = {}
  <2> SUFFICES ASSUME Without # {} PROVE FALSE OBVIOUS
  <2> HIDE DEF Has
  <2>1. Without \subseteq Nat OBVIOUS
  <2>2. PICK m \in Without : \A n \in Without : m <= n
    <3> HIDE DEF Without
    <3> QED BY <2>1, LeastOf
  <2>3. m \in 0..Len(a) /\ m \in Nat /\ ~Has(m) BY <1>1
  <2>4. CASE m = 0
    <3>1. Upto(0, [k \in 0..0 |-> 0]) OBVIOUS
    <3> HIDE DEF Upto
    <3> QED BY <2>3, <2>4, <3>1 DEF Has
  <2>5. CASE m # 0
    <3>1. m - 1 \in 0..Len(a) /\ ~(m <= m - 1) /\ m \in 1..Len(a) BY <1>1, <2>3, <2>5
    <3>2. Has(m - 1) BY <2>2, <3>1
    <3>3. PICK g : Upto(m - 1, g) BY <3>2 DEF Has
    <3> DEFINE h == [k \in 0..m |-> IF k = m THEN g[m - 1] + a[m] ELSE g[k]]
    <3>4. g[m - 1] \in Int /\ a[m] \in Int BY <1>1, <3>1, <3>3
    <3>5. h \in [0..m -> Int] BY <2>3, <3>3, <3>4
    <3>6. h[0] = 0 BY <2>3, <2>5, <3>3
    <3>7. \A k \in 1..m : h[k] = h[k - 1] + a[k]
      <4> SUFFICES ASSUME NEW k \in 1..m PROVE h[k] = h[k - 1] + a[k] OBVIOUS
      <4>1. k - 1 \in 0..m /\ k \in 0..m /\ k - 1 # m BY <2>3
      <4>2. h[k - 1] = g[k - 1] BY <4>1
      <4>3. CASE k = m BY <4>1, <4>2, <4>3
      <4>4. CASE k # m
        <5>1. k \in 1..(m - 1) BY <2>3, <4>4
        <5>2. h[k] = g[k] BY <4>1, <4>4
        <5> QED BY <3>3, <4>2, <5>1, <5>2
      <4> QED BY <4>3, <4>4
    <3> HIDE DEF h
    <3>8. Upto(m, h) BY <3>5, <3>6, <3>7
    <3> HIDE DEF Upto
    <3> QED BY <2>3, <3>8 DEF Has
  <2> QED BY <2>4, <2>5
<1>3. PICK g : Upto(Len(a), g)
  <2>1. Len(a) \in 0..Len(a) BY <1>1
  <2> HIDE DEF Upto
  <2> QED BY <1>2, <2>1
<1>4. g = Sum(g) BY <1>1, <1>3
<1>5. sum = Sum(sum) BY <1>4
<1>6. Sums(a) = sum BY DEF Sums
<1> HIDE DEF sum
<1>7. /\ Sums(a)[0] = 0
      /\ \A k \in 1..Len(a) : Sums(a)[k] = Sums(a)[k - 1] + a[k]
  BY <1>1, <1>5, <1>6
<1>8. ASSUME NEW T, T = { k \in 0..Len(a) : Sums(a)[k] \notin Int }, T # {} PROVE FALSE
  <2>1. T \subseteq Nat BY <1>8
  <2>2. PICK m \in T : \A n \in T : m <= n BY <1>8, <2>1, LeastOf
  <2>3. m \in 0..Len(a) /\ Sums(a)[m] \notin Int BY <1>8
  <2>4. m \in 1..Len(a) BY <1>1, <1>7, <2>3
  <2>5. m - 1 \in 0..Len(a) /\ ~(m <= m - 1) BY <1>1, <2>4
  <2>6. Sums(a)[m - 1] \in Int BY <1>8, <2>2, <2>5
  <2> QED BY <1>1, <1>7, <2>3, <2>4, <2>6
<1> QED BY <1>7, <1>8

LEMMA TotalTyped == \A a \in Seq(Int) : Total(a) \in Int
<1> SUFFICES ASSUME NEW a \in Seq(Int) PROVE Total(a) \in Int OBVIOUS
<1>1. Len(a) \in 0..Len(a) OBVIOUS
<1> QED BY <1>1, SumsOf DEF Total

LEMMA LineTotalsTyped ==
  \A lines \in Seq(Line) : /\ LineTotals(lines) \in Seq(Int)
                           /\ Len(LineTotals(lines)) = Len(lines)
                           /\ \A k \in DOMAIN lines : LineTotals(lines)[k] = LineTotal(lines[k])
<1> SUFFICES ASSUME NEW lines \in Seq(Line)
             PROVE  /\ LineTotals(lines) \in Seq(Int)
                    /\ Len(LineTotals(lines)) = Len(lines)
                    /\ \A k \in DOMAIN lines : LineTotals(lines)[k] = LineTotal(lines[k])
  OBVIOUS
<1> DEFINE n == Len(lines)
<1>1. n \in Nat /\ DOMAIN lines = 1..n OBVIOUS
<1>2. \A k \in 1..n : LineTotal(lines[k]) \in Int
  <2>1. \A k \in 1..n : lines[k] \in Line BY <1>1
  <2> QED BY <2>1 DEF LineTotal, Line
<1>3. LineTotals(lines) = [k \in 1..n |-> LineTotal(lines[k])] BY <1>1 DEF LineTotals
<1> HIDE DEF n
<1>4. LineTotals(lines) \in [1..n -> Int] BY <1>2, <1>3
<1>5. LineTotals(lines) \in Seq(Int) BY <1>1, <1>4
<1>6. Len(LineTotals(lines)) = n BY <1>1, <1>4
<1> QED BY <1>1, <1>3, <1>5, <1>6 DEF n

-----------------------------------------------------------------------------
(* Types *)

(* A payment that is under way was checked to be at least zero. *)
Typing ==
  /\ pipelines \in Seq(Pipeline) /\ deals \in Seq(Deal) /\ invoices \in Seq(Invoice)
  /\ accounts \in Nat /\ transactions \in Nat
  /\ projects \in [Projects -> Project] /\ rows \in [Projects -> Counts]
  /\ requests \in [Requests -> Request] /\ budget \in [Kinds -> Nat]
  /\ \A q \in Requests : At(q, "pay") => requests[q].amount >= 0

TablesTyped ==
  /\ pipelines' \in Seq(Pipeline) /\ deals' \in Seq(Deal) /\ invoices' \in Seq(Invoice)
  /\ accounts' \in Nat /\ transactions' \in Nat
  /\ projects' \in [Projects -> Project] /\ rows' \in [Projects -> Counts]

(* Request q becomes r, and what is still to be sent does not grow. *)
Sent(q, r) ==
  /\ r \in Request /\ (r.step = "pay" => r.amount >= 0)
  /\ requests' = [requests EXCEPT ![q] = r] /\ budget' \in [Kinds -> Nat]

LEMMA SentTyped ==
  ASSUME Typing, NEW q \in Requests, NEW r, Sent(q, r), TablesTyped
  PROVE  Typing'
<1>1. requests' \in [Requests -> Request] BY DEF Sent, Typing
<1>2. \A o \in Requests : requests'[o].step = "pay" => requests'[o].amount >= 0
  BY DEF Sent, Typing, At
<1> QED BY <1>1, <1>2 DEF Typing, TablesTyped, Sent, At

LEMMA CountsTyped ==
  /\ NoRows \in Counts /\ FinanceRows \in Counts /\ WorkRows \in Counts /\ CrmRows \in Counts
  /\ \A a, b \in Counts : Plus(a, b) \in Counts
<1>1. NoRows \in Counts BY DEF NoRows, Counts
<1>2. FinanceRows \in Counts BY <1>1 DEF FinanceRows, Counts
<1>3. WorkRows \in Counts BY <1>1 DEF WorkRows, Counts
<1>4. CrmRows \in Counts BY <1>1 DEF CrmRows, Counts
<1>5. \A a, b \in Counts : Plus(a, b) \in Counts BY DEF Plus, Counts
<1> QED BY <1>1, <1>2, <1>3, <1>4, <1>5

LEMMA DataRowsTyped == \A links \in SUBSET Linked : DataRows(links) \in Counts
<1>1. ASSUME NEW links \in SUBSET Linked PROVE CustomerRows(links) \in Counts
  <2> DEFINE c == One("company" \notin links)
             n == One("contact" \notin links)
             d == One("deal" \notin links)
             s == 5 * One("deal" \notin links)
  <2>1. c \in Nat /\ n \in Nat /\ d \in Nat /\ s \in Nat BY DEF One
  <2>2. CustomerRows(links) = [NoRows EXCEPT !["companies"] = c, !["contacts"] = n, !["pipelines"] = d,
                                             !["deals"] = d, !["stages"] = s]
    BY DEF CustomerRows
  <2> HIDE DEF c, n, d, s
  <2>3. NoRows \in [RowTypes -> Nat] BY CountsTyped DEF Counts
  <2> QED BY <2>1, <2>2, <2>3 DEF Counts
<1> QED BY <1>1, CountsTyped DEF DataRows

LEMMA NothingTyped == NoProject \in Project /\ NoDeal \in Deal /\ NoStage \in Stage /\ Idle \in Request
<1>1. NoProject \in Project BY CountsTyped DEF NoProject, Project
<1>2. NoStage \in Stage BY DEF NoStage, Stage, Names
<1>3. NoDeal \in Deal BY <1>2 DEF NoDeal, Deal, Statuses
<1>4. Idle \in Request BY <1>1, <1>2, <1>3 DEF Idle, Request, Steps
<1> QED BY <1>1, <1>2, <1>3, <1>4

LEMMA SpendTyped ==
  ASSUME Typing, NEW kind \in Kinds, Spend(kind)
  PROVE  budget' \in [Kinds -> Nat]
BY DEF Spend, Typing

(* What Start, Goes and Ends send. *)
LEMMA StartSends ==
  ASSUME Typing, NEW q \in Requests, NEW kind \in Kinds, NEW r \in Request,
         r.step = "pay" => r.amount >= 0, Start(q, kind, r)
  PROVE  Sent(q, [r EXCEPT !.kind = kind])
<1>1. [r EXCEPT !.kind = kind] \in Request /\ [r EXCEPT !.kind = kind].step = r.step
      /\ [r EXCEPT !.kind = kind].amount = r.amount
  BY DEF Request
<1>2. budget' \in [Kinds -> Nat] BY DEF Start, Spend, Typing
<1> QED BY <1>1, <1>2 DEF Start, Sent

LEMMA GoesSends ==
  ASSUME Typing, NEW q \in Requests, NEW r \in Request, r.step = "pay" => r.amount >= 0, Goes(q, r)
  PROVE  Sent(q, r)
BY DEF Goes, Sent, Typing

LEMMA EndsSends == ASSUME Typing, NEW q \in Requests, Ends(q) PROVE Sent(q, Idle)
BY GoesSends, NothingTyped DEF Ends, Idle

LEMMA TypingInitially == Init => Typing
<1> SUFFICES ASSUME Init PROVE Typing OBVIOUS
<1>1. PICK s \in Scenarios : projects = s.projects /\ budget = s.budget BY DEF Init
<1>2. projects \in [Projects -> Project] /\ budget \in [Kinds -> Nat]
  BY <1>1, WorkspaceAssumption
<1>3. rows \in [Projects -> Counts]
  <2>1. \A p \in Projects : projects[p].data \in Counts /\ projects[p].crm \in Counts
    BY <1>2 DEF Project
  <2> QED BY <2>1, CountsTyped DEF Init, Recorded
<1>4. requests \in [Requests -> Request] /\ \A q \in Requests : ~At(q, "pay")
  BY NothingTyped DEF Init, At, Idle
<1>5. /\ pipelines \in Seq(Pipeline) /\ deals \in Seq(Deal) /\ invoices \in Seq(Invoice)
      /\ accounts \in Nat /\ transactions \in Nat
  BY DEF Init
<1> QED BY <1>2, <1>3, <1>4, <1>5 DEF Typing

(* The stages that there are. *)
HasStage(s, ps) == s.pipeline \in DOMAIN ps /\ s.name \in ps[s.pipeline].stages

LEMMA StagesTyped ==
  ASSUME Typing
  PROVE  /\ StageIds \subseteq Stage /\ NoStage \in Stage
         /\ \A s \in Stage : s \in StageIds <=> HasStage(s, pipelines)
<1>1. pipelines \in Seq(Pipeline) BY DEF Typing
<1>2. ASSUME NEW k \in DOMAIN pipelines PROVE k \in Nat /\ pipelines[k].stages \subseteq Names
  <2>1. k \in Nat /\ pipelines[k] \in Pipeline BY <1>1
  <2> QED BY <2>1 DEF Pipeline
<1>3. StageIds \subseteq Stage BY <1>2 DEF StageIds, Stage
<1>4. ASSUME NEW s \in Stage PROVE s \in StageIds <=> HasStage(s, pipelines)
  <2>1. ASSUME s \in StageIds PROVE HasStage(s, pipelines)
    BY <2>1 DEF StageIds, HasStage
  <2>2. ASSUME HasStage(s, pipelines) PROVE s \in StageIds
    <3>1. s \in [pipeline : {s.pipeline}, name : pipelines[s.pipeline].stages]
      BY <2>2 DEF HasStage, Stage
    <3> QED BY <2>2, <3>1 DEF StageIds, HasStage
  <2> QED BY <2>1, <2>2
<1> QED BY <1>3, <1>4, NothingTyped

LEMMA WrittenTyped ==
  ASSUME NEW now \in Deal, NEW seen \in Deal, NEW to \in Deal
  PROVE  /\ Written(now, seen, to) \in Deal
         /\ Written(now, seen, to).pipeline = Column(seen.pipeline, to.pipeline, now.pipeline)
         /\ Written(now, seen, to).stage = Column(seen.stage, to.stage, now.stage)
         /\ Written(now, seen, to).status = Column(seen.status, to.status, now.status)
         /\ Written(now, seen, to).live = now.live
         /\ ~Written(now, seen, to).loose => ~to.loose /\ [now EXCEPT !.live = seen.live] = seen
<1> DEFINE k == Column(seen.pipeline, to.pipeline, now.pipeline)
           s == Column(seen.stage, to.stage, now.stage)
           t == Column(seen.status, to.status, now.status)
           b == to.loose \/ [now EXCEPT !.live = seen.live] # seen
<1>1. k \in Nat /\ s \in Stage /\ t \in Statuses BY DEF Column, Deal
<1>2. b \in BOOLEAN OBVIOUS
<1>3. Written(now, seen, to) = [now EXCEPT !.pipeline = k, !.stage = s, !.status = t, !.loose = b]
  BY DEF Written
<1>4. ~b => ~to.loose /\ [now EXCEPT !.live = seen.live] = seen OBVIOUS
<1> HIDE DEF k, s, t, b
<1>5. /\ Written(now, seen, to) \in Deal /\ Written(now, seen, to).pipeline = k
      /\ Written(now, seen, to).stage = s /\ Written(now, seen, to).status = t
      /\ Written(now, seen, to).live = now.live /\ Written(now, seen, to).loose = b
  BY <1>1, <1>2, <1>3 DEF Deal
<1> QED BY <1>4, <1>5 DEF k, s, t

LEMMA TablesStayTyped == ASSUME Typing, UNCHANGED tables PROVE TablesTyped
BY DEF Typing, TablesTyped, tables

(* The requests that the CRM takes. *)
LEMMA CrmRequestTypes ==
  ASSUME Typing, NEW q \in Requests,
         \/ List(q)
         \/ \E k \in 0..Len(pipelines), stage \in StageIds \cup {NoStage} : Create(q, k, stage)
         \/ \E i \in DOMAIN deals :
              \/ \E k \in 0..Len(pipelines), stage \in StageIds \cup {NoStage} :
                   (k # 0 \/ stage # NoStage) /\ StartEdit(q, i, k, stage)
              \/ \E status \in Statuses \ {"other"} : StartStatus(q, i, status)
              \/ \E name \in Names : StartMove(q, i, name)
  PROVE  Typing'
<1>1. /\ Idle \in Request /\ StageIds \cup {NoStage} \subseteq Stage
      /\ pipelines \in Seq(Pipeline) /\ deals \in Seq(Deal)
      /\ \A k \in 0..Len(pipelines) : k \in Nat
      /\ \A i \in DOMAIN deals : deals[i] \in Deal /\ i \in Nat
  BY NothingTyped, StagesTyped DEF Typing
<1>2. ASSUME NEW kind \in Kinds, NEW r \in Request, r.step # "pay", Start(q, kind, r), UNCHANGED tables
      PROVE  Typing'
  BY <1>2, StartSends, SentTyped, TablesStayTyped
<1>3. CASE List(q)
  <2>1. [Idle EXCEPT !.step = "find"] \in Request /\ [Idle EXCEPT !.step = "find"].step # "pay"
    BY <1>1 DEF Request, Steps
  <2> QED BY <1>2, <1>3, <2>1 DEF List, Kinds
<1>4. ASSUME NEW k \in 0..Len(pipelines), NEW stage \in StageIds \cup {NoStage}, Create(q, k, stage)
      PROVE  Typing'
  <2> DEFINE r == [Idle EXCEPT !.step = "find", !.row = k, !.stage = stage]
  <2>1. r \in Request /\ r.step # "pay" BY <1>1 DEF Request, Steps
  <2>2. Start(q, "create", r) /\ UNCHANGED tables BY <1>4 DEF Create
  <2> HIDE DEF r
  <2> QED BY <1>2, <2>1, <2>2 DEF Kinds
<1>5. ASSUME NEW i \in DOMAIN deals, NEW k \in 0..Len(pipelines), NEW stage \in StageIds \cup {NoStage},
             StartEdit(q, i, k, stage)
      PROVE  Typing'
  <2> DEFINE at == IF stage # NoStage THEN stage ELSE deals[i].stage
             in == IF k # 0 THEN k ELSE deals[i].pipeline
             to == Restaged(deals[i], in, at)
             r == [Idle EXCEPT !.step = "edit", !.row = i, !.seen = deals[i], !.to = to]
  <2>1. at \in Stage /\ in \in Nat BY <1>1 DEF Deal
  <2>2. Start(q, "edit", r) /\ UNCHANGED tables BY <1>5 DEF StartEdit
  <2> HIDE DEF at, in
  <2>3. StatusOf(at.name) \in Statuses BY <2>1 DEF StatusOf, Stage, Statuses
  <2>4. to \in Deal BY <1>1, <2>1, <2>3 DEF Restaged, Deal
  <2> HIDE DEF to
  <2>5. r \in Request /\ r.step # "pay" BY <1>1, <2>4 DEF Request, Steps
  <2> HIDE DEF r
  <2> QED BY <1>2, <2>2, <2>5 DEF Kinds
<1>6. ASSUME NEW i \in DOMAIN deals, NEW status \in Statuses, StartStatus(q, i, status)
      PROVE  Typing'
  <2> DEFINE to == [deals[i] EXCEPT !.status = status, !.loose = TRUE]
             r == [Idle EXCEPT !.step = "edit", !.row = i, !.seen = deals[i], !.to = to]
  <2>1. to \in Deal BY <1>1 DEF Deal
  <2>2. Start(q, "edit", r) /\ UNCHANGED tables BY <1>6 DEF StartStatus
  <2> HIDE DEF to
  <2>3. r \in Request /\ r.step # "pay" BY <1>1, <2>1 DEF Request, Steps
  <2> HIDE DEF r
  <2> QED BY <1>2, <2>2, <2>3 DEF Kinds
<1>7. ASSUME NEW i \in DOMAIN deals, NEW name \in Names, StartMove(q, i, name)
      PROVE  Typing'
  <2> DEFINE s == [pipeline |-> deals[i].pipeline, name |-> name]
             r == [Idle EXCEPT !.step = "move", !.row = i, !.seen = deals[i],
                               !.pipeline = deals[i].pipeline, !.stage = s]
  <2>1. s \in Stage /\ deals[i].pipeline \in Nat BY <1>1 DEF Deal, Stage
  <2>2. Start(q, "move", r) /\ UNCHANGED tables BY <1>7 DEF StartMove
  <2> HIDE DEF s
  <2>3. r \in Request /\ r.step # "pay" BY <1>1, <2>1 DEF Request, Steps
  <2> HIDE DEF r
  <2> QED BY <1>2, <2>2, <2>3 DEF Kinds
<1> QED BY <1>3, <1>4, <1>5, <1>6, <1>7

(* What the CRM does next for a request. *)
LEMMA CrmStepTypes == ASSUME Typing, NEW q \in Requests, CrmStep(q) PROVE Typing'
<1>1. /\ Idle \in Request /\ StageIds \cup {NoStage} \subseteq Stage
      /\ pipelines \in Seq(Pipeline) /\ deals \in Seq(Deal) /\ requests[q] \in Request
      /\ requests \in [Requests -> Request]
      /\ requests[q].seen \in Deal /\ requests[q].to \in Deal
      /\ requests[q].stage \in Stage /\ requests[q].pipeline \in Nat /\ requests[q].row \in Nat
  <2>1. requests[q] \in Request BY DEF Typing
  <2> QED BY <2>1, NothingTyped, StagesTyped DEF Typing, Request
<1>2. ASSUME NEW k \in Nat, NEW step \in {"ready", "new"}
      PROVE  /\ [requests[q] EXCEPT !.step = step, !.pipeline = k] \in Request
             /\ [requests[q] EXCEPT !.step = step, !.pipeline = k].step # "pay"
             /\ [requests[q] EXCEPT !.step = step] \in Request
             /\ [requests[q] EXCEPT !.step = step].step # "pay"
  BY <1>1, <1>2 DEF Request, Steps
<1>3. CASE FindDefault(q)
  <2>1. ASSUME NEW k \in Defaults, Goes(q, [requests[q] EXCEPT !.step = "ready", !.pipeline = k])
        PROVE  Typing'
    <3>1. k \in Nat BY <1>1 DEF Defaults
    <3> DEFINE r == [requests[q] EXCEPT !.step = "ready", !.pipeline = k]
    <3>2. r \in Request /\ r.step # "pay" BY <1>2, <3>1
    <3>3. Goes(q, r) /\ UNCHANGED tables BY <1>3, <2>1 DEF FindDefault
    <3> HIDE DEF r
    <3> QED BY <3>2, <3>3, GoesSends, SentTyped, TablesStayTyped
  <2>2. ASSUME Goes(q, [requests[q] EXCEPT !.step = "new"]) PROVE Typing'
    <3> DEFINE r == [requests[q] EXCEPT !.step = "new"]
    <3>1. 0 \in Nat OBVIOUS
    <3>2. r \in Request /\ r.step # "pay" BY <1>2, <3>1
    <3>3. Goes(q, r) /\ UNCHANGED tables BY <1>3, <2>2 DEF FindDefault
    <3> HIDE DEF r
    <3> QED BY <3>2, <3>3, GoesSends, SentTyped, TablesStayTyped
  <2> QED BY <1>3, <2>1, <2>2 DEF FindDefault
<1>4. CASE NewDefault(q)
  <2> DEFINE k == Len(pipelines) + 1
             r == [requests[q] EXCEPT !.step = "ready", !.pipeline = k]
  <2>1. k \in Nat BY <1>1
  <2>2. r \in Request /\ r.step # "pay" BY <1>2, <2>1
  <2>3. Goes(q, r) BY <1>4 DEF NewDefault
  <2>4. pipelines' \in Seq(Pipeline)
    <3>1. [default |-> TRUE, stages |-> {}] \in Pipeline BY DEF Pipeline
    <3> QED BY <1>1, <1>4, <3>1 DEF NewDefault
  <2>5. TablesTyped BY <1>4, <2>4 DEF NewDefault, Ledger, Demo, Typing, TablesTyped
  <2> HIDE DEF r
  <2> QED BY <2>2, <2>3, <2>5, GoesSends, SentTyped
<1>5. ASSUME NEW name \in Names, EnsureStage(q, name) PROVE Typing'
  <2> DEFINE k == requests[q].pipeline
             new == [pipelines[k] EXCEPT !.stages = @ \cup {name}]
  <2>1. k \in DOMAIN pipelines BY <1>5 DEF EnsureStage, Ensuring, Defaults
  <2>2. new \in Pipeline
    <3>1. pipelines[k] \in Pipeline BY <1>1, <2>1
    <3> QED BY <3>1 DEF Pipeline
  <2>3. pipelines' = [pipelines EXCEPT ![k] = new] BY <1>5 DEF EnsureStage
  <2>4. UNCHANGED <<deals, Ledger, Demo, requests, budget>> BY <1>5 DEF EnsureStage
  <2> HIDE DEF k, new
  <2>5. pipelines' \in Seq(Pipeline) BY <1>1, <2>1, <2>2, <2>3
  <2> QED BY <2>4, <2>5 DEF Typing, At, Ledger, Demo
<1>6. CASE FinishList(q)
  BY <1>6, EndsSends, SentTyped, TablesStayTyped DEF FinishList
<1>7. CASE InsertDeal(q)
  <2> DEFINE k == IF requests[q].row # 0 THEN requests[q].row ELSE requests[q].pipeline
             s == IF requests[q].stage # NoStage THEN requests[q].stage ELSE FirstStage(k)
             new == [live |-> TRUE, pipeline |-> k, stage |-> s, status |-> StatusOf(s.name), loose |-> FALSE]
  <2>1. k \in Nat BY <1>1
  <2>2. s \in Stage BY <1>1, <2>1 DEF FirstStage, Stage, Names
  <2>3. deals' = deals \/ deals' = Append(deals, new) BY <1>7 DEF InsertDeal
  <2> HIDE DEF k, s
  <2>4. StatusOf(s.name) \in Statuses BY <2>2 DEF StatusOf, Stage, Statuses
  <2>5. new \in Deal BY <2>1, <2>2, <2>4 DEF Deal
  <2>6. deals' \in Seq(Deal) BY <1>1, <2>3, <2>5
  <2>7. TablesTyped BY <1>7, <2>6 DEF InsertDeal, Ledger, Demo, Typing, TablesTyped
  <2>8. Ends(q) BY <1>7 DEF InsertDeal
  <2> QED BY <2>7, <2>8, EndsSends, SentTyped
<1>8. ASSUME NEW to \in Deal,
             deals' = [deals EXCEPT ![requests[q].row] = Written(@, requests[q].seen, to)]
      PROVE  deals' \in Seq(Deal)
  <2> DEFINE i == requests[q].row
             new == Written(deals[i], requests[q].seen, to)
  <2>1. CASE i \in DOMAIN deals
    <3>1. new \in Deal BY <1>1, <2>1, WrittenTyped
    <3>2. deals' = [deals EXCEPT ![i] = new] BY <1>8
    <3> HIDE DEF new
    <3> QED BY <1>1, <2>1, <3>1, <3>2
  <2>2. CASE i \notin DOMAIN deals
    <3>1. deals' = deals BY <1>1, <1>8, <2>2
    <3> QED BY <1>1, <3>1
  <2> QED BY <2>1, <2>2
<1>9. CASE FinishEdit(q)
  <2>1. deals' \in Seq(Deal) BY <1>1, <1>8, <1>9 DEF FinishEdit
  <2>2. TablesTyped BY <1>9, <2>1 DEF FinishEdit, Ledger, Demo, Typing, TablesTyped
  <2> QED BY <1>9, <2>2, EndsSends, SentTyped DEF FinishEdit
<1>10. ASSUME NEW status \in Statuses \cup {None}, FinishMove(q, status) PROVE Typing'
  <2> DEFINE r == requests[q]
             inferred == IF r.stage.name \in {"won", "lost"} THEN r.stage.name
                         ELSE IF r.seen.status \in {"won", "lost"} THEN "open" ELSE r.seen.status
             st == IF status # None THEN status ELSE inferred
             lo == status # None \/ (r.seen.loose /\ inferred = r.seen.status)
             to == [r.seen EXCEPT !.stage = r.stage, !.loose = lo, !.status = st]
  <2>1. inferred \in Statuses BY <1>1 DEF Statuses, Deal
  <2>2. deals' = deals \/ deals' = [deals EXCEPT ![r.row] = Written(@, r.seen, to)]
    BY <1>10 DEF FinishMove
  <2>3. Ends(q) /\ UNCHANGED <<pipelines, Ledger, Demo>> BY <1>10 DEF FinishMove
  <2> HIDE DEF inferred
  <2>4. st \in Statuses /\ lo \in BOOLEAN BY <2>1
  <2> HIDE DEF st, lo
  <2>5. to \in Deal BY <1>1, <2>4 DEF Deal
  <2> HIDE DEF to
  <2>6. deals' \in Seq(Deal) BY <1>1, <1>8, <2>2, <2>5
  <2>7. TablesTyped BY <2>3, <2>6 DEF Ledger, Demo, Typing, TablesTyped
  <2> QED BY <2>3, <2>7, EndsSends, SentTyped
<1> QED BY <1>3, <1>4, <1>5, <1>6, <1>7, <1>9, <1>10 DEF CrmStep

LEMMA RemoveTypes == ASSUME Typing, NEW i \in DOMAIN deals, Remove(i) PROVE Typing'
<1> DEFINE new == [deals[i] EXCEPT !.live = FALSE]
<1>1. deals \in Seq(Deal) BY DEF Typing
<1>2. new \in Deal
  <2>1. deals[i] \in Deal BY <1>1
  <2> QED BY <2>1 DEF Deal
<1>3. i \in DOMAIN deals /\ deals' = [deals EXCEPT ![i] = new] BY DEF Remove
<1> HIDE DEF new
<1>4. deals' \in Seq(Deal) BY <1>1, <1>2, <1>3
<1>5. budget' \in [Kinds -> Nat] BY SpendTyped DEF Remove, Kinds
<1> QED BY <1>4, <1>5 DEF Remove, Ledger, Demo, Typing, At

LEMMA UnitTyped == Unit \in Nat \ {0}
BY WorkspaceAssumption

(* The quotient of a division, which is how amounts are rounded *)
LEMMA DivBounds ==
  \A a \in Int, b \in Nat \ {0} :
    /\ a \div b \in Int /\ b * (a \div b) <= a /\ a < b * (a \div b) + b
    /\ a >= 0 => a \div b >= 0
OBVIOUS

(* An inequality without the factor Unit *)
LEMMA Cancel == \A a, b \in Int : Unit * a <= Unit * b => a <= b
<1> SUFFICES ASSUME NEW a \in Int, NEW b \in Int, Unit * a <= Unit * b, b < a PROVE FALSE
  OBVIOUS
<1>1. Unit * b + Unit <= Unit * a
  <2>1. a >= b + 1 OBVIOUS
  <2>2. \E c \in Nat : a = b + 1 + c
    <3> WITNESS a - b - 1 \in Nat
    <3> QED BY <2>1
  <2>3. PICK c \in Nat : a = b + 1 + c BY <2>2
  <2>4. Unit * a = Unit * b + Unit + Unit * c BY <2>3, UnitTyped
  <2>5. Unit * c >= 0 BY UnitTyped
  <2>6. Unit * b \in Int /\ Unit * c \in Int /\ Unit \in Int BY UnitTyped
  <2> QED BY <2>4, <2>5, <2>6
<1>2. Unit * a \in Int /\ Unit * b \in Int /\ Unit > 0 /\ Unit \in Int BY UnitTyped
<1> QED BY <1>1, <1>2

(* Rounding moves an amount by at most half a cent, makes none that is not         *)
(* negative so, and takes none over a total in whole cents that it was not over.   *)
LEMMA RoundOff ==
  ASSUME NEW x \in Int
  PROVE  /\ Round(x) \in Int
         /\ Unit * (2 * Round(x)) \in (2 * x - Unit)..(2 * x + Unit)
         /\ x >= 0 => Round(x) \in Nat
         /\ \A total \in Int : x >= 0 /\ x <= Unit * total => Round(x) <= total
<1> DEFINE a == IF x >= 0 THEN 2 * x + Unit ELSE Unit - 2 * x
           c == a \div (2 * Unit)
<1>1. a \in Nat /\ 2 * Unit \in Nat \ {0} BY UnitTyped
<1>2. /\ c \in Nat /\ (2 * Unit) * c <= a /\ a < (2 * Unit) * c + 2 * Unit
  <2> DEFINE b == 2 * Unit
  <2>1. a \in Int /\ a >= 0 /\ b \in Nat \ {0} BY <1>1
  <2>2. c = a \div b OBVIOUS
  <2> HIDE DEF a, b
  <2>3. a \div b \in Int /\ a \div b >= 0 /\ b * (a \div b) <= a /\ a < b * (a \div b) + b
    BY <2>1, DivBounds
  <2> HIDE DEF c
  <2>4. c \in Nat /\ b * c <= a /\ a < b * c + b BY <2>2, <2>3
  <2> QED BY <2>4 DEF b
<1>3. Round(x) = IF x >= 0 THEN c ELSE -c BY DEF Round
<1>4. (2 * Unit) * c = Unit * (2 * c) /\ Unit * (2 * c) \in Int /\ Unit * (2 * (-c)) = - (Unit * (2 * c))
  <2> HIDE DEF c
  <2> QED BY <1>2, UnitTyped
<1>5. a = IF x >= 0 THEN 2 * x + Unit ELSE Unit - 2 * x OBVIOUS
<1> HIDE DEF a, c
<1>6. Round(x) \in Int BY <1>2, <1>3
<1>7. Unit * (2 * Round(x)) \in (2 * x - Unit)..(2 * x + Unit)
  <2> DEFINE p == Unit * (2 * c)
  <2>1. Unit * (2 * Round(x)) = IF x >= 0 THEN p ELSE -p BY <1>3, <1>4
  <2>2. p \in Int /\ p <= a /\ a < p + 2 * Unit BY <1>2, <1>4
  <2> HIDE DEF p
  <2> QED BY <2>1, <2>2, <1>5, UnitTyped
<1>8. ASSUME x >= 0 PROVE Round(x) \in Nat
  BY <1>2, <1>3, <1>8
<1>9. ASSUME NEW total \in Int, x >= 0, x <= Unit * total PROVE Round(x) <= total
  <2>1. Unit * (2 * c) <= Unit * (2 * total + 1)
    <3> DEFINE p == Unit * (2 * c)
               t == Unit * total
    <3>1. p \in Int /\ t \in Int /\ x <= t /\ p <= 2 * x + Unit
      BY <1>2, <1>4, <1>5, <1>9, UnitTyped
    <3>2. Unit * (2 * total + 1) = 2 * t + Unit BY UnitTyped
    <3> HIDE DEF p, t
    <3>3. p <= 2 * t + Unit BY <3>1, UnitTyped
    <3> QED BY <3>2, <3>3 DEF p
  <2>2. 2 * c <= 2 * total + 1 BY <2>1, <1>2, Cancel
  <2> QED BY <2>2, <1>2, <1>3, <1>9
<1> QED BY <1>6, <1>7, <1>8, <1>9

LEMMA RoundTyped == \A x \in Int : Round(x) \in Int /\ (x >= 0 => Round(x) \in Nat)
BY RoundOff

LEMMA InvoicesTyped ==
  ASSUME Typing, NEW i, NEW new, i \in DOMAIN invoices => new \in Invoice,
         invoices' = [invoices EXCEPT ![i] = new]
  PROVE  invoices' \in Seq(Invoice)
<1>1. invoices \in Seq(Invoice) BY DEF Typing
<1>2. CASE i \in DOMAIN invoices BY <1>1, <1>2
<1>3. CASE i \notin DOMAIN invoices
  <2>1. invoices' = invoices BY <1>1, <1>3
  <2> QED BY <1>1, <2>1
<1> QED BY <1>2, <1>3

LEMMA FinanceRequestTypes == ASSUME Typing, NEW q \in Requests, FinanceRequest(q) PROVE Typing'
<1>1. Idle \in Request /\ invoices \in Seq(Invoice) BY NothingTyped DEF Typing
<1>2. ASSUME NEW kind \in Kinds, NEW r \in Request, r.step = "pay" => r.amount >= 0,
             Start(q, kind, r), TablesTyped
      PROVE  Typing'
  BY <1>2, StartSends, SentTyped DEF Request
<1>3. ASSUME NEW body \in Bodies, InsertInvoice(q, body) PROVE Typing'
  <2> DEFINE n == Len(invoices) + 1
             r == [Idle EXCEPT !.step = "invoice", !.row = n]
             d == Round(body.discount)
             t == Round(Total(LineTotals(body.lines)) - body.discount)
             new == [lines |-> body.lines, discount |-> d, total |-> t,
                     items |-> <<>>, paid |-> 0, answered |-> FALSE]
  <2>1. body.lines \in Seq(Line) /\ body.discount \in Int /\ Total(LineTotals(body.lines)) \in Int
    <3>1. body.lines \in Seq(Line) /\ body.discount \in Int BY FinanceAssumption
    <3> QED BY <3>1, TotalTyped, LineTotalsTyped
  <2>2. d \in Int /\ t \in Int BY <2>1, RoundTyped
  <2>3. invoices' = Append(invoices, new) BY <1>3 DEF InsertInvoice
  <2> HIDE DEF d, t
  <2>4. new \in Invoice BY <2>1, <2>2 DEF Invoice
  <2> HIDE DEF new
  <2>5. invoices' \in Seq(Invoice) BY <1>1, <2>3, <2>4
  <2>6. n \in Nat BY <1>1
  <2>7. Start(q, "invoice", r) BY <1>3 DEF InsertInvoice
  <2>8. TablesTyped BY <1>3, <2>5 DEF InsertInvoice, Records, Typing, TablesTyped
  <2> HIDE DEF n
  <2>9. r \in Request /\ r.step # "pay" BY <1>1, <2>6 DEF Request, Steps
  <2> HIDE DEF r
  <2> QED BY <1>2, <2>7, <2>8, <2>9 DEF Kinds
<1>4. ASSUME NEW i \in DOMAIN invoices, NEW amount \in Amounts, StartPay(q, i, amount) PROVE Typing'
  <2> DEFINE r == [Idle EXCEPT !.step = "pay", !.row = i, !.amount = amount]
  <2>1. i \in Nat /\ amount \in Int /\ amount >= 0 BY <1>1, <1>4, FinanceAssumption DEF StartPay
  <2>2. r \in Request /\ r.amount >= 0 BY <1>1, <2>1 DEF Request, Steps
  <2>3. Start(q, "pay", r) /\ UNCHANGED tables BY <1>4 DEF StartPay
  <2> HIDE DEF r
  <2> QED BY <1>2, <2>2, <2>3, TablesStayTyped DEF Kinds
<1>5. CASE StartTransaction(q)
  <2> DEFINE r == [Idle EXCEPT !.step = IF accounts = 0 THEN "account" ELSE "entry"]
  <2>1. r \in Request /\ r.step # "pay" BY <1>1 DEF Request, Steps
  <2>2. Start(q, "transaction", r) /\ UNCHANGED tables BY <1>5 DEF StartTransaction
  <2> HIDE DEF r
  <2> QED BY <1>2, <2>1, <2>2, TablesStayTyped DEF Kinds
<1> QED BY <1>3, <1>4, <1>5 DEF FinanceRequest

LEMMA FinanceStepTypes == ASSUME Typing, NEW q \in Requests, FinanceStep(q) PROVE Typing'
<1> DEFINE i == requests[q].row
<1>1. /\ requests[q] \in Request /\ requests[q].amount \in Int
      /\ requests \in [Requests -> Request] /\ invoices \in Seq(Invoice)
  <2>1. requests[q] \in Request BY DEF Typing
  <2> QED BY <2>1 DEF Typing, Request
<1>2. i \in DOMAIN invoices => invoices[i] \in Invoice BY <1>1
<1>3. CASE AddItem(q)
  <2> DEFINE next == Len(invoices[i].items) + 1
             item == Round(LineTotal(invoices[i].lines[next]))
             new == [invoices[i] EXCEPT !.items = Append(@, item)]
  <2>1. next <= Len(invoices[i].lines) /\ invoices' = [invoices EXCEPT ![i] = new]
    BY <1>3 DEF AddItem
  <2>2. i \in DOMAIN invoices => new \in Invoice
    <3> SUFFICES ASSUME i \in DOMAIN invoices PROVE new \in Invoice OBVIOUS
    <3>1. invoices[i] \in Invoice BY <1>2
    <3>2. invoices[i].items \in Seq(Int) /\ invoices[i].lines \in Seq(Line) BY <3>1 DEF Invoice
    <3>3. next \in 1..Len(invoices[i].lines) BY <2>1, <3>2
    <3>4. invoices[i].lines[next] \in Line BY <3>2, <3>3
    <3>5. LineTotal(invoices[i].lines[next]) \in Int BY <3>4 DEF LineTotal, Line
    <3>6. item \in Int BY <3>5, RoundTyped
    <3> HIDE DEF item
    <3>7. Append(invoices[i].items, item) \in Seq(Int) BY <3>2, <3>6
    <3> QED BY <3>1, <3>7 DEF Invoice
  <2> HIDE DEF new
  <2>3. invoices' \in Seq(Invoice) BY <2>1, <2>2, InvoicesTyped
  <2> QED BY <1>3, <2>3 DEF AddItem, Records, Typing, At
<1>4. CASE AnswerInvoice(q)
  <2> DEFINE new == [invoices[i] EXCEPT !.answered = TRUE]
  <2>1. invoices' = [invoices EXCEPT ![i] = new] /\ Ends(q) BY <1>4 DEF AnswerInvoice
  <2>2. i \in DOMAIN invoices => new \in Invoice BY <1>2 DEF Invoice
  <2> HIDE DEF new
  <2>3. invoices' \in Seq(Invoice) BY <2>1, <2>2, InvoicesTyped
  <2>4. TablesTyped BY <1>4, <2>3 DEF AnswerInvoice, Records, Typing, TablesTyped
  <2> QED BY <2>1, <2>4, EndsSends, SentTyped
<1>5. CASE FinishPay(q)
  <2> DEFINE paid == Round(requests[q].amount)
             new == [invoices[i] EXCEPT !.paid = paid]
  <2>1. invoices' = [invoices EXCEPT ![i] = new] /\ Ends(q) BY <1>5 DEF FinishPay
  <2>2. requests[q].amount >= 0 BY <1>5 DEF FinishPay, Typing
  <2>3. paid \in Nat BY <1>1, <2>2, RoundTyped
  <2> HIDE DEF paid
  <2>4. i \in DOMAIN invoices => new \in Invoice BY <1>2, <2>3 DEF Invoice
  <2> HIDE DEF new
  <2>5. invoices' \in Seq(Invoice) BY <2>1, <2>4, InvoicesTyped
  <2>6. TablesTyped BY <1>5, <2>5 DEF FinishPay, Records, Typing, TablesTyped
  <2> QED BY <2>1, <2>6, EndsSends, SentTyped
<1>6. CASE NewAccount(q)
  <2> DEFINE r == [requests[q] EXCEPT !.step = "entry"]
  <2>1. r \in Request /\ r.step # "pay" BY <1>1 DEF Request, Steps
  <2>2. Goes(q, r) BY <1>6 DEF NewAccount
  <2>3. TablesTyped BY <1>6 DEF NewAccount, Records, Typing, TablesTyped
  <2> HIDE DEF r
  <2> QED BY <2>1, <2>2, <2>3, GoesSends, SentTyped
<1>7. CASE InsertTransaction(q)
  <2>1. TablesTyped BY <1>7 DEF InsertTransaction, Records, Typing, TablesTyped
  <2> QED BY <1>7, <2>1, EndsSends, SentTyped DEF InsertTransaction
<1> QED BY <1>3, <1>4, <1>5, <1>6, <1>7 DEF FinanceStep

(* The rows that a demo seed inserts. *)
LEMMA DemoTyped ==
  /\ DemoPipeline \in Pipeline
  /\ \A k \in Nat : CustomerDeals(k) \in Seq(Deal) /\ CrmDeals(k) \in Seq(Deal)
  /\ [i \in DOMAIN DemoInvoices |-> InvoiceRow(i)] \in Seq(Invoice)
  /\ FinanceRows["transactions"] \in Nat
<1>1. DemoPipeline \in Pipeline BY DEF DemoPipeline, Pipeline
<1>2. ASSUME NEW k \in Nat, NEW name \in Names PROVE DemoDeal(k, name) \in Deal
  <2>1. [pipeline |-> k, name |-> name] \in Stage BY DEF Stage
  <2>2. (IF name = "lead" THEN "open" ELSE name) \in Statuses BY DEF Names, Statuses
  <2> QED BY <2>1, <2>2 DEF DemoDeal, Deal
<1>3. ASSUME NEW k \in Nat PROVE CustomerDeals(k) \in Seq(Deal) /\ CrmDeals(k) \in Seq(Deal)
  <2>1. DemoDeal(k, "lead") \in Deal /\ DemoDeal(k, "won") \in Deal /\ DemoDeal(k, "lost") \in Deal
    BY <1>2 DEF Names
  <2> QED BY <2>1 DEF CustomerDeals, CrmDeals
<1>4. [i \in DOMAIN DemoInvoices |-> InvoiceRow(i)] \in Seq(Invoice)
  <2>1. DOMAIN DemoInvoices = 1..2 BY DEF DemoInvoices
  <2>2. ASSUME NEW i \in 1..2 PROVE InvoiceRow(i) \in Invoice
    <3>1. DemoInvoices[i].total \in Nat /\ DemoInvoices[i].paid \in Nat BY DEF DemoInvoices
    <3>2. [net |-> Unit * DemoInvoices[i].total, tax |-> 0] \in Line BY <3>1, UnitTyped DEF Line
    <3>3. /\ <<[net |-> Unit * DemoInvoices[i].total, tax |-> 0]>> \in Seq(Line)
          /\ <<DemoInvoices[i].total>> \in Seq(Int)
      BY <3>1, <3>2
    <3> QED BY <3>1, <3>3 DEF InvoiceRow, Invoice
  <2> QED BY <2>1, <2>2
<1>5. FinanceRows["transactions"] \in Nat BY CountsTyped DEF Counts, RowTypes
<1> QED BY <1>1, <1>3, <1>4, <1>5

LEMMA ProjectRequestTypes == ASSUME Typing, ProjectRequest PROVE Typing'
<1>1. Idle \in Request /\ projects \in [Projects -> Project] BY NothingTyped DEF Typing
<1>2. ASSUME NEW p \in Projects, NEW links \in SUBSET Linked, CreateProject(p, links) PROVE Typing'
  <2> DEFINE new == [NoProject EXCEPT !.state = "active", !.links = links]
  <2>1. new \in Project BY NothingTyped DEF Project
  <2>2. projects' = [projects EXCEPT ![p] = new] BY <1>2 DEF CreateProject
  <2> HIDE DEF new
  <2>3. projects' \in [Projects -> Project] BY <1>1, <2>1, <2>2
  <2>4. budget' \in [Kinds -> Nat] BY <1>2, SpendTyped DEF CreateProject, Kinds
  <2> QED BY <1>2, <2>3, <2>4 DEF CreateProject, Typing, At
<1>3. ASSUME NEW q \in Requests, NEW kind \in Kinds, NEW r \in Request, r.step # "pay",
             Start(q, kind, r), UNCHANGED tables
      PROVE  Typing'
  BY <1>3, StartSends, SentTyped, TablesStayTyped
<1>4. ASSUME NEW q \in Requests, NEW p \in Projects, NEW kind \in Kinds, NEW after \in Project,
             StartUpdate(q, p, kind, after)
      PROVE  Typing'
  <2> DEFINE r == [Idle EXCEPT !.step = "update", !.project = p,
                               !.before = projects[p], !.after = after]
  <2>1. r \in Request /\ r.step # "pay" BY <1>1 DEF Request, Steps
  <2>2. Start(q, kind, r) /\ UNCHANGED tables BY <1>4 DEF StartUpdate
  <2> HIDE DEF r
  <2> QED BY <1>3, <2>1, <2>2
<1>5. ASSUME NEW q \in Requests, NEW p \in Projects, StartSeed(q, p) PROVE Typing'
  <2> DEFINE r == [Idle EXCEPT !.step = "seed", !.project = p, !.before = projects[p]]
  <2>1. r \in Request /\ r.step # "pay" BY <1>1 DEF Request, Steps
  <2>2. Start(q, "seed", r) /\ UNCHANGED tables BY <1>5 DEF StartSeed, Seed
  <2> HIDE DEF r
  <2> QED BY <1>3, <2>1, <2>2 DEF Kinds
<1>6. ASSUME NEW p \in Projects, NEW links \in SUBSET Linked
      PROVE  /\ [projects[p] EXCEPT !.state = "active", !.links = links] \in Project
             /\ [projects[p] EXCEPT !.state = "archived"] \in Project
  <2>1. projects[p] \in Project BY <1>1
  <2> QED BY <2>1 DEF Project
<1>7. ASSUME NEW q \in Requests, NEW p \in Projects, Archive(q, p) PROVE Typing'
  BY <1>4, <1>6, <1>7 DEF Archive, Kinds
<1>8. ASSUME NEW q \in Requests, NEW p \in Projects, NEW links \in SUBSET Linked,
             Update(q, p, "active", links)
      PROVE  Typing'
  BY <1>4, <1>6, <1>8 DEF Update, Kinds
<1> QED BY <1>2, <1>5, <1>7, <1>8 DEF ProjectRequest

LEMMA ProjectStepTypes == ASSUME Typing, NEW q \in Requests, ProjectStep(q) PROVE Typing'
<1> DEFINE p == requests[q].project
           before == requests[q].before
           after == requests[q].after
<1>1. /\ before \in Project /\ after \in Project /\ projects \in [Projects -> Project]
      /\ pipelines \in Seq(Pipeline) /\ deals \in Seq(Deal) /\ invoices \in Seq(Invoice)
      /\ rows \in [Projects -> Counts] /\ transactions \in Nat
  <2>1. requests[q] \in Request BY DEF Typing
  <2> QED BY <2>1 DEF Typing, Request
<1>2. p \in Projects => projects[p] \in Project BY <1>1
<1>3. ASSUME NEW new, p \in Projects => new \in Project, projects' = [projects EXCEPT ![p] = new]
      PROVE  projects' \in [Projects -> Project]
  BY <1>1, <1>3
<1>4. CASE FinishUpdate(q)
  <2> DEFINE state == Column(before.state, after.state, projects[p].state)
             links == (projects[p].links \cup (after.links \ before.links)) \ (before.links \ after.links)
             new == [projects[p] EXCEPT !.state = state, !.links = links]
  <2>1. projects' = [projects EXCEPT ![p] = new] /\ Ends(q) BY <1>4 DEF FinishUpdate
  <2>2. p \in Projects => state \in {"none", "active", "archived"} /\ links \in SUBSET Linked
    BY <1>1, <1>2 DEF Project, Column
  <2> HIDE DEF state, links
  <2>3. p \in Projects => new \in Project BY <1>2, <2>2 DEF Project
  <2> HIDE DEF new
  <2>4. projects' \in [Projects -> Project] BY <1>3, <2>1, <2>3
  <2>5. TablesTyped BY <1>4, <2>4 DEF FinishUpdate, Typing, TablesTyped
  <2> QED BY <2>1, <2>5, EndsSends, SentTyped
<1>5. CASE CommitSeed(q)
  <2> DEFINE first == before.data = NoRows
             k == Len(pipelines) + 1
             made == IF first THEN Plus(DataRows(before.links), CrmRows) ELSE CrmRows
             data == IF first THEN DataRows(before.links) ELSE before.data
             links == IF first THEN Linked ELSE projects[p].links
             new == [projects[p] EXCEPT !.data = data, !.crm = CrmRows, !.links = links]
             total == Plus(rows[p], made)
  <2>1. /\ Ends(q) /\ accounts' = accounts
        /\ projects' = [projects EXCEPT ![p] = new]
        /\ rows' = [rows EXCEPT ![p] = total]
    BY <1>5 DEF CommitSeed
  <2>2. DataRows(before.links) \in Counts /\ before.data \in Counts /\ CrmRows \in Counts
    BY <1>1, CountsTyped, DataRowsTyped DEF Project
  <2>3. data \in Counts /\ made \in Counts BY <2>2, CountsTyped
  <2>4. p \in Projects => links \in SUBSET Linked BY <1>2 DEF Project
  <2>5. k \in Nat /\ k + 1 \in Nat BY <1>1
  <2>6. \/ /\ pipelines' = pipelines \o <<DemoPipeline, DemoPipeline>>
           /\ deals' = deals \o CustomerDeals(k) \o CrmDeals(k + 1)
        \/ /\ pipelines' = Append(pipelines, DemoPipeline)
           /\ deals' = deals \o CrmDeals(k)
    BY <1>5 DEF CommitSeed
  <2>7. \/ /\ invoices' = invoices \o [i \in DOMAIN DemoInvoices |-> InvoiceRow(i)]
           /\ transactions' = transactions + FinanceRows["transactions"]
        \/ UNCHANGED <<invoices, transactions>>
    BY <1>5 DEF CommitSeed
  <2> HIDE DEF first, made, data, links, k
  <2>8. p \in Projects => new \in Project BY <1>2, <2>2, <2>3, <2>4 DEF Project
  <2>9. p \in Projects => total \in Counts BY <1>1, <2>3, CountsTyped
  <2> HIDE DEF new, total
  <2>10. projects' \in [Projects -> Project] BY <1>3, <2>1, <2>8
  <2>11. rows' \in [Projects -> Counts] BY <1>1, <2>1, <2>9
  <2>12. pipelines' \in Seq(Pipeline)
    <3>1. <<DemoPipeline, DemoPipeline>> \in Seq(Pipeline) BY DemoTyped
    <3>2. pipelines \o <<DemoPipeline, DemoPipeline>> \in Seq(Pipeline) BY <1>1, <3>1, ConcatProperties
    <3>3. Append(pipelines, DemoPipeline) \in Seq(Pipeline) BY <1>1, DemoTyped
    <3> QED BY <2>6, <3>2, <3>3
  <2>13. deals' \in Seq(Deal)
    <3>1. CustomerDeals(k) \in Seq(Deal) /\ CrmDeals(k) \in Seq(Deal) /\ CrmDeals(k + 1) \in Seq(Deal)
      BY <2>5, DemoTyped
    <3>2. deals \o CustomerDeals(k) \in Seq(Deal) BY <1>1, <3>1, ConcatProperties
    <3>3. deals \o CustomerDeals(k) \o CrmDeals(k + 1) \in Seq(Deal)
      BY <3>1, <3>2, ConcatProperties
    <3>4. deals \o CrmDeals(k) \in Seq(Deal) BY <1>1, <3>1, ConcatProperties
    <3> QED BY <2>6, <3>3, <3>4
  <2>14. invoices' \in Seq(Invoice) /\ transactions' \in Nat
    <3>1. invoices \o [i \in DOMAIN DemoInvoices |-> InvoiceRow(i)] \in Seq(Invoice)
      BY <1>1, DemoTyped, ConcatProperties
    <3> DEFINE booked == FinanceRows["transactions"]
    <3>2. booked \in Nat BY DemoTyped
    <3>3. transactions' = transactions + booked \/ transactions' = transactions BY <2>7
    <3> HIDE DEF booked
    <3>4. transactions' \in Nat BY <1>1, <3>2, <3>3
    <3> QED BY <1>1, <2>7, <3>1, <3>4
  <2>15. TablesTyped BY <2>1, <2>10, <2>11, <2>12, <2>13, <2>14 DEF TablesTyped, Typing
  <2> QED BY <2>1, <2>15, EndsSends, SentTyped
<1> QED BY <1>4, <1>5 DEF ProjectStep

LEMMA FaultTypes ==
  ASSUME Typing, (\E q \in Requests : StatementFails(q)) \/ Crash
  PROVE  Typing'
<1>1. TablesTyped /\ budget' \in [Kinds -> Nat]
  BY SpendTyped, TablesStayTyped DEF StatementFails, Crash, Kinds
<1>2. ASSUME NEW q \in Requests, StatementFails(q) PROVE Typing'
  <2>1. Sent(q, Idle) BY <1>1, <1>2, NothingTyped DEF StatementFails, Sent, Idle
  <2> QED BY <1>1, <2>1, SentTyped
<1>3. CASE Crash
  <2>1. requests' \in [Requests -> Request] /\ \A q \in Requests : requests'[q].step # "pay"
    BY <1>3, NothingTyped DEF Crash, Idle
  <2> QED BY <1>1, <2>1 DEF Typing, TablesTyped, At
<1> QED BY <1>2, <1>3

LEMMA TypingInductive == Typing /\ [Next]_vars => Typing'
<1> SUFFICES ASSUME Typing, [Next]_vars PROVE Typing' OBVIOUS
<1>1. CASE CrmRequest
  <2>1. ASSUME NEW i \in DOMAIN deals, Remove(i) PROVE Typing' BY <2>1, RemoveTypes
  <2> QED BY <1>1, <2>1, CrmRequestTypes DEF CrmRequest
<1>2. CASE ProjectRequest BY <1>2, ProjectRequestTypes
<1>3. ASSUME NEW q \in Requests, FinanceRequest(q) \/ CrmStep(q) \/ FinanceStep(q) \/ ProjectStep(q)
      PROVE  Typing'
  BY <1>3, FinanceRequestTypes, CrmStepTypes, FinanceStepTypes, ProjectStepTypes
<1>4. CASE (\E q \in Requests : StatementFails(q)) \/ Crash BY <1>4, FaultTypes
<1>5. CASE UNCHANGED vars BY <1>5 DEF vars, Typing, At
<1> QED BY <1>1, <1>2, <1>3, <1>4, <1>5 DEF Next

-----------------------------------------------------------------------------
(* Deals are sound *)

(* ps stands for the pipelines: no operator is primed that has a primed argument. *)
Fits(d, ps) ==
  d.stage.pipeline = d.pipeline /\ HasStage(d.stage, ps) /\ d.status = StatusOf(d.stage.name)
DealFits(d, ps) == d.pipeline \in DOMAIN ps /\ (~d.loose => Fits(d, ps))

(* What a request has read and checked is still so: stages are only added. *)
RequestFits(r, ps) ==
  /\ r.step \in {"ready", "move"} => r.pipeline \in DOMAIN ps
  /\ r.step = "edit" => DealFits(r.to, ps)
  /\ r.step = "move" => /\ r.stage.pipeline = r.pipeline /\ r.seen.pipeline = r.pipeline
                        /\ ~r.seen.loose => r.seen.status # "other"
DealsFit == \A i \in DOMAIN deals : DealFits(deals[i], pipelines)
RequestsFit == \A q \in Requests : RequestFits(requests[q], pipelines)

Grows(ps, new) ==
  /\ DOMAIN ps \subseteq DOMAIN new
  /\ \A k \in DOMAIN ps : ps[k].stages \subseteq new[k].stages

LEMMA FitsGrow ==
  ASSUME NEW ps, NEW new, Grows(ps, new)
  PROVE  /\ \A d : DealFits(d, ps) => DealFits(d, new)
         /\ \A r : RequestFits(r, ps) => RequestFits(r, new)
<1>1. \A s : HasStage(s, ps) => HasStage(s, new) BY DEF Grows, HasStage
<1>2. DOMAIN ps \subseteq DOMAIN new BY DEF Grows
<1>3. \A d : DealFits(d, ps) => DealFits(d, new) BY <1>1, <1>2 DEF DealFits, Fits
<1> QED BY <1>2, <1>3 DEF RequestFits

Quiet == {"idle", "find", "new", "invoice", "pay", "account", "entry", "update", "seed"}

LEMMA QuietFits == \A r, ps : r.step \in Quiet => RequestFits(r, ps)
BY DEF RequestFits, Quiet

(* A step that adds stages, rows or requests that fit. *)
LEMMA FitsOn ==
  ASSUME DealsFit, RequestsFit, Grows(pipelines, pipelines'),
         \A i \in DOMAIN deals' :
           \/ i \in DOMAIN deals /\ deals'[i] = deals[i]
           \/ DealFits(deals'[i], pipelines'),
         \A q \in Requests :
           requests'[q] = requests[q] \/ RequestFits(requests'[q], pipelines')
  PROVE  DealsFit' /\ RequestsFit'
<1>1. ASSUME NEW i \in DOMAIN deals' PROVE DealFits(deals'[i], pipelines')
  <2>1. CASE i \in DOMAIN deals /\ deals'[i] = deals[i]
    <3>1. DealFits(deals[i], pipelines) BY <2>1 DEF DealsFit
    <3>2. DealFits(deals[i], pipelines') BY <3>1, FitsGrow
    <3> QED BY <2>1, <3>2
  <2> QED BY <2>1
<1>2. ASSUME NEW q \in Requests PROVE RequestFits(requests'[q], pipelines')
  <2>1. CASE requests'[q] = requests[q]
    <3>1. RequestFits(requests[q], pipelines) BY DEF RequestsFit
    <3>2. RequestFits(requests[q], pipelines') BY <3>1, FitsGrow
    <3> QED BY <2>1, <3>2
  <2> QED BY <2>1
<1> QED BY <1>1, <1>2 DEF DealsFit, RequestsFit

LEMMA GrowsSame == \A ps : Grows(ps, ps) BY DEF Grows

(* A request that is sent or goes on. *)
LEMMA StartFits ==
  ASSUME Typing, DealsFit, RequestsFit, NEW q \in Requests, NEW kind \in Kinds, NEW r \in Request,
         RequestFits(r, pipelines), Start(q, kind, r), UNCHANGED <<pipelines, deals>>
  PROVE  DealsFit' /\ RequestsFit'
<1> DEFINE new == [r EXCEPT !.kind = kind]
<1>1. /\ new.step = r.step /\ new.pipeline = r.pipeline /\ new.to = r.to
      /\ new.stage = r.stage /\ new.seen = r.seen
  BY DEF Request
<1>2. requests' = [requests EXCEPT ![q] = new] BY DEF Start
<1> HIDE DEF new
<1>3. RequestFits(new, pipelines) BY <1>1 DEF RequestFits
<1>4. \A o \in Requests : requests'[o] = requests[o] \/ requests'[o] = new
  BY <1>2 DEF Typing
<1> QED BY <1>3, <1>4, FitsOn, GrowsSame

LEMMA GoesFits ==
  ASSUME Typing, DealsFit, RequestsFit, NEW q \in Requests, NEW r, Goes(q, r),
         RequestFits(r, pipelines'), Grows(pipelines, pipelines'),
         \A i \in DOMAIN deals' :
           \/ i \in DOMAIN deals /\ deals'[i] = deals[i]
           \/ DealFits(deals'[i], pipelines')
  PROVE  DealsFit' /\ RequestsFit'
<1>1. \A o \in Requests : requests'[o] = requests[o] \/ requests'[o] = r
  BY DEF Goes, Typing
<1> QED BY <1>1, FitsOn

LEMMA EndsFits ==
  ASSUME Typing, DealsFit, RequestsFit, NEW q \in Requests, Ends(q), Grows(pipelines, pipelines'),
         \A i \in DOMAIN deals' :
           \/ i \in DOMAIN deals /\ deals'[i] = deals[i]
           \/ DealFits(deals'[i], pipelines')
  PROVE  DealsFit' /\ RequestsFit'
<1>1. RequestFits(Idle, pipelines') BY QuietFits DEF Idle, Quiet
<1> QED BY <1>1, GoesFits DEF Ends

LEMMA FitsInitially == Init => DealsFit /\ RequestsFit
<1> SUFFICES ASSUME Init PROVE DealsFit /\ RequestsFit OBVIOUS
<1>1. DealsFit BY DEF Init, DealsFit
<1>2. RequestsFit BY QuietFits DEF Init, RequestsFit, Idle, Quiet
<1> QED BY <1>1, <1>2

LEMMA CrmRequestFits ==
  ASSUME Typing, DealsFit, RequestsFit, NEW q \in Requests,
         \/ List(q)
         \/ \E k \in 0..Len(pipelines), stage \in StageIds \cup {NoStage} : Create(q, k, stage)
         \/ \E i \in DOMAIN deals :
              \/ \E k \in 0..Len(pipelines), stage \in StageIds \cup {NoStage} :
                   (k # 0 \/ stage # NoStage) /\ StartEdit(q, i, k, stage)
              \/ \E status \in Statuses \ {"other"} : StartStatus(q, i, status)
              \/ \E name \in Names : StartMove(q, i, name)
  PROVE  DealsFit' /\ RequestsFit'
<1>1. /\ Idle \in Request /\ StageIds \cup {NoStage} \subseteq Stage
      /\ pipelines \in Seq(Pipeline) /\ deals \in Seq(Deal)
      /\ \A k \in 0..Len(pipelines) : k \in Nat
      /\ \A i \in DOMAIN deals : deals[i] \in Deal /\ i \in Nat /\ DealFits(deals[i], pipelines)
  BY NothingTyped, StagesTyped DEF Typing, DealsFit
<1>2. ASSUME NEW kind \in Kinds, NEW r \in Request, RequestFits(r, pipelines), Start(q, kind, r),
             UNCHANGED tables
      PROVE  DealsFit' /\ RequestsFit'
  BY <1>2, StartFits DEF tables
<1>3. CASE List(q)
  <2> DEFINE r == [Idle EXCEPT !.step = "find"]
  <2>1. r \in Request /\ r.step \in Quiet BY <1>1 DEF Request, Steps, Quiet
  <2>2. Start(q, "list", r) /\ UNCHANGED tables BY <1>3 DEF List
  <2> HIDE DEF r
  <2> QED BY <1>2, <2>1, <2>2, QuietFits DEF Kinds
<1>4. ASSUME NEW k \in 0..Len(pipelines), NEW stage \in StageIds \cup {NoStage}, Create(q, k, stage)
      PROVE  DealsFit' /\ RequestsFit'
  <2> DEFINE r == [Idle EXCEPT !.step = "find", !.row = k, !.stage = stage]
  <2>1. r \in Request /\ r.step \in Quiet BY <1>1 DEF Request, Steps, Quiet
  <2>2. Start(q, "create", r) /\ UNCHANGED tables BY <1>4 DEF Create
  <2> HIDE DEF r
  <2> QED BY <1>2, <2>1, <2>2, QuietFits DEF Kinds
<1>5. ASSUME NEW i \in DOMAIN deals, NEW k \in 0..Len(pipelines), NEW stage \in StageIds \cup {NoStage},
             StartEdit(q, i, k, stage)
      PROVE  DealsFit' /\ RequestsFit'
  <2> DEFINE at == IF stage # NoStage THEN stage ELSE deals[i].stage
             in == IF k # 0 THEN k ELSE deals[i].pipeline
             to == Restaged(deals[i], in, at)
             r == [Idle EXCEPT !.step = "edit", !.row = i, !.seen = deals[i], !.to = to]
  <2>1. at \in Stage /\ in \in Nat BY <1>1 DEF Deal
  <2>2. Start(q, "edit", r) /\ UNCHANGED tables /\ at.pipeline = in /\ at \in StageIds
    BY <1>5 DEF StartEdit
  <2> HIDE DEF at, in
  <2>3. HasStage(at, pipelines) BY <2>1, <2>2, StagesTyped
  <2>4. StatusOf(at.name) \in Statuses BY <2>1 DEF StatusOf, Stage, Statuses
  <2>5. /\ to \in Deal /\ to.pipeline = in /\ to.stage = at /\ to.status = StatusOf(at.name)
        /\ to.loose = FALSE
    BY <1>1, <2>1, <2>4 DEF Restaged, Deal
  <2> HIDE DEF to
  <2>6. DealFits(to, pipelines) BY <2>2, <2>3, <2>5 DEF DealFits, Fits, HasStage
  <2>7. r \in Request /\ r.step = "edit" /\ r.to = to BY <1>1, <2>5 DEF Request, Steps
  <2> HIDE DEF r
  <2>8. RequestFits(r, pipelines) BY <2>6, <2>7 DEF RequestFits
  <2> QED BY <1>2, <2>2, <2>7, <2>8 DEF Kinds
<1>6. ASSUME NEW i \in DOMAIN deals, NEW status \in Statuses, StartStatus(q, i, status)
      PROVE  DealsFit' /\ RequestsFit'
  <2> DEFINE to == [deals[i] EXCEPT !.status = status, !.loose = TRUE]
             r == [Idle EXCEPT !.step = "edit", !.row = i, !.seen = deals[i], !.to = to]
  <2>1. to \in Deal /\ to.pipeline = deals[i].pipeline /\ to.loose BY <1>1 DEF Deal
  <2>2. Start(q, "edit", r) /\ UNCHANGED tables BY <1>6 DEF StartStatus
  <2> HIDE DEF to
  <2>3. DealFits(to, pipelines) BY <1>1, <2>1 DEF DealFits
  <2>4. r \in Request /\ r.step = "edit" /\ r.to = to BY <1>1, <2>1 DEF Request, Steps
  <2> HIDE DEF r
  <2>5. RequestFits(r, pipelines) BY <2>3, <2>4 DEF RequestFits
  <2> QED BY <1>2, <2>2, <2>4, <2>5 DEF Kinds
<1>7. ASSUME NEW i \in DOMAIN deals, NEW name \in Names, StartMove(q, i, name)
      PROVE  DealsFit' /\ RequestsFit'
  <2> DEFINE s == [pipeline |-> deals[i].pipeline, name |-> name]
             r == [Idle EXCEPT !.step = "move", !.row = i, !.seen = deals[i],
                               !.pipeline = deals[i].pipeline, !.stage = s]
  <2>1. s \in Stage /\ deals[i].pipeline \in Nat /\ s.pipeline = deals[i].pipeline
    BY <1>1 DEF Deal, Stage
  <2>2. Start(q, "move", r) /\ UNCHANGED tables BY <1>7 DEF StartMove
  <2> HIDE DEF s
  <2>3. /\ r \in Request /\ r.step = "move" /\ r.seen = deals[i]
        /\ r.pipeline = deals[i].pipeline /\ r.stage = s
    BY <1>1, <2>1 DEF Request, Steps
  <2> HIDE DEF r
  <2>4. deals[i].pipeline \in DOMAIN pipelines /\ (~deals[i].loose => deals[i].status # "other")
    BY <1>1 DEF DealFits, Fits, StatusOf
  <2>5. RequestFits(r, pipelines) BY <2>1, <2>3, <2>4 DEF RequestFits
  <2> QED BY <1>2, <2>2, <2>3, <2>5 DEF Kinds
<1> QED BY <1>3, <1>4, <1>5, <1>6, <1>7

(* Writing an edit or a move to row i keeps the deals fitting. *)
LEMMA WriteFits ==
  ASSUME Typing, DealsFit, NEW i \in Nat, NEW seen \in Deal, NEW to \in Deal,
         to.pipeline = seen.pipeline \/ to.pipeline \in DOMAIN pipelines,
         ~to.loose => Fits(to, pipelines),
         pipelines' = pipelines, deals' = [deals EXCEPT ![i] = Written(@, seen, to)]
  PROVE  \A j \in DOMAIN deals' :
           \/ j \in DOMAIN deals /\ deals'[j] = deals[j]
           \/ DealFits(deals'[j], pipelines')
<1> DEFINE now == deals[i]
           new == Written(now, seen, to)
<1>1. deals \in Seq(Deal) /\ DOMAIN deals' = DOMAIN deals BY DEF Typing
<1>2. \A j \in DOMAIN deals : j # i => deals'[j] = deals[j] BY <1>1
<1>3. ASSUME i \in DOMAIN deals PROVE DealFits(new, pipelines)
  <2>1. now \in Deal BY <1>1, <1>3
  <2>2. now.pipeline \in DOMAIN pipelines BY <1>3 DEF DealsFit, DealFits
  <2>3. /\ new.pipeline = Column(seen.pipeline, to.pipeline, now.pipeline)
        /\ new.stage = Column(seen.stage, to.stage, now.stage)
        /\ new.status = Column(seen.status, to.status, now.status)
        /\ ~new.loose => ~to.loose /\ [now EXCEPT !.live = seen.live] = seen
    BY <2>1, WrittenTyped
  <2> HIDE DEF new
  <2>4. new.pipeline \in DOMAIN pipelines BY <2>2, <2>3 DEF Column
  <2>5. ASSUME ~new.loose PROVE Fits(new, pipelines)
    <3>1. Fits(to, pipelines) /\ [now EXCEPT !.live = seen.live] = seen BY <2>3, <2>5
    <3>2. now.pipeline = seen.pipeline /\ now.stage = seen.stage /\ now.status = seen.status
      BY <2>1, <3>1 DEF Deal
    <3>3. new.pipeline = to.pipeline /\ new.stage = to.stage /\ new.status = to.status
      BY <2>3, <3>2 DEF Column
    <3> QED BY <3>1, <3>3 DEF Fits
  <2> QED BY <2>4, <2>5 DEF DealFits
<1>4. i \in DOMAIN deals => deals'[i] = new BY <1>1
<1> QED BY <1>1, <1>2, <1>3, <1>4

LEMMA CrmStepFits ==
  ASSUME Typing, DealsFit, RequestsFit, NEW q \in Requests, CrmStep(q)
  PROVE  DealsFit' /\ RequestsFit'
<1>1. /\ pipelines \in Seq(Pipeline) /\ deals \in Seq(Deal) /\ requests[q] \in Request
      /\ requests \in [Requests -> Request]
      /\ requests[q].seen \in Deal /\ requests[q].to \in Deal
      /\ requests[q].stage \in Stage /\ requests[q].pipeline \in Nat /\ requests[q].row \in Nat
      /\ StageIds \cup {NoStage} \subseteq Stage
      /\ \A i \in DOMAIN deals : deals[i] \in Deal
  <2>1. requests[q] \in Request BY DEF Typing
  <2> QED BY <2>1, StagesTyped DEF Typing, Request
<1>2. RequestFits(requests[q], pipelines) BY DEF RequestsFit
<1>3. ASSUME deals' = deals
      PROVE  \A i \in DOMAIN deals' :
               \/ i \in DOMAIN deals /\ deals'[i] = deals[i]
               \/ DealFits(deals'[i], pipelines')
  BY <1>3
<1>4. CASE FindDefault(q)
  <2>1. UNCHANGED <<pipelines, deals>> BY <1>4 DEF FindDefault, tables
  <2>2. ASSUME NEW k \in Defaults, Goes(q, [requests[q] EXCEPT !.step = "ready", !.pipeline = k])
        PROVE  DealsFit' /\ RequestsFit'
    <3> DEFINE r == [requests[q] EXCEPT !.step = "ready", !.pipeline = k]
    <3>1. r.step = "ready" /\ r.pipeline = k BY <1>1 DEF Request
    <3>2. Goes(q, r) BY <2>2
    <3> HIDE DEF r
    <3>3. RequestFits(r, pipelines) BY <3>1 DEF RequestFits, Defaults
    <3> QED BY <1>3, <2>1, <3>2, <3>3, GoesFits, GrowsSame
  <2>3. ASSUME Goes(q, [requests[q] EXCEPT !.step = "new"]) PROVE DealsFit' /\ RequestsFit'
    <3> DEFINE r == [requests[q] EXCEPT !.step = "new"]
    <3>1. r.step \in Quiet BY <1>1 DEF Request, Quiet
    <3>2. Goes(q, r) BY <2>3
    <3> HIDE DEF r
    <3> QED BY <1>3, <2>1, <3>1, <3>2, QuietFits, GoesFits, GrowsSame
  <2> QED BY <1>4, <2>2, <2>3 DEF FindDefault
<1>5. CASE NewDefault(q)
  <2> DEFINE k == Len(pipelines) + 1
             new == [default |-> TRUE, stages |-> {}]
             r == [requests[q] EXCEPT !.step = "ready", !.pipeline = k]
  <2>1. pipelines' = Append(pipelines, new) /\ deals' = deals /\ Goes(q, r)
    BY <1>5 DEF NewDefault
  <2>2. r.step = "ready" /\ r.pipeline = k BY <1>1 DEF Request
  <2> HIDE DEF r, new
  <2>3. k \in DOMAIN pipelines' /\ Grows(pipelines, pipelines') BY <1>1, <2>1 DEF Grows
  <2>4. RequestFits(r, pipelines') BY <2>2, <2>3 DEF RequestFits
  <2> QED BY <1>3, <2>1, <2>3, <2>4, GoesFits
<1>6. ASSUME NEW name \in Names, EnsureStage(q, name) PROVE DealsFit' /\ RequestsFit'
  <2> DEFINE k == requests[q].pipeline
             new == [pipelines[k] EXCEPT !.stages = @ \cup {name}]
  <2>1. k \in DOMAIN pipelines BY <1>6 DEF EnsureStage, Ensuring, Defaults
  <2>2. pipelines[k].stages \subseteq new.stages
    <3>1. pipelines[k] \in Pipeline BY <1>1, <2>1
    <3> QED BY <3>1 DEF Pipeline
  <2>3. pipelines' = [pipelines EXCEPT ![k] = new] BY <1>6 DEF EnsureStage
  <2>4. deals' = deals /\ requests' = requests BY <1>6 DEF EnsureStage
  <2> HIDE DEF k, new
  <2>5. Grows(pipelines, pipelines') BY <1>1, <2>1, <2>2, <2>3 DEF Grows
  <2> QED BY <2>4, <2>5, FitsOn
<1>7. CASE FinishList(q)
  BY <1>3, <1>7, EndsFits, GrowsSame DEF FinishList, tables
<1>8. CASE InsertDeal(q)
  <2> DEFINE k == IF requests[q].row # 0 THEN requests[q].row ELSE requests[q].pipeline
             s == IF requests[q].stage # NoStage THEN requests[q].stage ELSE FirstStage(k)
             new == [live |-> TRUE, pipeline |-> k, stage |-> s, status |-> StatusOf(s.name), loose |-> FALSE]
  <2>1. Ends(q) /\ pipelines' = pipelines BY <1>8 DEF InsertDeal
  <2>2. \/ s.pipeline = k /\ s \in StageIds /\ deals' = Append(deals, new)
        \/ deals' = deals
    BY <1>8 DEF InsertDeal
  <2> HIDE DEF k, s
  <2>3. ASSUME s.pipeline = k, s \in StageIds PROVE DealFits(new, pipelines)
    <3>1. HasStage(s, pipelines) BY <1>1, <2>3, StagesTyped
    <3> QED BY <2>3, <3>1 DEF DealFits, Fits, HasStage
  <2> HIDE DEF new
  <2>4. \A i \in DOMAIN deals' :
          \/ i \in DOMAIN deals /\ deals'[i] = deals[i]
          \/ DealFits(deals'[i], pipelines')
    BY <1>1, <2>1, <2>2, <2>3
  <2> QED BY <2>1, <2>4, EndsFits, GrowsSame
<1>9. CASE FinishEdit(q)
  <2> DEFINE r == requests[q]
  <2>1. /\ deals' = [deals EXCEPT ![r.row] = Written(@, r.seen, r.to)]
        /\ r.step = "edit" /\ Ends(q) /\ pipelines' = pipelines
    BY <1>9 DEF FinishEdit, At
  <2>2. DealFits(r.to, pipelines) BY <1>2, <2>1 DEF RequestFits
  <2>3. \A i \in DOMAIN deals' :
          \/ i \in DOMAIN deals /\ deals'[i] = deals[i]
          \/ DealFits(deals'[i], pipelines')
    BY <1>1, <2>1, <2>2, WriteFits DEF DealFits
  <2> QED BY <2>1, <2>3, EndsFits, GrowsSame
<1>10. ASSUME NEW status \in Statuses \cup {None}, FinishMove(q, status)
       PROVE  DealsFit' /\ RequestsFit'
  <2> DEFINE r == requests[q]
             inferred == IF r.stage.name \in {"won", "lost"} THEN r.stage.name
                         ELSE IF r.seen.status \in {"won", "lost"} THEN "open" ELSE r.seen.status
             st == IF status # None THEN status ELSE inferred
             lo == status # None \/ (r.seen.loose /\ inferred = r.seen.status)
             to == [r.seen EXCEPT !.stage = r.stage, !.loose = lo, !.status = st]
  <2>1. \/ r.stage \in StageIds /\ deals' = [deals EXCEPT ![r.row] = Written(@, r.seen, to)]
        \/ deals' = deals
    BY <1>10 DEF FinishMove
  <2>2. r.step = "move" /\ Ends(q) /\ pipelines' = pipelines BY <1>10 DEF FinishMove, At
  <2>3. /\ r.stage.pipeline = r.seen.pipeline
        /\ ~r.seen.loose => r.seen.status # "other"
    BY <1>2, <2>2 DEF RequestFits
  <2>4. inferred \in Statuses BY <1>1 DEF Statuses, Deal
  <2>5. ~lo => st = StatusOf(r.stage.name)
    <3>1. r.seen.status \in Statuses BY <1>1 DEF Deal
    <3> QED BY <2>3, <3>1 DEF StatusOf, Statuses
  <2> HIDE DEF inferred
  <2>6. st \in Statuses /\ lo \in BOOLEAN BY <2>4
  <2> HIDE DEF st, lo
  <2>7. /\ to \in Deal /\ to.pipeline = r.seen.pipeline /\ to.stage = r.stage
        /\ to.status = st /\ to.loose = lo
    BY <1>1, <2>6 DEF Deal
  <2> HIDE DEF to
  <2>8. CASE r.stage \in StageIds /\ deals' = [deals EXCEPT ![r.row] = Written(@, r.seen, to)]
    <3>1. HasStage(r.stage, pipelines) BY <1>1, <2>8, StagesTyped
    <3>2. ~to.loose => Fits(to, pipelines) BY <2>3, <2>5, <2>7, <3>1 DEF Fits
    <3>3. \A i \in DOMAIN deals' :
            \/ i \in DOMAIN deals /\ deals'[i] = deals[i]
            \/ DealFits(deals'[i], pipelines')
      BY <1>1, <2>2, <2>7, <2>8, <3>2, WriteFits
    <3> QED BY <2>2, <3>3, EndsFits, GrowsSame
  <2>9. CASE deals' = deals BY <1>3, <2>2, <2>9, EndsFits, GrowsSame
  <2> QED BY <2>1, <2>8, <2>9
<1> QED BY <1>4, <1>5, <1>6, <1>7, <1>8, <1>9, <1>10 DEF CrmStep

LEMMA RemoveFits ==
  ASSUME Typing, DealsFit, RequestsFit, NEW i \in DOMAIN deals, Remove(i)
  PROVE  DealsFit' /\ RequestsFit'
<1> DEFINE new == [deals[i] EXCEPT !.live = FALSE]
<1>1. deals \in Seq(Deal) /\ deals[i] \in Deal BY DEF Typing
<1>2. /\ new.pipeline = deals[i].pipeline /\ new.stage = deals[i].stage
      /\ new.status = deals[i].status /\ new.loose = deals[i].loose
  BY <1>1 DEF Deal
<1>3. /\ deals' = [deals EXCEPT ![i] = new] /\ pipelines' = pipelines /\ requests' = requests
  BY DEF Remove
<1> HIDE DEF new
<1>4. DealFits(new, pipelines) BY <1>2 DEF DealsFit, DealFits, Fits
<1>5. \A j \in DOMAIN deals' :
        \/ j \in DOMAIN deals /\ deals'[j] = deals[j]
        \/ DealFits(deals'[j], pipelines')
  BY <1>1, <1>3, <1>4
<1> QED BY <1>3, <1>5, FitsOn, GrowsSame

(* The steps that leave pipelines and deals alone, and whose requests are not the CRM's. *)
LEMMA QuietSteps ==
  ASSUME DealsFit, RequestsFit, UNCHANGED <<pipelines, deals>>,
         \A q \in Requests : requests'[q] = requests[q] \/ requests'[q].step \in Quiet
  PROVE  DealsFit' /\ RequestsFit'
BY FitsOn, GrowsSame, QuietFits

LEMMA QuietGoes ==
  ASSUME Typing, DealsFit, RequestsFit, UNCHANGED <<pipelines, deals>>,
         NEW q \in Requests, NEW r, r.step \in Quiet, requests' = [requests EXCEPT ![q] = r]
  PROVE  DealsFit' /\ RequestsFit'
<1>1. \A o \in Requests : requests'[o] = requests[o] \/ requests'[o] = r BY DEF Typing
<1> QED BY <1>1, QuietSteps

LEMMA QuietStarts ==
  ASSUME Typing, DealsFit, RequestsFit, UNCHANGED <<pipelines, deals>>,
         NEW q \in Requests, NEW kind, NEW r, "step" \in DOMAIN r, r.step \in Quiet, Start(q, kind, r)
  PROVE  DealsFit' /\ RequestsFit'
<1> DEFINE new == [r EXCEPT !.kind = kind]
<1>1. new.step = r.step OBVIOUS
<1>2. requests' = [requests EXCEPT ![q] = new] BY DEF Start
<1> HIDE DEF new
<1> QED BY <1>1, <1>2, QuietGoes

LEMMA FinanceFits ==
  ASSUME Typing, DealsFit, RequestsFit, NEW q \in Requests, FinanceRequest(q) \/ FinanceStep(q)
  PROVE  DealsFit' /\ RequestsFit'
<1>1. UNCHANGED <<pipelines, deals>>
  BY DEF FinanceRequest, FinanceStep, InsertInvoice, StartPay, StartTransaction, AddItem,
         AnswerInvoice, FinishPay, NewAccount, InsertTransaction, Records, tables
<1>2. ASSUME NEW body, InsertInvoice(q, body) PROVE DealsFit' /\ RequestsFit'
  <2> DEFINE r == [Idle EXCEPT !.step = "invoice", !.row = Len(invoices) + 1]
  <2>1. "step" \in DOMAIN r /\ r.step \in Quiet BY DEF Idle, Quiet
  <2>2. Start(q, "invoice", r) BY <1>2 DEF InsertInvoice
  <2> HIDE DEF r
  <2> QED BY <1>1, <2>1, <2>2, QuietStarts
<1>3. ASSUME NEW i, NEW amount, StartPay(q, i, amount) PROVE DealsFit' /\ RequestsFit'
  <2> DEFINE r == [Idle EXCEPT !.step = "pay", !.row = i, !.amount = amount]
  <2>1. "step" \in DOMAIN r /\ r.step \in Quiet BY DEF Idle, Quiet
  <2>2. Start(q, "pay", r) BY <1>3 DEF StartPay
  <2> HIDE DEF r
  <2> QED BY <1>1, <2>1, <2>2, QuietStarts
<1>4. CASE StartTransaction(q)
  <2> DEFINE r == [Idle EXCEPT !.step = IF accounts = 0 THEN "account" ELSE "entry"]
  <2>1. "step" \in DOMAIN r /\ r.step \in Quiet BY DEF Idle, Quiet
  <2>2. Start(q, "transaction", r) BY <1>4 DEF StartTransaction
  <2> HIDE DEF r
  <2> QED BY <1>1, <2>1, <2>2, QuietStarts
<1>5. Idle.step \in Quiet BY DEF Idle, Quiet
<1>6. CASE AnswerInvoice(q) \/ FinishPay(q) \/ InsertTransaction(q)
  <2>1. requests' = [requests EXCEPT ![q] = Idle]
    BY <1>6 DEF AnswerInvoice, FinishPay, InsertTransaction, Ends, Goes
  <2> QED BY <1>1, <1>5, <2>1, QuietGoes
<1>7. CASE AddItem(q)
  <2>1. requests' = requests BY <1>7 DEF AddItem
  <2> QED BY <1>1, <2>1, QuietSteps
<1>8. CASE NewAccount(q)
  <2> DEFINE r == [requests[q] EXCEPT !.step = "entry"]
  <2>1. requests[q] \in Request BY DEF Typing
  <2>2. r.step \in Quiet BY <2>1 DEF Request, Quiet
  <2>3. requests' = [requests EXCEPT ![q] = r] BY <1>8 DEF NewAccount, Goes
  <2> HIDE DEF r
  <2> QED BY <1>1, <2>2, <2>3, QuietGoes
<1> QED BY <1>2, <1>3, <1>4, <1>6, <1>7, <1>8 DEF FinanceRequest, FinanceStep

LEMMA ProjectRequestFits ==
  ASSUME Typing, DealsFit, RequestsFit, ProjectRequest
  PROVE  DealsFit' /\ RequestsFit'
<1>1. ASSUME NEW p \in Projects, NEW links, CreateProject(p, links) PROVE DealsFit' /\ RequestsFit'
  BY <1>1, QuietSteps DEF CreateProject
<1>2. ASSUME NEW q \in Requests, NEW p, NEW kind, NEW after, StartUpdate(q, p, kind, after)
      PROVE  DealsFit' /\ RequestsFit'
  <2> DEFINE r == [Idle EXCEPT !.step = "update", !.project = p,
                               !.before = projects[p], !.after = after]
  <2>1. "step" \in DOMAIN r /\ r.step \in Quiet BY DEF Idle, Quiet
  <2>2. Start(q, kind, r) /\ UNCHANGED <<pipelines, deals>> BY <1>2 DEF StartUpdate, tables
  <2> HIDE DEF r
  <2> QED BY <2>1, <2>2, QuietStarts
<1>3. ASSUME NEW q \in Requests, NEW p, StartSeed(q, p) PROVE DealsFit' /\ RequestsFit'
  <2> DEFINE r == [Idle EXCEPT !.step = "seed", !.project = p, !.before = projects[p]]
  <2>1. "step" \in DOMAIN r /\ r.step \in Quiet BY DEF Idle, Quiet
  <2>2. Start(q, "seed", r) /\ UNCHANGED <<pipelines, deals>> BY <1>3 DEF StartSeed, Seed, tables
  <2> HIDE DEF r
  <2> QED BY <2>1, <2>2, QuietStarts
<1> QED BY <1>1, <1>2, <1>3 DEF ProjectRequest, Archive, Update

(* The deals of a demo are sound. *)
LEMMA DemoFits ==
  ASSUME NEW ps, NEW k \in DOMAIN ps, ps[k] = DemoPipeline
  PROVE  \A j \in DOMAIN CrmDeals(k) : DealFits(CrmDeals(k)[j], ps) /\ DealFits(CustomerDeals(k)[1], ps)
<1>1. ASSUME NEW name \in Names PROVE DealFits(DemoDeal(k, name), ps)
  <2>1. StatusOf(name) = IF name = "lead" THEN "open" ELSE name BY DEF StatusOf, Names
  <2>2. ps[k].stages = Names BY DEF DemoPipeline
  <2> QED BY <2>1, <2>2 DEF DemoDeal, DealFits, Fits, HasStage
<1>2. DealFits(DemoDeal(k, "lead"), ps) /\ DealFits(DemoDeal(k, "won"), ps) /\ DealFits(DemoDeal(k, "lost"), ps)
  BY <1>1 DEF Names
<1> QED BY <1>2 DEF CrmDeals, CustomerDeals

(* Where the elements of a concatenation come from. *)
LEMMA ConcatElements ==
  ASSUME NEW S, NEW s \in Seq(S), NEW t \in Seq(S)
  PROVE  LET both == s \o t IN
         /\ \A i \in DOMAIN s : i \in DOMAIN both /\ both[i] = s[i]
         /\ \A j \in DOMAIN t : Len(s) + j \in DOMAIN both /\ both[Len(s) + j] = t[j]
         /\ \A i \in DOMAIN both :
              (i \in DOMAIN s /\ both[i] = s[i]) \/ \E j \in DOMAIN t : both[i] = t[j]
<1> DEFINE both == s \o t
           n == Len(s)
           m == Len(t)
<1>1. n \in Nat /\ m \in Nat /\ DOMAIN s = 1..n /\ DOMAIN t = 1..m OBVIOUS
<1>2. both \in Seq(S) /\ Len(both) = n + m
  BY ConcatProperties
<1>3. \A i \in 1..(n + m) : both[i] = IF i <= n THEN s[i] ELSE t[i - n]
  BY ConcatProperties
<1>4. DOMAIN both = 1..(n + m) BY <1>2
<1> HIDE DEF both, n, m
<1>5. \A i \in 1..n : i \in 1..(n + m) /\ both[i] = s[i] BY <1>1, <1>3
<1>6. ASSUME NEW j \in 1..m PROVE n + j \in 1..(n + m) /\ both[n + j] = t[j]
  <2>1. n + j \in 1..(n + m) /\ ~(n + j <= n) /\ (n + j) - n = j BY <1>1
  <2> QED BY <1>3, <2>1
<1>7. ASSUME NEW i \in 1..(n + m), i \notin 1..n PROVE \E j \in 1..m : both[i] = t[j]
  <2>1. i - n \in 1..m /\ ~(i <= n) BY <1>1, <1>7
  <2> QED BY <1>3, <2>1
<1>8. /\ \A i \in DOMAIN s : i \in DOMAIN both /\ both[i] = s[i]
      /\ \A j \in DOMAIN t : n + j \in DOMAIN both /\ both[n + j] = t[j]
      /\ \A i \in DOMAIN both :
           (i \in DOMAIN s /\ both[i] = s[i]) \/ \E j \in DOMAIN t : both[i] = t[j]
  BY <1>1, <1>4, <1>5, <1>6, <1>7
<1> QED BY <1>8 DEF both, n

LEMMA ProjectStepFits ==
  ASSUME Typing, DealsFit, RequestsFit, NEW q \in Requests, ProjectStep(q)
  PROVE  DealsFit' /\ RequestsFit'
<1>1. CASE FinishUpdate(q)
  <2>1. requests' = [requests EXCEPT ![q] = Idle] /\ UNCHANGED <<pipelines, deals>>
    BY <1>1 DEF FinishUpdate, Ends, Goes
  <2>2. Idle.step \in Quiet BY DEF Idle, Quiet
  <2> QED BY <2>1, <2>2, QuietGoes
<1>2. CASE CommitSeed(q)
  <2> DEFINE n == Len(pipelines)
             k == n + 1
             a == CustomerDeals(k)
             b == CrmDeals(k)
             c == CrmDeals(k + 1)
             two == <<DemoPipeline, DemoPipeline>>
  <2>1. pipelines \in Seq(Pipeline) /\ deals \in Seq(Deal) /\ n \in Nat BY DEF Typing
  <2>2. Ends(q) BY <1>2 DEF CommitSeed
  <2>3. \/ pipelines' = pipelines \o two /\ deals' = deals \o a \o c
        \/ pipelines' = Append(pipelines, DemoPipeline) /\ deals' = deals \o b
    BY <1>2 DEF CommitSeed
  <2>4. /\ k \in Nat /\ k + 1 \in Nat
        /\ a \in Seq(Deal) /\ b \in Seq(Deal) /\ c \in Seq(Deal) /\ DOMAIN a = {1}
    <3>1. k \in Nat /\ k + 1 \in Nat BY <2>1
    <3> HIDE DEF k
    <3>2. DOMAIN a = {1} BY DEF CustomerDeals
    <3> QED BY <3>1, <3>2, DemoTyped
  <2>5. CASE pipelines' = pipelines \o two /\ deals' = deals \o a \o c
    <3>1. two \in Seq(Pipeline) /\ 1 \in DOMAIN two /\ 2 \in DOMAIN two
          /\ two[1] = DemoPipeline /\ two[2] = DemoPipeline
      BY DemoTyped
    <3>2. n + 1 = k /\ n + 2 = k + 1 BY <2>1
    <3> HIDE DEF two, k
    <3>3. /\ \A i \in DOMAIN pipelines : i \in DOMAIN pipelines' /\ pipelines'[i] = pipelines[i]
          /\ \A j \in DOMAIN two : n + j \in DOMAIN pipelines' /\ pipelines'[n + j] = two[j]
      BY <2>1, <2>5, <3>1, ConcatElements
    <3>4. /\ k \in DOMAIN pipelines' /\ k + 1 \in DOMAIN pipelines'
          /\ pipelines'[k] = DemoPipeline /\ pipelines'[k + 1] = DemoPipeline
      BY <3>1, <3>2, <3>3
    <3>5. Grows(pipelines, pipelines') BY <3>3 DEF Grows
    <3> HIDE DEF n
    <3>6. \A j \in DOMAIN c : DealFits(c[j], pipelines') BY <3>4, DemoFits
    <3>7. \A j \in DOMAIN a : DealFits(a[j], pipelines')
      <4>1. DealFits(CustomerDeals(k)[1], pipelines')
        <5>1. 1 \in DOMAIN CrmDeals(k) BY DEF CrmDeals
        <5> QED BY <3>4, <5>1, DemoFits
      <4> QED BY <2>4, <4>1
    <3> HIDE DEF a, c
    <3> DEFINE both == deals \o a
    <3>8. /\ both \in Seq(Deal) /\ deals' = both \o c
          /\ \A i \in DOMAIN both :
               (i \in DOMAIN deals /\ both[i] = deals[i]) \/ \E j \in DOMAIN a : both[i] = a[j]
      BY <2>1, <2>4, <2>5, ConcatElements, ConcatProperties
    <3> HIDE DEF both
    <3>9. \A i \in DOMAIN deals' :
            \/ i \in DOMAIN both /\ deals'[i] = both[i]
            \/ \E j \in DOMAIN c : deals'[i] = c[j]
      BY <2>4, <3>8, ConcatElements
    <3>10. \A i \in DOMAIN deals' :
            \/ i \in DOMAIN deals /\ deals'[i] = deals[i]
            \/ DealFits(deals'[i], pipelines')
      BY <3>6, <3>7, <3>8, <3>9
    <3> QED BY <2>2, <3>5, <3>10, EndsFits
  <2>6. CASE pipelines' = Append(pipelines, DemoPipeline) /\ deals' = deals \o b
    <3>1. k \in DOMAIN pipelines' /\ pipelines'[k] = DemoPipeline /\ Grows(pipelines, pipelines')
      BY <2>1, <2>6 DEF Grows
    <3>2. \A j \in DOMAIN b : DealFits(b[j], pipelines') BY <3>1, DemoFits
    <3> HIDE DEF b
    <3>3. \A i \in DOMAIN deals' :
            \/ i \in DOMAIN deals /\ deals'[i] = deals[i]
            \/ \E j \in DOMAIN b : deals'[i] = b[j]
      BY <2>1, <2>4, <2>6, ConcatElements
    <3>4. \A i \in DOMAIN deals' :
            \/ i \in DOMAIN deals /\ deals'[i] = deals[i]
            \/ DealFits(deals'[i], pipelines')
      BY <3>2, <3>3
    <3> QED BY <2>2, <3>1, <3>4, EndsFits
  <2> QED BY <2>3, <2>5, <2>6
<1> QED BY <1>1, <1>2 DEF ProjectStep

LEMMA FaultFits ==
  ASSUME Typing, DealsFit, RequestsFit, (\E q \in Requests : StatementFails(q)) \/ Crash
  PROVE  DealsFit' /\ RequestsFit'
<1>1. Idle.step \in Quiet BY DEF Idle, Quiet
<1>2. UNCHANGED <<pipelines, deals>> BY DEF StatementFails, Crash, tables
<1>3. ASSUME NEW q \in Requests, StatementFails(q) PROVE DealsFit' /\ RequestsFit'
  BY <1>1, <1>2, <1>3, QuietGoes DEF StatementFails
<1>4. CASE Crash
  <2>1. \A q \in Requests : requests'[q] = Idle BY <1>4 DEF Crash
  <2> QED BY <1>1, <1>2, <2>1, QuietSteps
<1> QED BY <1>3, <1>4

LEMMA FitsInductive ==
  ASSUME Typing, DealsFit, RequestsFit, [Next]_vars
  PROVE  DealsFit' /\ RequestsFit'
<1>1. CASE CrmRequest
  <2>1. ASSUME NEW i \in DOMAIN deals, Remove(i) PROVE DealsFit' /\ RequestsFit' BY <2>1, RemoveFits
  <2> QED BY <1>1, <2>1, CrmRequestFits DEF CrmRequest
<1>2. CASE ProjectRequest BY <1>2, ProjectRequestFits
<1>3. ASSUME NEW q \in Requests, FinanceRequest(q) \/ CrmStep(q) \/ FinanceStep(q) \/ ProjectStep(q)
      PROVE  DealsFit' /\ RequestsFit'
  BY <1>3, FinanceFits, CrmStepFits, ProjectStepFits
<1>4. CASE (\E q \in Requests : StatementFails(q)) \/ Crash BY <1>4, FaultFits
<1>5. CASE UNCHANGED vars BY <1>5, QuietSteps DEF vars
<1> QED BY <1>1, <1>2, <1>3, <1>4, <1>5 DEF Next

LEMMA DealsAlwaysFit == Spec => [](Typing /\ DealsFit /\ RequestsFit)
<1>1. Init => Typing /\ DealsFit /\ RequestsFit BY TypingInitially, FitsInitially
<1>2. Typing /\ DealsFit /\ RequestsFit /\ [Next]_vars => (Typing /\ DealsFit /\ RequestsFit)'
  BY TypingInductive, FitsInductive
<1> QED BY <1>1, <1>2, PTL DEF Spec

(* The rows have their types and a deal's pipeline is one of the table, whatever    *)
(* the requests of the CRM, finance and demo seeding interleave with.               *)
THEOREM WorkspaceTyped == Spec => []TypeOK
<1>1. Typing /\ DealsFit /\ RequestsFit => TypeOK BY DEF Typing, DealsFit, DealFits, TypeOK
<1> QED BY <1>1, DealsAlwaysFit, PTL

(* A live deal whose status no client chose and no second request wrote over is at *)
(* a stage of its own pipeline with that stage's status, for any number of requests *)
(* and faults (crm.service.ts:123, :175).                                           *)
THEOREM DealsAreSound == Spec => []DealIsSound
<1>1. ASSUME Typing, DealsFit PROVE DealIsSound
  <2> SUFFICES ASSUME NEW i \in DOMAIN deals, ~deals[i].loose
               PROVE  /\ deals[i].stage.pipeline = deals[i].pipeline /\ deals[i].stage \in StageIds
                      /\ deals[i].status = StatusOf(deals[i].stage.name)
    BY DEF DealIsSound
  <2>1. Fits(deals[i], pipelines) BY <1>1 DEF DealsFit, DealFits
  <2>2. deals[i].stage \in Stage
    <3>1. deals[i] \in Deal BY <1>1 DEF Typing
    <3> QED BY <3>1 DEF Deal
  <2> QED BY <1>1, <2>1, <2>2, StagesTyped DEF Fits
<1> QED BY <1>1, DealsAlwaysFit, PTL

-----------------------------------------------------------------------------
(* Demo data is whole *)

(* A project has CRM rows only with or after the others, and none before it exists. *)
ProjectsFit ==
  \A p \in Projects : /\ projects[p].state = "none" => projects[p].data = NoRows
                      /\ projects[p].data = NoRows => projects[p].crm = NoRows
UpdatesFit ==
  \A q \in Requests : At(q, "update") => requests[q].after.state # "none"

Partial(project) == project.data = NoRows \/ project.crm = NoRows

(* The row that a seed has read stays as it is, and no other seed has it. *)
SeedsFit ==
  \A q \in Requests : At(q, "seed") =>
    LET p == requests[q].project IN
    /\ p \in Projects /\ requests[q].before = projects[p] /\ projects[p].state # "none" /\ Partial(projects[p])
    /\ \A o \in Requests : o # q /\ At(o, "seed") => requests[o].project # p
DemoInv == DemoIsWhole /\ ProjectsFit /\ UpdatesFit /\ SeedsFit

(* A step takes requests to none but the steps of S. *)
Only(S) == \A o \in Requests : requests'[o] = requests[o] \/ requests'[o].step \in S
CrmSteps == {"idle", "find", "new", "ready", "edit", "move"}
FinanceSteps == {"idle", "invoice", "pay", "account", "entry"}
ProjectSteps == {"idle", "update", "seed"}

(* A step that has nothing to do with projects. *)
LEMMA AsideKeeps ==
  ASSUME DemoInv, UNCHANGED <<projects, rows>>, Only(Steps \ {"update", "seed"})
  PROVE  DemoInv'
<1>1. /\ DemoIsWhole' /\ ProjectsFit'
  BY DEF DemoInv, DemoIsWhole, Recorded, ProjectsFit
<1>2. \A q \in Requests : At(q, "update")' \/ At(q, "seed")' => requests'[q] = requests[q]
  BY DEF Only, At
<1>3. UpdatesFit' BY <1>2 DEF DemoInv, UpdatesFit, At
<1>4. SeedsFit' BY <1>2 DEF DemoInv, SeedsFit, At
<1> QED BY <1>1, <1>3, <1>4 DEF DemoInv

LEMMA OnlyGoes ==
  ASSUME Typing, NEW q \in Requests, NEW r, NEW S, r.step \in S, requests' = [requests EXCEPT ![q] = r]
  PROVE  Only(S)
BY DEF Only, Typing

LEMMA OnlyStarts ==
  ASSUME Typing, NEW q \in Requests, NEW kind, NEW r, "step" \in DOMAIN r, NEW S, r.step \in S,
         Start(q, kind, r)
  PROVE  Only(S)
<1> DEFINE new == [r EXCEPT !.kind = kind]
<1>1. new.step = r.step OBVIOUS
<1>2. requests' = [requests EXCEPT ![q] = new] BY DEF Start
<1> HIDE DEF new
<1> QED BY <1>1, <1>2, OnlyGoes

LEMMA CrmOnly == ASSUME Typing, CrmRequest \/ \E q \in Requests : CrmStep(q) PROVE Only(CrmSteps)
<1>1. ASSUME NEW q \in Requests, List(q) PROVE Only(CrmSteps)
  <2> DEFINE r == [Idle EXCEPT !.step = "find"]
  <2>1. "step" \in DOMAIN r /\ r.step \in CrmSteps BY DEF Idle, CrmSteps
  <2>2. Start(q, "list", r) BY <1>1 DEF List
  <2> HIDE DEF r
  <2> QED BY <2>1, <2>2, OnlyStarts
<1>2. ASSUME NEW q \in Requests, NEW k, NEW stage, Create(q, k, stage) PROVE Only(CrmSteps)
  <2> DEFINE r == [Idle EXCEPT !.step = "find", !.row = k, !.stage = stage]
  <2>1. "step" \in DOMAIN r /\ r.step \in CrmSteps BY DEF Idle, CrmSteps
  <2>2. Start(q, "create", r) BY <1>2 DEF Create
  <2> HIDE DEF r
  <2> QED BY <2>1, <2>2, OnlyStarts
<1>3. ASSUME NEW q \in Requests, NEW i, NEW to, Start(q, "edit", [Idle EXCEPT !.step = "edit", !.row = i,
                                                             !.seen = deals[i], !.to = to])
      PROVE  Only(CrmSteps)
  <2> DEFINE r == [Idle EXCEPT !.step = "edit", !.row = i, !.seen = deals[i], !.to = to]
  <2>1. "step" \in DOMAIN r /\ r.step \in CrmSteps BY DEF Idle, CrmSteps
  <2>2. Start(q, "edit", r) BY <1>3
  <2> HIDE DEF r
  <2> QED BY <2>1, <2>2, OnlyStarts
<1>4. ASSUME NEW q \in Requests, NEW i, NEW name, StartMove(q, i, name) PROVE Only(CrmSteps)
  <2> DEFINE s == [pipeline |-> deals[i].pipeline, name |-> name]
             r == [Idle EXCEPT !.step = "move", !.row = i, !.seen = deals[i],
                               !.pipeline = deals[i].pipeline, !.stage = s]
  <2>1. "step" \in DOMAIN r /\ r.step \in CrmSteps BY DEF Idle, CrmSteps
  <2>2. Start(q, "move", r) BY <1>4 DEF StartMove
  <2> HIDE DEF r
  <2> QED BY <2>1, <2>2, OnlyStarts
<1>5. ASSUME NEW i, Remove(i) PROVE Only(CrmSteps) BY <1>5 DEF Remove, Only
<1>6. CASE CrmRequest BY <1>1, <1>2, <1>3, <1>4, <1>5, <1>6 DEF CrmRequest, StartEdit, StartStatus
<1>7. ASSUME NEW q \in Requests, CrmStep(q) PROVE Only(CrmSteps)
  <2>1. requests[q] \in Request BY DEF Typing
  <2>2. Idle.step \in CrmSteps BY DEF Idle, CrmSteps
  <2>3. ASSUME Ends(q) PROVE Only(CrmSteps) BY <2>2, <2>3, OnlyGoes DEF Ends, Goes
  <2>4. CASE FinishList(q) \/ InsertDeal(q) \/ FinishEdit(q) \/ \E status : FinishMove(q, status)
    BY <2>3, <2>4 DEF FinishList, InsertDeal, FinishEdit, FinishMove
  <2>5. ASSUME NEW name, EnsureStage(q, name) PROVE Only(CrmSteps) BY <2>5 DEF EnsureStage, Only
  <2>6. ASSUME NEW k, requests' = [requests EXCEPT ![q] = [requests[q] EXCEPT !.step = "ready", !.pipeline = k]]
        PROVE  Only(CrmSteps)
    <3> DEFINE r == [requests[q] EXCEPT !.step = "ready", !.pipeline = k]
    <3>1. r.step \in CrmSteps BY <2>1 DEF Request, CrmSteps
    <3>2. requests' = [requests EXCEPT ![q] = r] BY <2>6
    <3> HIDE DEF r
    <3> QED BY <3>1, <3>2, OnlyGoes
  <2>7. ASSUME requests' = [requests EXCEPT ![q] = [requests[q] EXCEPT !.step = "new"]] PROVE Only(CrmSteps)
    <3> DEFINE r == [requests[q] EXCEPT !.step = "new"]
    <3>1. r.step \in CrmSteps BY <2>1 DEF Request, CrmSteps
    <3>2. requests' = [requests EXCEPT ![q] = r] BY <2>7
    <3> HIDE DEF r
    <3> QED BY <3>1, <3>2, OnlyGoes
  <2>8. CASE FindDefault(q) BY <2>6, <2>7, <2>8 DEF FindDefault, Goes
  <2>9. CASE NewDefault(q) BY <2>6, <2>9 DEF NewDefault, Goes
  <2> QED BY <1>7, <2>4, <2>5, <2>8, <2>9 DEF CrmStep
<1> QED BY <1>6, <1>7

LEMMA FinanceOnly ==
  ASSUME Typing, NEW q \in Requests, FinanceRequest(q) \/ FinanceStep(q)
  PROVE  Only(FinanceSteps)
<1>1. ASSUME NEW body, InsertInvoice(q, body) PROVE Only(FinanceSteps)
  <2> DEFINE r == [Idle EXCEPT !.step = "invoice", !.row = Len(invoices) + 1]
  <2>1. "step" \in DOMAIN r /\ r.step \in FinanceSteps BY DEF Idle, FinanceSteps
  <2>2. Start(q, "invoice", r) BY <1>1 DEF InsertInvoice
  <2> HIDE DEF r
  <2> QED BY <2>1, <2>2, OnlyStarts
<1>2. ASSUME NEW i, NEW amount, StartPay(q, i, amount) PROVE Only(FinanceSteps)
  <2> DEFINE r == [Idle EXCEPT !.step = "pay", !.row = i, !.amount = amount]
  <2>1. "step" \in DOMAIN r /\ r.step \in FinanceSteps BY DEF Idle, FinanceSteps
  <2>2. Start(q, "pay", r) BY <1>2 DEF StartPay
  <2> HIDE DEF r
  <2> QED BY <2>1, <2>2, OnlyStarts
<1>3. CASE StartTransaction(q)
  <2> DEFINE r == [Idle EXCEPT !.step = IF accounts = 0 THEN "account" ELSE "entry"]
  <2>1. "step" \in DOMAIN r /\ r.step \in FinanceSteps BY DEF Idle, FinanceSteps
  <2>2. Start(q, "transaction", r) BY <1>3 DEF StartTransaction
  <2> HIDE DEF r
  <2> QED BY <2>1, <2>2, OnlyStarts
<1>4. Idle.step \in FinanceSteps BY DEF Idle, FinanceSteps
<1>5. CASE AnswerInvoice(q) \/ FinishPay(q) \/ InsertTransaction(q)
  BY <1>4, <1>5, OnlyGoes DEF AnswerInvoice, FinishPay, InsertTransaction, Ends, Goes
<1>6. CASE AddItem(q) BY <1>6 DEF AddItem, Only
<1>7. CASE NewAccount(q)
  <2> DEFINE r == [requests[q] EXCEPT !.step = "entry"]
  <2>1. requests[q] \in Request BY DEF Typing
  <2>2. r.step \in FinanceSteps BY <2>1 DEF Request, FinanceSteps
  <2>3. requests' = [requests EXCEPT ![q] = r] BY <1>7 DEF NewAccount, Goes
  <2> HIDE DEF r
  <2> QED BY <2>2, <2>3, OnlyGoes
<1> QED BY <1>1, <1>2, <1>3, <1>5, <1>6, <1>7 DEF FinanceRequest, FinanceStep

LEMMA FaultOnly ==
  ASSUME Typing, (\E q \in Requests : StatementFails(q)) \/ Crash
  PROVE  Only({"idle"})
<1>1. Idle.step \in {"idle"} BY DEF Idle
<1>2. ASSUME NEW q \in Requests, StatementFails(q) PROVE Only({"idle"})
  BY <1>1, <1>2, OnlyGoes DEF StatementFails
<1>3. CASE Crash BY <1>1, <1>3 DEF Crash, Only
<1> QED BY <1>2, <1>3

LEMMA DemoInitially == Init => DemoInv
<1> SUFFICES ASSUME Init PROVE DemoInv OBVIOUS
<1>1. PICK s \in Scenarios : projects = s.projects BY DEF Init
<1>2. ProjectsFit BY <1>1, WorkspaceAssumption DEF ProjectsFit
<1>3. DemoIsWhole BY DEF Init, DemoIsWhole
<1>4. UpdatesFit /\ SeedsFit BY DEF Init, UpdatesFit, SeedsFit, At, Idle
<1> QED BY <1>2, <1>3, <1>4 DEF DemoInv

LEMMA PlusRows ==
  /\ Plus(NoRows, NoRows) = NoRows
  /\ \A a \in Counts : Plus(NoRows, a) = a /\ Plus(a, NoRows) = a
<1>1. ASSUME NEW a \in Counts PROVE Plus(NoRows, a) = a /\ Plus(a, NoRows) = a
  <2>1. \A t \in RowTypes : a[t] + 0 = a[t] /\ 0 + a[t] = a[t] /\ NoRows[t] = 0 BY DEF Counts, NoRows
  <2>2. a = [t \in RowTypes |-> a[t]] BY DEF Counts
  <2> QED BY <2>1, <2>2 DEF Plus
<1> QED BY <1>1, CountsTyped

LEMMA DataRowsSome == \A links \in SUBSET Linked : DataRows(links) # NoRows
<1> SUFFICES ASSUME NEW links \in SUBSET Linked PROVE DataRows(links) # NoRows OBVIOUS
<1>1. "tasks" \in RowTypes BY DEF RowTypes
<1>2. WorkRows["tasks"] = 8 BY <1>1 DEF WorkRows, NoRows
<1>3. FinanceRows["tasks"] = 0 BY <1>1 DEF FinanceRows, NoRows
<1>4. CustomerRows(links)["tasks"] = 0 BY <1>1 DEF CustomerRows, NoRows
<1>5. DataRows(links)["tasks"] = 8 BY <1>1, <1>2, <1>3, <1>4 DEF DataRows, Plus
<1>6. NoRows["tasks"] = 0 BY <1>1 DEF NoRows
<1> QED BY <1>5, <1>6

LEMMA CreateKeeps ==
  ASSUME Typing, DemoInv, NEW p \in Projects, NEW links, CreateProject(p, links)
  PROVE  DemoInv'
<1> DEFINE new == [NoProject EXCEPT !.state = "active", !.links = links]
<1>1. new.state = "active" /\ new.data = NoRows /\ new.crm = NoRows BY DEF NoProject
<1>2. /\ projects' = [projects EXCEPT ![p] = new] /\ projects[p].state = "none"
      /\ rows' = rows /\ requests' = requests
  BY DEF CreateProject
<1>3. projects \in [Projects -> Project] BY DEF Typing
<1> HIDE DEF new
<1>4. projects'[p] = new /\ \A o \in Projects : o # p => projects'[o] = projects[o] BY <1>2, <1>3
<1>5. projects[p].data = NoRows /\ projects[p].crm = NoRows BY <1>2 DEF DemoInv, ProjectsFit
<1>6. DemoIsWhole' BY <1>1, <1>2, <1>4, <1>5 DEF DemoInv, DemoIsWhole, Recorded
<1>7. ProjectsFit' BY <1>1, <1>4 DEF DemoInv, ProjectsFit
<1>8. UpdatesFit' BY <1>2 DEF DemoInv, UpdatesFit, At
<1>9. SeedsFit'
  <2> SUFFICES ASSUME NEW q \in Requests, requests[q].step = "seed"
               PROVE  LET k == requests[q].project IN
                      /\ k \in Projects /\ requests[q].before = projects'[k]
                      /\ projects'[k].state # "none" /\ Partial(projects'[k])
                      /\ \A o \in Requests : o # q /\ At(o, "seed") => requests[o].project # k
    BY <1>2 DEF SeedsFit, At
  <2> DEFINE k == requests[q].project
  <2>1. /\ k \in Projects /\ requests[q].before = projects[k] /\ projects[k].state # "none" /\ Partial(projects[k])
        /\ \A o \in Requests : o # q /\ At(o, "seed") => requests[o].project # k
    BY DEF DemoInv, SeedsFit, At
  <2>2. projects'[k] = projects[k] BY <1>2, <1>4, <2>1
  <2> QED BY <2>1, <2>2
<1> QED BY <1>6, <1>7, <1>8, <1>9 DEF DemoInv

(* A request about a project that starts: the tables stay. *)
LEMMA StartUpdateKeeps ==
  ASSUME Typing, DemoInv, NEW q \in Requests, NEW p, NEW kind, NEW after, after.state # "none",
         StartUpdate(q, p, kind, after)
  PROVE  DemoInv'
<1> DEFINE r == [Idle EXCEPT !.step = "update", !.project = p, !.before = projects[p], !.after = after]
           new == [r EXCEPT !.kind = kind]
<1>1. new.step = "update" /\ new.after = after BY DEF Idle
<1>2. /\ requests' = [requests EXCEPT ![q] = new] /\ projects' = projects /\ rows' = rows
  BY DEF StartUpdate, Start, tables
<1> HIDE DEF r, new
<1>3. requests'[q] = new /\ \A o \in Requests : o # q => requests'[o] = requests[o]
  BY <1>2 DEF Typing
<1>4. DemoIsWhole' /\ ProjectsFit' BY <1>2 DEF DemoInv, DemoIsWhole, Recorded, ProjectsFit
<1>5. UpdatesFit' BY <1>1, <1>3 DEF DemoInv, UpdatesFit, At
<1>6. \A o \in Requests : requests'[o].step = "seed" => o # q /\ requests'[o] = requests[o] BY <1>1, <1>3
<1>7. SeedsFit' BY <1>2, <1>6 DEF DemoInv, SeedsFit, At
<1> QED BY <1>4, <1>5, <1>7 DEF DemoInv

LEMMA StartSeedKeeps ==
  ASSUME Typing, DemoInv, NEW q \in Requests, NEW p \in Projects, StartSeed(q, p)
  PROVE  DemoInv'
<1> DEFINE r == [Idle EXCEPT !.step = "seed", !.project = p, !.before = projects[p]]
           new == [r EXCEPT !.kind = "seed"]
<1>1. new.step = "seed" /\ new.project = p /\ new.before = projects[p] BY DEF Idle
<1>2. /\ requests' = [requests EXCEPT ![q] = new] /\ projects' = projects /\ rows' = rows
      /\ projects[p].state # "none" /\ ~Locked(p) /\ Partial(projects[p])
  BY DEF StartSeed, Seed, Start, tables, Whole, Seeded, Partial
<1> HIDE DEF r, new
<1>3. requests'[q] = new /\ \A o \in Requests : o # q => requests'[o] = requests[o]
  BY <1>2 DEF Typing
<1>4. DemoIsWhole' /\ ProjectsFit' BY <1>2 DEF DemoInv, DemoIsWhole, Recorded, ProjectsFit
<1>5. UpdatesFit' BY <1>1, <1>3 DEF DemoInv, UpdatesFit, At
<1>6. \A o \in Requests : o # q /\ requests[o].step = "seed" => requests[o].project # p
  BY <1>2 DEF Locked, At
<1>7. ASSUME NEW o \in Requests, requests'[o].step = "seed"
      PROVE  LET k == requests'[o].project IN
             /\ k \in Projects /\ requests'[o].before = projects[k] /\ projects[k].state # "none" /\ Partial(projects[k])
             /\ \A i \in Requests : i # o /\ requests'[i].step = "seed" => requests'[i].project # k
  <2>1. CASE o = q BY <1>1, <1>2, <1>3, <1>6, <2>1
  <2>2. CASE o # q
    <3> DEFINE k == requests[o].project
    <3>1. requests'[o] = requests[o] BY <1>3, <2>2
    <3>2. /\ k \in Projects /\ requests[o].before = projects[k] /\ projects[k].state # "none" /\ Partial(projects[k])
          /\ \A i \in Requests : i # o /\ requests[i].step = "seed" => requests[i].project # k
      BY <1>7, <3>1 DEF DemoInv, SeedsFit, At
    <3>3. k # p BY <1>6, <1>7, <2>2, <3>1
    <3>4. \A i \in Requests : i # o /\ requests'[i].step = "seed" => requests'[i].project # k
      BY <1>1, <1>3, <3>2, <3>3
    <3> QED BY <3>1, <3>2, <3>4
  <2> QED BY <2>1, <2>2
<1>8. SeedsFit' BY <1>2, <1>7 DEF SeedsFit, At
<1> QED BY <1>4, <1>5, <1>8 DEF DemoInv

LEMMA FinishUpdateKeeps ==
  ASSUME Typing, DemoInv, NEW q \in Requests, FinishUpdate(q)
  PROVE  DemoInv'
<1> DEFINE p == requests[q].project
           r == requests[q]
           state == Column(r.before.state, r.after.state, projects[p].state)
           links == (projects[p].links \cup (r.after.links \ r.before.links)) \ (r.before.links \ r.after.links)
           new == [projects[p] EXCEPT !.state = state, !.links = links]
<1>1. /\ r.step = "update" /\ ~Locked(p) /\ requests' = [requests EXCEPT ![q] = Idle]
      /\ projects' = [projects EXCEPT ![p] = new] /\ rows' = rows
  BY DEF FinishUpdate, At, Ends, Goes
<1>2. projects \in [Projects -> Project] /\ requests \in [Requests -> Request] BY DEF Typing
<1>3. state = projects[p].state \/ state # "none" BY <1>1 DEF DemoInv, UpdatesFit, At, Column
<1> HIDE DEF state, links
<1>4. p \in Projects => new.state = state /\ new.data = projects[p].data /\ new.crm = projects[p].crm
  BY <1>2 DEF Project
<1> HIDE DEF new
<1>5. \A o \in Projects : projects'[o] = IF o = p THEN new ELSE projects[o] BY <1>1, <1>2
<1>6. Idle.step = "idle" BY DEF Idle
<1>7. \A o \in Requests : requests'[o] = requests[o] \/ requests'[o].step = "idle" BY <1>1, <1>2, <1>6
<1>8. DemoIsWhole' BY <1>1, <1>4, <1>5 DEF DemoInv, DemoIsWhole, Recorded
<1>9. ProjectsFit' BY <1>3, <1>4, <1>5 DEF DemoInv, ProjectsFit
<1>10. UpdatesFit' BY <1>7 DEF DemoInv, UpdatesFit, At
<1>11. ASSUME NEW o \in Requests, requests'[o].step = "seed"
       PROVE  LET k == requests'[o].project IN
              /\ k \in Projects /\ requests'[o].before = projects'[k] /\ projects'[k].state # "none" /\ Partial(projects'[k])
              /\ \A i \in Requests : i # o /\ requests'[i].step = "seed" => requests'[i].project # k
  <2> DEFINE k == requests[o].project
  <2>1. requests'[o] = requests[o] BY <1>7, <1>11
  <2>2. /\ k \in Projects /\ requests[o].before = projects[k] /\ projects[k].state # "none" /\ Partial(projects[k])
        /\ \A i \in Requests : i # o /\ requests[i].step = "seed" => requests[i].project # k
    BY <1>11, <2>1 DEF DemoInv, SeedsFit, At
  <2>3. k # p BY <1>1, <1>11, <2>1 DEF Locked, At
  <2>4. projects'[k] = projects[k] BY <1>5, <2>2, <2>3
  <2>5. \A i \in Requests : i # o /\ requests'[i].step = "seed" => requests'[i].project # k
    BY <1>7, <2>2
  <2> QED BY <2>1, <2>2, <2>4, <2>5
<1>12. SeedsFit' BY <1>11 DEF SeedsFit, At
<1> QED BY <1>8, <1>9, <1>10, <1>12 DEF DemoInv

LEMMA CommitSeedKeeps ==
  ASSUME Typing, DemoInv, NEW q \in Requests, CommitSeed(q)
  PROVE  DemoInv'
<1> DEFINE p == requests[q].project
           r == requests[q]
           first == r.before.data = NoRows
           made == IF first THEN Plus(DataRows(r.before.links), CrmRows) ELSE CrmRows
           data == IF first THEN DataRows(r.before.links) ELSE r.before.data
           links == IF first THEN Linked ELSE projects[p].links
           new == [projects[p] EXCEPT !.data = data, !.crm = CrmRows, !.links = links]
<1>1. /\ r.step = "seed" /\ requests' = [requests EXCEPT ![q] = Idle]
      /\ projects' = [projects EXCEPT ![p] = new] /\ rows' = [rows EXCEPT ![p] = Plus(rows[p], made)]
  BY DEF CommitSeed, At, Ends, Goes
<1>2. /\ projects \in [Projects -> Project] /\ requests \in [Requests -> Request]
      /\ rows \in [Projects -> Counts] /\ r.before \in Project
  <2>1. requests[q] \in Request BY DEF Typing
  <2> QED BY <2>1 DEF Typing, Request
<1>3. /\ p \in Projects /\ r.before = projects[p] /\ projects[p].state # "none" /\ Partial(projects[p])
      /\ \A o \in Requests : o # q /\ At(o, "seed") => requests[o].project # p
  BY <1>1 DEF DemoInv, SeedsFit, At
<1>4. DataRows(r.before.links) \in Counts /\ DataRows(r.before.links) # NoRows
      /\ r.before.data \in Counts /\ CrmRows \in Counts
  BY <1>2, DataRowsTyped, DataRowsSome, CountsTyped DEF Project
<1>5. data \in Counts /\ data # NoRows BY <1>4
<1>6. Plus(rows[p], made) = Plus(data, CrmRows)
  <2>1. rows[p] = Plus(projects[p].data, projects[p].crm) BY <1>3 DEF DemoInv, DemoIsWhole, Recorded
  <2>2. CASE first
    <3>1. projects[p].data = NoRows /\ projects[p].crm = NoRows
      BY <1>3, <2>2 DEF DemoInv, ProjectsFit
    <3>2. rows[p] = NoRows BY <2>1, <3>1, PlusRows
    <3>3. Plus(DataRows(r.before.links), CrmRows) \in Counts BY <1>4, CountsTyped
    <3> QED BY <2>2, <3>2, <3>3, PlusRows
  <2>3. CASE ~first
    <3>1. projects[p].crm = NoRows BY <1>3, <2>3 DEF Partial
    <3>2. rows[p] = r.before.data BY <1>3, <1>4, <2>1, <3>1, PlusRows
    <3> QED BY <2>3, <3>2
  <2> QED BY <2>2, <2>3
<1> HIDE DEF data, links, made, first
<1>7. new.state = projects[p].state /\ new.data = data /\ new.crm = CrmRows
  <2>1. projects[p] \in Project BY <1>2, <1>3
  <2> QED BY <2>1 DEF Project
<1> HIDE DEF new
<1>8. \A o \in Projects : projects'[o] = IF o = p THEN new ELSE projects[o] BY <1>1, <1>2
<1>9. \A o \in Projects : rows'[o] = IF o = p THEN Plus(data, CrmRows) ELSE rows[o] BY <1>1, <1>2, <1>6
<1>10. Idle.step = "idle" BY DEF Idle
<1>11. requests'[q].step = "idle" /\ \A o \in Requests : o # q => requests'[o] = requests[o]
  BY <1>1, <1>2, <1>10
<1>12. DemoIsWhole' BY <1>7, <1>8, <1>9 DEF DemoInv, DemoIsWhole, Recorded
<1>13. ProjectsFit' BY <1>3, <1>5, <1>7, <1>8 DEF DemoInv, ProjectsFit
<1>14. UpdatesFit' BY <1>11 DEF DemoInv, UpdatesFit, At
<1>15. ASSUME NEW o \in Requests, requests'[o].step = "seed"
       PROVE  LET k == requests'[o].project IN
              /\ k \in Projects /\ requests'[o].before = projects'[k] /\ projects'[k].state # "none" /\ Partial(projects'[k])
              /\ \A i \in Requests : i # o /\ requests'[i].step = "seed" => requests'[i].project # k
  <2> DEFINE k == requests[o].project
  <2>1. o # q /\ requests'[o] = requests[o] BY <1>11, <1>15
  <2>2. /\ k \in Projects /\ requests[o].before = projects[k] /\ projects[k].state # "none" /\ Partial(projects[k])
        /\ \A i \in Requests : i # o /\ requests[i].step = "seed" => requests[i].project # k
    BY <1>15, <2>1 DEF DemoInv, SeedsFit, At
  <2>3. k # p BY <1>3, <1>15, <2>1 DEF At
  <2>4. projects'[k] = projects[k] BY <1>8, <2>2, <2>3
  <2>5. \A i \in Requests : i # o /\ requests'[i].step = "seed" => requests'[i].project # k
    BY <1>11, <2>2
  <2> QED BY <2>1, <2>2, <2>4, <2>5
<1>16. SeedsFit' BY <1>15 DEF SeedsFit, At
<1> QED BY <1>12, <1>13, <1>14, <1>16 DEF DemoInv

LEMMA DemoInductive == Typing /\ DemoInv /\ [Next]_vars => DemoInv'
<1> SUFFICES ASSUME Typing, DemoInv, [Next]_vars PROVE DemoInv' OBVIOUS
<1>1. CASE CrmRequest \/ \E q \in Requests : CrmStep(q)
  <2>1. UNCHANGED <<projects, rows>>
    BY <1>1 DEF CrmRequest, CrmStep, List, Create, StartEdit, StartStatus, StartMove, Remove, FindDefault,
                NewDefault, EnsureStage, FinishList, InsertDeal, FinishEdit, FinishMove, tables, Demo
  <2> QED BY <1>1, <2>1, CrmOnly, AsideKeeps DEF Only, CrmSteps, Steps
<1>2. ASSUME NEW q \in Requests, FinanceRequest(q) \/ FinanceStep(q) PROVE DemoInv'
  <2>1. UNCHANGED <<projects, rows>>
    BY <1>2 DEF FinanceRequest, FinanceStep, InsertInvoice, StartPay, StartTransaction, AddItem,
                AnswerInvoice, FinishPay, NewAccount, InsertTransaction, Records, tables
  <2> QED BY <1>2, <2>1, FinanceOnly, AsideKeeps DEF Only, FinanceSteps, Steps
<1>3. CASE ProjectRequest
  <2>1. \A p \in Projects : \A links : [projects[p] EXCEPT !.state = "archived"].state # "none"
                                   /\ [projects[p] EXCEPT !.state = "active", !.links = links].state # "none"
    <3>1. \A p \in Projects : projects[p] \in Project BY DEF Typing
    <3> QED BY <3>1 DEF Project
  <2>2. ASSUME NEW q \in Requests, NEW p \in Projects, Archive(q, p) PROVE DemoInv'
    <3> DEFINE after == [projects[p] EXCEPT !.state = "archived"]
    <3>1. after.state # "none" /\ StartUpdate(q, p, "archive", after) BY <2>1, <2>2 DEF Archive
    <3> HIDE DEF after
    <3> QED BY <3>1, StartUpdateKeeps
  <2>3. ASSUME NEW q \in Requests, NEW p \in Projects, NEW links, Update(q, p, "active", links) PROVE DemoInv'
    <3> DEFINE after == [projects[p] EXCEPT !.state = "active", !.links = links]
    <3>1. after.state # "none" /\ StartUpdate(q, p, "update", after) BY <2>1, <2>3 DEF Update
    <3> HIDE DEF after
    <3> QED BY <3>1, StartUpdateKeeps
  <2> QED BY <1>3, <2>2, <2>3, CreateKeeps, StartSeedKeeps DEF ProjectRequest
<1>4. ASSUME NEW q \in Requests, ProjectStep(q) PROVE DemoInv'
  BY <1>4, FinishUpdateKeeps, CommitSeedKeeps DEF ProjectStep
<1>5. CASE (\E q \in Requests : StatementFails(q)) \/ Crash
  <2>1. UNCHANGED <<projects, rows>> BY <1>5 DEF StatementFails, Crash, tables
  <2> QED BY <1>5, <2>1, FaultOnly, AsideKeeps DEF Only, Steps
<1>6. CASE UNCHANGED vars
  <2>1. UNCHANGED <<projects, rows>> /\ requests' = requests BY <1>6 DEF vars
  <2> QED BY <2>1, AsideKeeps DEF Only
<1> QED BY <1>1, <1>2, <1>3, <1>4, <1>5, <1>6 DEF Next

(* A project's demo rows are exactly those its settings record, however many seeds, *)
(* updates, failures and restarts there are: the row's lock keeps a second seed out, *)
(* and one transaction makes rows and record (project-demo.service.ts:101-118).      *)
THEOREM DemoStaysWhole == Spec => []DemoIsWhole
<1>1. Init => Typing /\ DemoInv BY TypingInitially, DemoInitially
<1>2. Typing /\ DemoInv /\ [Next]_vars => (Typing /\ DemoInv)' BY TypingInductive, DemoInductive
<1>3. DemoInv => DemoIsWhole BY DEF DemoInv
<1> QED BY <1>1, <1>2, <1>3, PTL DEF Spec

-----------------------------------------------------------------------------
(* Invoices add up *)

(* r cents are within n halves of a cent of the amount x. *)
Near(x, r, n) == Unit * (2 * r) \in (2 * x - n * Unit)..(2 * x + n * Unit)

LEMMA NearSum ==
  ASSUME NEW x \in Int, NEW r \in Int, NEW n \in Nat, Near(x, r, n),
         NEW y \in Int, NEW s \in Int, Near(y, s, 1)
  PROVE  Near(x + y, r + s, n + 1)
<1> DEFINE p == Unit * (2 * r)  q == Unit * (2 * s)  m == n * Unit
<1>1. Unit \in Int /\ p \in Int /\ q \in Int /\ m \in Int BY UnitTyped
<1>2. Unit * (2 * (r + s)) = p + q /\ (n + 1) * Unit = m + Unit BY UnitTyped
<1>3. p \in (2 * x - m)..(2 * x + m) BY DEF Near
<1>4. q \in (2 * y - Unit)..(2 * y + Unit) BY UnitTyped DEF Near
<1> HIDE DEF p, q, m
<1>5. p + q \in (2 * (x + y) - (m + Unit))..(2 * (x + y) + (m + Unit)) BY <1>1, <1>3, <1>4
<1> QED BY <1>2, <1>5 DEF Near

LEMMA RoundNear == \A x \in Int : Round(x) \in Int /\ Near(x, Round(x), 1)
<1> SUFFICES ASSUME NEW x \in Int PROVE Round(x) \in Int /\ Near(x, Round(x), 1) OBVIOUS
<1>1. 1 * Unit = Unit BY UnitTyped
<1> QED BY <1>1, RoundOff DEF Near

(* What the rounding of each amount adds to their sum. *)
LEMMA RoundedSum ==
  ASSUME NEW t \in Seq(Int), NEW r \in Seq(Int), Len(r) = Len(t),
         \A k \in DOMAIN t : r[k] = Round(t[k])
  PROVE  Near(Total(t), Total(r), Len(t))
<1> DEFINE n == Len(t)
           Close(k) == Near(Sums(t)[k], Sums(r)[k], k)
           Far == { k \in 0..n : ~Close(k) }
<1>1. n \in Nat /\ Len(r) = n /\ \A k \in 1..n : t[k] \in Int /\ r[k] = Round(t[k])
  OBVIOUS
<1>2. /\ Sums(t)[0] = 0 /\ Sums(r)[0] = 0
      /\ \A k \in 1..n : Sums(t)[k] = Sums(t)[k - 1] + t[k] /\ Sums(r)[k] = Sums(r)[k - 1] + r[k]
      /\ \A k \in 0..n : Sums(t)[k] \in Int /\ Sums(r)[k] \in Int
  BY <1>1, SumsOf
<1>3. Far = {}
  <2> SUFFICES ASSUME Far # {} PROVE FALSE OBVIOUS
  <2>1. Far \subseteq Nat BY <1>1
  <2>2. PICK m \in Far : \A k \in Far : m <= k
    <3> HIDE DEF Far
    <3> QED BY <2>1, LeastOf
  <2>3. m \in 0..n /\ m \in Nat /\ ~Close(m) BY <1>1
  <2>4. m # 0
    <3>1. Near(0, 0, 0) BY UnitTyped DEF Near
    <3> QED BY <1>2, <2>3, <3>1
  <2>5. m - 1 \in 0..n /\ m - 1 \in Nat /\ m \in 1..n /\ ~(m <= m - 1) BY <1>1, <2>3, <2>4
  <2>6. Close(m - 1)
    <3> HIDE DEF Close
    <3> QED BY <2>2, <2>5
  <2> DEFINE x == Sums(t)[m - 1]  y == Sums(r)[m - 1]  a == t[m]  b == r[m]  k == m - 1
  <2>7. a \in Int /\ b = Round(a) BY <1>1, <2>5
  <2>8. x \in Int /\ y \in Int /\ k \in Nat /\ k + 1 = m BY <1>2, <2>5
  <2>9. Sums(t)[m] = x + a /\ Sums(r)[m] = y + b BY <1>2, <2>5
  <2>10. Near(x, y, k) BY <2>6
  <2> HIDE DEF x, y, a, b, k
  <2>11. b \in Int /\ Near(a, b, 1) BY <2>7, RoundNear
  <2>12. Near(x + a, y + b, k + 1) BY <2>7, <2>8, <2>10, <2>11, NearSum
  <2> QED BY <2>3, <2>8, <2>9, <2>12
<1>4. Close(n) BY <1>1, <1>3
<1> QED BY <1>1, <1>4 DEF Total

(* An invoice as createInvoice() has filled it so far; d is the discount sent. *)
InvoiceFits(v) ==
  /\ Len(v.items) <= Len(v.lines)
  /\ \A k \in DOMAIN v.items : v.items[k] = Round(LineTotal(v.lines[k]))
  /\ \E d \in Int : v.discount = Round(d) /\ v.total = Round(Total(LineTotals(v.lines)) - d)
  /\ v.answered => Len(v.items) = Len(v.lines)
  /\ v.paid = 0 \/ v.paid \in 1..v.total
InvoicesFit == \A i \in DOMAIN invoices : InvoiceFits(invoices[i])

(* A payment was checked against the total, which nothing changes. *)
PayFits(r, table) ==
  r.step = "pay" => /\ r.row \in DOMAIN table
                    /\ r.amount >= 0 /\ r.amount <= Unit * table[r.row].total
PaysFit == \A q \in Requests : PayFits(requests[q], invoices)

LEMMA FittingAddsUp ==
  ASSUME NEW v \in Invoice, InvoiceFits(v)
  PROVE  LET n == Len(v.lines)
             excess == 2 * (Total(v.items) - v.total - v.discount) IN
         /\ v.answered => Len(v.items) = n /\ excess \in -(n + 2)..(n + 2)
         /\ v.paid = 0 \/ v.paid \in 1..v.total
<1> DEFINE t == LineTotals(v.lines)
           n == Len(v.lines)
           excess == 2 * (Total(v.items) - v.total - v.discount)
<1>1. v.lines \in Seq(Line) /\ v.items \in Seq(Int) /\ v.total \in Int /\ v.discount \in Int BY DEF Invoice
<1>2. PICK d \in Int : v.discount = Round(d) /\ v.total = Round(Total(t) - d) BY DEF InvoiceFits
<1>3. t \in Seq(Int) /\ Len(t) = n /\ DOMAIN t = DOMAIN v.lines
      /\ \A k \in DOMAIN t : t[k] = LineTotal(v.lines[k])
  BY <1>1, LineTotalsTyped
<1>4. ASSUME v.answered PROVE Len(v.items) = n /\ excess \in -(n + 2)..(n + 2)
  <2>1. Len(v.items) = n BY <1>4 DEF InvoiceFits
  <2>2. \A k \in DOMAIN t : v.items[k] = Round(t[k]) BY <1>1, <1>3, <2>1 DEF InvoiceFits
  <2> DEFINE all == Total(t)  items == Total(v.items)
             total == v.total  off == v.discount
  <2>3. Near(all, items, n)
    <3> HIDE DEF t
    <3> QED BY <1>1, <1>3, <2>1, <2>2, RoundedSum
  <2>4. all \in Int /\ items \in Int /\ n \in Nat /\ total \in Int /\ off \in Int
    BY <1>1, <1>3, TotalTyped
  <2>5. Near(d, off, 1) BY <1>2, RoundNear
  <2>6. Near(all - d, total, 1)
    <3>1. all - d \in Int BY <2>4
    <3> QED BY <1>2, <3>1, RoundNear
  <2>7. excess = 2 * (items - total - off) OBVIOUS
  <2> HIDE DEF all, items, n, total, off, excess
  <2>8. excess \in Int BY <2>4, <2>7
  <2> DEFINE p == Unit * (2 * items)  u == Unit * (2 * off)  w == Unit * (2 * total)  h == n * Unit
  <2>9. p \in Int /\ u \in Int /\ w \in Int /\ h \in Int /\ Unit \in Int BY <2>4, UnitTyped
  <2>10. /\ p \in (2 * all - h)..(2 * all + h)
         /\ u \in (2 * d - Unit)..(2 * d + Unit)
         /\ w \in (2 * (all - d) - Unit)..(2 * (all - d) + Unit)
    BY <2>3, <2>4, <2>5, <2>6, UnitTyped DEF Near
  <2>11. /\ Unit * excess = p - w - u
         /\ Unit * (n + 2) = h + 2 * Unit /\ Unit * (-(n + 2)) = -(h + 2 * Unit)
    BY <2>4, <2>7, UnitTyped
  <2> HIDE DEF p, u, w, h
  <2>12. p - w - u <= h + 2 * Unit /\ -(h + 2 * Unit) <= p - w - u BY <2>4, <2>9, <2>10
  <2>13. Unit * excess <= Unit * (n + 2) /\ Unit * (-(n + 2)) <= Unit * excess BY <2>11, <2>12
  <2>14. n + 2 \in Int /\ -(n + 2) \in Int BY <2>4
  <2>15. excess <= n + 2 /\ -(n + 2) <= excess
    <3> DEFINE top == n + 2  bottom == -(n + 2)
    <3>1. top \in Int /\ bottom \in Int BY <2>14
    <3>2. Unit * excess <= Unit * top /\ Unit * bottom <= Unit * excess BY <2>13
    <3> HIDE DEF top, bottom
    <3>3. excess <= top /\ bottom <= excess BY <2>8, <3>1, <3>2, Cancel
    <3> QED BY <3>3 DEF top, bottom
  <2> QED BY <2>1, <2>8, <2>14, <2>15
<1> QED BY <1>4 DEF InvoiceFits

LEMMA BillsInitially == Init => InvoicesFit /\ PaysFit
BY DEF Init, InvoicesFit, PaysFit, PayFits, Idle

(* A step that adds invoices or changes one of them. *)
LEMMA BillsOn ==
  ASSUME InvoicesFit, PaysFit,
         \A i \in DOMAIN invoices : i \in DOMAIN invoices' /\ invoices'[i].total = invoices[i].total,
         \A i \in DOMAIN invoices' :
           \/ i \in DOMAIN invoices /\ invoices'[i] = invoices[i]
           \/ InvoiceFits(invoices'[i]),
         \A q \in Requests :
           requests'[q] = requests[q] \/ PayFits(requests'[q], invoices)
  PROVE  InvoicesFit' /\ PaysFit'
<1>1. \A i \in DOMAIN invoices' : InvoiceFits(invoices'[i]) BY DEF InvoicesFit
<1>2. \A r : PayFits(r, invoices) => PayFits(r, invoices') BY DEF PayFits
<1>3. \A q \in Requests : PayFits(requests'[q], invoices') BY <1>2 DEF PaysFit
<1> QED BY <1>1, <1>3 DEF InvoicesFit, PaysFit

(* Steps that have no invoice and no payment in them. *)
LEMMA BillsAside ==
  ASSUME InvoicesFit, PaysFit, invoices' = invoices, Only(Steps \ {"pay"})
  PROVE  InvoicesFit' /\ PaysFit'
<1>1. \A q \in Requests : requests'[q] = requests[q] \/ PayFits(requests'[q], invoices)
  BY DEF Only, PayFits
<1> QED BY <1>1, BillsOn

LEMMA ProjectOnly ==
  ASSUME Typing, ProjectRequest \/ \E q \in Requests : ProjectStep(q)
  PROVE  Only(ProjectSteps)
<1>1. ASSUME NEW p, NEW links, CreateProject(p, links) PROVE Only(ProjectSteps)
  BY <1>1 DEF CreateProject, Only
<1>2. ASSUME NEW q \in Requests, NEW p, NEW kind, NEW after, StartUpdate(q, p, kind, after)
      PROVE  Only(ProjectSteps)
  <2> DEFINE r == [Idle EXCEPT !.step = "update", !.project = p,
                               !.before = projects[p], !.after = after]
  <2>1. "step" \in DOMAIN r /\ r.step \in ProjectSteps BY DEF Idle, ProjectSteps
  <2>2. Start(q, kind, r) BY <1>2 DEF StartUpdate
  <2> HIDE DEF r
  <2> QED BY <2>1, <2>2, OnlyStarts
<1>3. ASSUME NEW q \in Requests, NEW p, StartSeed(q, p) PROVE Only(ProjectSteps)
  <2> DEFINE r == [Idle EXCEPT !.step = "seed", !.project = p, !.before = projects[p]]
  <2>1. "step" \in DOMAIN r /\ r.step \in ProjectSteps BY DEF Idle, ProjectSteps
  <2>2. Start(q, "seed", r) BY <1>3 DEF StartSeed, Seed
  <2> HIDE DEF r
  <2> QED BY <2>1, <2>2, OnlyStarts
<1>4. ASSUME NEW q \in Requests, ProjectStep(q) PROVE Only(ProjectSteps)
  <2>1. requests' = [requests EXCEPT ![q] = Idle]
    BY <1>4 DEF ProjectStep, FinishUpdate, CommitSeed, Ends, Goes
  <2>2. Idle.step \in ProjectSteps BY DEF Idle, ProjectSteps
  <2> QED BY <2>1, <2>2, OnlyGoes
<1> QED BY <1>1, <1>2, <1>3, <1>4 DEF ProjectRequest, Archive, Update

LEMMA WholeCents == \A c \in Nat : Round(Unit * c) = c
<1> SUFFICES ASSUME NEW c \in Nat PROVE Round(Unit * c) = c OBVIOUS
<1> DEFINE x == Unit * c  r == Round(x)
<1>1. x \in Int /\ x >= 0 /\ x <= Unit * c BY UnitTyped
<1> HIDE DEF x
<1>2. r \in Int /\ r <= c BY <1>1, RoundOff
<1>3. 2 * x - Unit <= Unit * (2 * r) BY <1>1, RoundOff
<1> HIDE DEF r
<1>4. Unit * (2 * c - 1) = 2 * x - Unit BY UnitTyped DEF x
<1>5. Unit * (2 * c - 1) <= Unit * (2 * r) BY <1>3, <1>4
<1> DEFINE a == 2 * c - 1  b == 2 * r
<1>6. a \in Int /\ b \in Int /\ Unit * a <= Unit * b BY <1>2, <1>5
<1> HIDE DEF a, b
<1>7. a <= b BY <1>6, Cancel
<1>8. c <= r BY <1>2, <1>7 DEF a, b
<1> QED BY <1>2, <1>8 DEF r, x

LEMMA SeedBills ==
  ASSUME Typing, InvoicesFit, PaysFit, NEW q \in Requests, CommitSeed(q)
  PROVE  InvoicesFit' /\ PaysFit'
<1> DEFINE demo == [i \in DOMAIN DemoInvoices |-> InvoiceRow(i)]
<1>1. invoices' = invoices \/ invoices' = invoices \o demo BY DEF CommitSeed
<1>2. invoices \in Seq(Invoice) /\ demo \in Seq(Invoice) BY DemoTyped DEF Typing
<1>3. ASSUME NEW i \in DOMAIN demo PROVE InvoiceFits(demo[i])
  <2> DEFINE c == DemoInvoices[i].total
             v == InvoiceRow(i)
             lines == <<[net |-> Unit * c, tax |-> 0]>>
  <2>1. c \in Nat /\ c # 0 /\ DemoInvoices[i].paid \in {0, c} /\ demo[i] = v BY DEF DemoInvoices
  <2>2. /\ v.lines = lines /\ v.discount = 0 /\ v.total = c /\ v.items = <<c>>
        /\ v.paid \in {0, c} /\ v.answered
    BY <2>1 DEF InvoiceRow
  <2> HIDE DEF v, c
  <2>3. lines \in Seq(Line) /\ Len(lines) = 1 /\ LineTotal(lines[1]) = Unit * c /\ Unit * c \in Int
    <3>1. Unit * c \in Int BY <2>1, UnitTyped
    <3>2. [net |-> Unit * c, tax |-> 0] \in Line BY <3>1 DEF Line
    <3> QED BY <3>1, <3>2 DEF LineTotal
  <2>4. Round(Unit * c) = c /\ Round(0) = 0
    <3>1. Unit * 0 = 0 BY UnitTyped
    <3> QED BY <2>1, <3>1, WholeCents
  <2>5. Total(LineTotals(lines)) = Unit * c
    <3> DEFINE t == LineTotals(lines)
    <3>1. t \in Seq(Int) /\ Len(t) = 1 /\ t[1] = Unit * c
      <4> HIDE DEF lines
      <4>1. 1 \in DOMAIN lines BY <2>3
      <4> QED BY <2>3, <4>1, LineTotalsTyped
    <3> HIDE DEF t
    <3>2. Sums(t)[0] = 0 /\ Sums(t)[1] = Sums(t)[0] + t[1]
      <4>1. 1 \in 1..Len(t) /\ 1 - 1 = 0 BY <3>1
      <4> QED BY <3>1, <4>1, SumsOf
    <3>3. Total(t) = Unit * c BY <2>3, <3>1, <3>2 DEF Total
    <3> QED BY <3>3 DEF t
  <2> HIDE DEF lines
  <2>6. /\ Len(v.items) <= Len(v.lines)
        /\ \A k \in DOMAIN v.items : v.items[k] = Round(LineTotal(v.lines[k]))
        /\ v.answered => Len(v.items) = Len(v.lines)
    BY <2>1, <2>2, <2>3, <2>4
  <2>7. v.discount = Round(0) /\ v.total = Round(Total(LineTotals(v.lines)) - 0)
    <3> DEFINE sum == Total(LineTotals(lines))
    <3>1. sum - 0 = Unit * c BY <2>3, <2>5
    <3> QED BY <2>2, <2>4, <3>1
  <2>8. v.paid = 0 \/ v.paid \in 1..v.total BY <2>1, <2>2
  <2>9. InvoiceFits(v) BY <2>6, <2>7, <2>8 DEF InvoiceFits
  <2> HIDE DEF demo
  <2> QED BY <2>1, <2>9
<1> HIDE DEF demo
<1>4. /\ \A i \in DOMAIN invoices : i \in DOMAIN invoices' /\ invoices'[i].total = invoices[i].total
      /\ \A i \in DOMAIN invoices' :
           (i \in DOMAIN invoices /\ invoices'[i] = invoices[i]) \/ InvoiceFits(invoices'[i])
  <2>1. CASE invoices' = invoices \o demo
    <3>1. /\ \A i \in DOMAIN invoices : i \in DOMAIN invoices' /\ invoices'[i] = invoices[i]
          /\ \A i \in DOMAIN invoices' :
               \/ i \in DOMAIN invoices /\ invoices'[i] = invoices[i]
               \/ \E j \in DOMAIN demo : invoices'[i] = demo[j]
      BY <1>2, <2>1, ConcatElements
    <3> QED BY <1>3, <3>1
  <2>2. CASE invoices' = invoices BY <2>2
  <2> QED BY <1>1, <2>1, <2>2
<1>5. \A o \in Requests : requests'[o] = requests[o] \/ PayFits(requests'[o], invoices)
  BY ProjectOnly DEF ProjectStep, Only, ProjectSteps, PayFits
<1> QED BY <1>4, <1>5, BillsOn

LEMMA AppendElements ==
  ASSUME NEW S, NEW s \in Seq(S), NEW x \in S
  PROVE  /\ Len(Append(s, x)) = Len(s) + 1 /\ Append(s, x)[Len(s) + 1] = x
         /\ \A k \in DOMAIN Append(s, x) :
              k = Len(s) + 1 \/ (k \in DOMAIN s /\ Append(s, x)[k] = s[k])
OBVIOUS

LEMMA FinanceBills ==
  ASSUME Typing, InvoicesFit, PaysFit, NEW q \in Requests, FinanceRequest(q) \/ FinanceStep(q)
  PROVE  InvoicesFit' /\ PaysFit'
<1> DEFINE i == requests[q].row
<1>1. /\ requests[q] \in Request /\ requests \in [Requests -> Request] /\ invoices \in Seq(Invoice)
      /\ \A j \in DOMAIN invoices : invoices[j] \in Invoice /\ InvoiceFits(invoices[j])
  BY DEF Typing, InvoicesFit
<1>2. Idle.step = "idle" BY DEF Idle
<1>3. ASSUME NEW new, i \in DOMAIN invoices => new.total = invoices[i].total /\ InvoiceFits(new),
             invoices' = [invoices EXCEPT ![i] = new],
             requests' = requests \/ requests' = [requests EXCEPT ![q] = Idle]
      PROVE  InvoicesFit' /\ PaysFit'
  <2>1. DOMAIN invoices' = DOMAIN invoices
        /\ \A j \in DOMAIN invoices : invoices'[j] = IF j = i THEN new ELSE invoices[j]
    BY <1>1, <1>3
  <2>2. \A o \in Requests : requests'[o] = requests[o] \/ PayFits(requests'[o], invoices)
    BY <1>1, <1>2, <1>3 DEF PayFits
  <2>3. /\ \A j \in DOMAIN invoices : j \in DOMAIN invoices' /\ invoices'[j].total = invoices[j].total
        /\ \A j \in DOMAIN invoices' :
             (j \in DOMAIN invoices /\ invoices'[j] = invoices[j]) \/ InvoiceFits(invoices'[j])
    BY <1>3, <2>1
  <2> QED BY <2>2, <2>3, BillsOn
<1>4. ASSUME NEW body \in Bodies, InsertInvoice(q, body) PROVE InvoicesFit' /\ PaysFit'
  <2> DEFINE r == [Idle EXCEPT !.step = "invoice", !.row = Len(invoices) + 1]
             d == Round(body.discount)
             t == Round(Total(LineTotals(body.lines)) - body.discount)
             new == [lines |-> body.lines, discount |-> d, total |-> t,
                     items |-> <<>>, paid |-> 0, answered |-> FALSE]
  <2>1. body.lines \in Seq(Line) /\ body.discount \in Int BY FinanceAssumption
  <2>2. invoices' = Append(invoices, new) /\ Start(q, "invoice", r) BY <1>4 DEF InsertInvoice
  <2>3. InvoiceFits(new)
    <3>1. /\ Len(new.items) = 0 /\ Len(new.lines) \in Nat /\ new.lines = body.lines
          /\ new.items = <<>> /\ new.paid = 0 /\ ~new.answered
      BY <2>1
    <3>2. new.discount = Round(body.discount)
          /\ new.total = Round(Total(LineTotals(new.lines)) - body.discount)
      OBVIOUS
    <3> HIDE DEF new
    <3>3. \E e \in Int : new.discount = Round(e) /\ new.total = Round(Total(LineTotals(new.lines)) - e)
      BY <2>1, <3>2
    <3>4. Len(new.items) <= Len(new.lines) /\ DOMAIN new.items = {} BY <3>1
    <3> QED BY <3>1, <3>3, <3>4 DEF InvoiceFits
  <2> HIDE DEF new
  <2>4. /\ \A j \in DOMAIN invoices : j \in DOMAIN invoices' /\ invoices'[j] = invoices[j]
        /\ \A j \in DOMAIN invoices' :
             (j \in DOMAIN invoices /\ invoices'[j] = invoices[j]) \/ invoices'[j] = new
    BY <1>1, <2>2
  <2>5. Only({"invoice"})
    <3>1. "step" \in DOMAIN r /\ r.step \in {"invoice"} BY DEF Idle
    <3> HIDE DEF r
    <3> QED BY <2>2, <3>1, OnlyStarts
  <2>6. \A o \in Requests : requests'[o] = requests[o] \/ PayFits(requests'[o], invoices)
    BY <2>5 DEF Only, PayFits
  <2> QED BY <2>3, <2>4, <2>6, BillsOn
<1>5. ASSUME NEW j \in DOMAIN invoices, NEW amount \in Amounts, StartPay(q, j, amount)
      PROVE  InvoicesFit' /\ PaysFit'
  <2> DEFINE r == [Idle EXCEPT !.step = "pay", !.row = j, !.amount = amount]
             new == [r EXCEPT !.kind = "pay"]
  <2>1. new.row = j /\ new.amount = amount BY DEF Idle
  <2>2. /\ requests' = [requests EXCEPT ![q] = new] /\ invoices' = invoices
        /\ amount >= 0 /\ amount <= Unit * invoices[j].total
    BY <1>5 DEF StartPay, Start, tables
  <2> HIDE DEF r, new
  <2>3. PayFits(new, invoices) BY <2>1, <2>2 DEF PayFits
  <2>4. \A o \in Requests : requests'[o] = requests[o] \/ requests'[o] = new BY <1>1, <2>2
  <2>5. \A o \in Requests : requests'[o] = requests[o] \/ PayFits(requests'[o], invoices)
    BY <2>3, <2>4
  <2> QED BY <2>2, <2>5, BillsOn
<1>6. CASE StartTransaction(q)
  <2> DEFINE r == [Idle EXCEPT !.step = IF accounts = 0 THEN "account" ELSE "entry"]
             S == {"account", "entry"}
  <2>1. "step" \in DOMAIN r /\ r.step \in S BY DEF Idle
  <2>2. Start(q, "transaction", r) /\ invoices' = invoices BY <1>6 DEF StartTransaction, tables
  <2> HIDE DEF r, S
  <2>3. Only(S) BY <2>1, <2>2, OnlyStarts
  <2> QED BY <2>2, <2>3, BillsAside DEF Only, Steps, S
<1>7. CASE AddItem(q)
  <2> DEFINE old == invoices[i]
             next == Len(old.items) + 1
             item == Round(LineTotal(old.lines[next]))
             items == Append(old.items, item)
             new == [old EXCEPT !.items = items]
  <2>1. next <= Len(old.lines) /\ invoices' = [invoices EXCEPT ![i] = new] /\ requests' = requests
    BY <1>7 DEF AddItem
  <2>2. ASSUME i \in DOMAIN invoices PROVE new.total = old.total /\ InvoiceFits(new)
    <3>1. old \in Invoice /\ InvoiceFits(old) BY <1>1, <2>2
    <3>2. old.items \in Seq(Int) /\ old.lines \in Seq(Line) BY <3>1 DEF Invoice
    <3>3. next \in 1..Len(old.lines) /\ next \in Nat
      <4>1. Len(old.items) \in Nat /\ Len(old.lines) \in Nat BY <3>2
      <4> QED BY <2>1, <4>1
    <3>4. item \in Int
      <4>1. old.lines[next] \in Line
        <5> DEFINE s == old.lines  k == next
        <5>1. s \in Seq(Line) /\ k \in 1..Len(s) BY <3>2, <3>3
        <5> HIDE DEF s, k
        <5>2. s[k] \in Line BY <5>1
        <5> QED BY <5>2 DEF s, k
      <4>2. LineTotal(old.lines[next]) \in Int BY <4>1 DEF LineTotal, Line
      <4> QED BY <4>2, RoundTyped
    <3>5. \A k \in DOMAIN old.items : old.items[k] = Round(LineTotal(old.lines[k]))
      BY <3>1 DEF InvoiceFits
    <3>6. /\ Len(items) = next /\ items[next] = Round(LineTotal(old.lines[next]))
          /\ \A k \in DOMAIN items : k = next \/ (k \in DOMAIN old.items /\ items[k] = old.items[k])
      <4> DEFINE s == old.items
      <4>1. s \in Seq(Int) BY <3>2
      <4> HIDE DEF item, s
      <4>2. /\ Len(Append(s, item)) = Len(s) + 1 /\ Append(s, item)[Len(s) + 1] = item
            /\ \A k \in DOMAIN Append(s, item) :
                 k = Len(s) + 1 \/ (k \in DOMAIN s /\ Append(s, item)[k] = s[k])
        BY <3>4, <4>1, AppendElements
      <4> QED BY <4>2 DEF item, s
    <3> HIDE DEF items
    <3>7. /\ new.items = items /\ new.lines = old.lines /\ new.discount = old.discount
          /\ new.total = old.total /\ new.paid = old.paid /\ new.answered = old.answered
      BY <3>1 DEF Invoice
    <3> HIDE DEF new
    <3>8. /\ \E d \in Int : old.discount = Round(d) /\ old.total = Round(Total(LineTotals(old.lines)) - d)
          /\ old.paid = 0 \/ old.paid \in 1..old.total
          /\ old.answered => Len(old.items) = Len(old.lines)
      BY <3>1 DEF InvoiceFits
    <3>9. ~old.answered BY <2>1, <3>2, <3>8
    <3> HIDE DEF next
    <3>10. \A k \in DOMAIN new.items : new.items[k] = Round(LineTotal(new.lines[k]))
      BY <3>5, <3>6, <3>7
    <3> QED BY <2>1, <3>6, <3>7, <3>8, <3>9, <3>10 DEF InvoiceFits
  <2> HIDE DEF new
  <2> QED BY <1>3, <2>1, <2>2
<1>8. CASE AnswerInvoice(q)
  <2> DEFINE new == [invoices[i] EXCEPT !.answered = TRUE]
  <2>1. /\ invoices' = [invoices EXCEPT ![i] = new] /\ requests' = [requests EXCEPT ![q] = Idle]
        /\ Len(invoices[i].items) = Len(invoices[i].lines)
    BY <1>8 DEF AnswerInvoice, Ends, Goes
  <2>2. i \in DOMAIN invoices =>
          /\ new.items = invoices[i].items /\ new.lines = invoices[i].lines
          /\ new.discount = invoices[i].discount /\ new.total = invoices[i].total
          /\ new.paid = invoices[i].paid
    BY <1>1 DEF Invoice
  <2> HIDE DEF new
  <2>3. i \in DOMAIN invoices => InvoiceFits(new) BY <1>1, <2>1, <2>2 DEF InvoiceFits
  <2> QED BY <1>3, <2>1, <2>2, <2>3
<1>9. CASE FinishPay(q)
  <2> DEFINE paid == Round(requests[q].amount)
             new == [invoices[i] EXCEPT !.paid = paid]
  <2>1. /\ invoices' = [invoices EXCEPT ![i] = new] /\ requests' = [requests EXCEPT ![q] = Idle]
        /\ requests[q].step = "pay"
    BY <1>9 DEF FinishPay, At, Ends, Goes
  <2>2. i \in DOMAIN invoices /\ requests[q].amount >= 0 /\ requests[q].amount <= Unit * invoices[i].total
    BY <2>1 DEF PaysFit, PayFits
  <2>3. invoices[i] \in Invoice /\ InvoiceFits(invoices[i]) BY <1>1, <2>2
  <2>4. paid \in Int /\ paid >= 0 /\ paid <= invoices[i].total
    <3>1. requests[q].amount \in Int BY <1>1 DEF Request
    <3>2. invoices[i].total \in Int BY <2>3 DEF Invoice
    <3> DEFINE x == requests[q].amount  most == invoices[i].total
    <3>3. x \in Int /\ most \in Int /\ x >= 0 /\ x <= Unit * most BY <2>2, <3>1, <3>2
    <3>4. paid = Round(x) OBVIOUS
    <3> HIDE DEF x, most, paid
    <3>5. paid \in Nat /\ paid <= most BY <3>3, <3>4, RoundOff
    <3> QED BY <3>5 DEF most
  <2> HIDE DEF paid
  <2>5. /\ new.items = invoices[i].items /\ new.lines = invoices[i].lines
        /\ new.discount = invoices[i].discount /\ new.total = invoices[i].total
        /\ new.answered = invoices[i].answered /\ new.paid = paid
    BY <2>3 DEF Invoice
  <2> HIDE DEF new
  <2>6. new.total \in Int BY <2>3, <2>5 DEF Invoice
  <2>7. new.paid = 0 \/ new.paid \in 1..new.total BY <2>4, <2>5, <2>6
  <2>8. InvoiceFits(new) BY <2>3, <2>5, <2>7 DEF InvoiceFits
  <2> QED BY <1>3, <2>1, <2>5, <2>8
<1>10. CASE NewAccount(q)
  <2> DEFINE r == [requests[q] EXCEPT !.step = "entry"]
  <2>1. r.step \in {"entry"} BY <1>1 DEF Request
  <2>2. requests' = [requests EXCEPT ![q] = r] /\ invoices' = invoices BY <1>10 DEF NewAccount, Goes
  <2> HIDE DEF r
  <2>3. Only({"entry"}) BY <2>1, <2>2, OnlyGoes
  <2> QED BY <2>2, <2>3, BillsAside DEF Only, Steps
<1>11. CASE InsertTransaction(q)
  <2>1. requests' = [requests EXCEPT ![q] = Idle] /\ invoices' = invoices
    BY <1>11 DEF InsertTransaction, Ends, Goes
  <2>2. Only({"idle"}) BY <1>2, <2>1, OnlyGoes
  <2> QED BY <2>1, <2>2, BillsAside DEF Only, Steps
<1> QED BY <1>4, <1>5, <1>6, <1>7, <1>8, <1>9, <1>10, <1>11 DEF FinanceRequest, FinanceStep

LEMMA BillsInductive ==
  ASSUME Typing, InvoicesFit, PaysFit, [Next]_vars
  PROVE  InvoicesFit' /\ PaysFit'
<1>1. CASE CrmRequest \/ \E q \in Requests : CrmStep(q)
  <2>1. invoices' = invoices
    BY <1>1 DEF CrmRequest, CrmStep, List, Create, StartEdit, StartStatus, StartMove, Remove, FindDefault,
                NewDefault, EnsureStage, FinishList, InsertDeal, FinishEdit, FinishMove, tables, Ledger
  <2> QED BY <1>1, <2>1, CrmOnly, BillsAside DEF Only, CrmSteps, Steps
<1>2. ASSUME NEW q \in Requests, FinanceRequest(q) \/ FinanceStep(q) PROVE InvoicesFit' /\ PaysFit'
  BY <1>2, FinanceBills
<1>3. CASE ProjectRequest
  <2>1. invoices' = invoices
    BY <1>3 DEF ProjectRequest, CreateProject, StartSeed, Archive, Update, StartUpdate, tables
  <2> QED BY <1>3, <2>1, ProjectOnly, BillsAside DEF Only, ProjectSteps, Steps
<1>4. ASSUME NEW q \in Requests, ProjectStep(q) PROVE InvoicesFit' /\ PaysFit'
  <2>1. CASE FinishUpdate(q)
    <3>1. invoices' = invoices BY <2>1 DEF FinishUpdate
    <3> QED BY <1>4, <3>1, ProjectOnly, BillsAside DEF Only, ProjectSteps, Steps
  <2> QED BY <1>4, <2>1, SeedBills DEF ProjectStep
<1>5. CASE (\E q \in Requests : StatementFails(q)) \/ Crash
  <2>1. invoices' = invoices BY <1>5 DEF StatementFails, Crash, tables
  <2> QED BY <1>5, <2>1, FaultOnly, BillsAside DEF Only, Steps
<1>6. CASE UNCHANGED vars
  <2>1. invoices' = invoices /\ requests' = requests BY <1>6 DEF vars
  <2> QED BY <2>1, BillsAside DEF Only
<1> QED BY <1>1, <1>2, <1>3, <1>4, <1>5, <1>6 DEF Next

(* The items of an answered invoice add up to its total and discount but for half a *)
(* cent on each of these, and at most the total is paid, for amounts of any sign and *)
(* in any fractions of a cent, any interleaving and faults (finance.service.ts:      *)
(* createInvoice, updateInvoice).                                                    *)
THEOREM InvoicesAddUp == Spec => []InvoiceAddsUp
<1>1. Init => Typing /\ InvoicesFit /\ PaysFit BY TypingInitially, BillsInitially
<1>2. Typing /\ InvoicesFit /\ PaysFit /\ [Next]_vars => (Typing /\ InvoicesFit /\ PaysFit)'
  BY TypingInductive, BillsInductive
<1>3. ASSUME Typing, InvoicesFit PROVE InvoiceAddsUp
  <2>1. \A i \in DOMAIN invoices : invoices[i] \in Invoice /\ InvoiceFits(invoices[i])
    BY <1>3 DEF Typing, InvoicesFit
  <2> QED BY <2>1, FittingAddsUp DEF InvoiceAddsUp
<1> QED BY <1>1, <1>2, <1>3, PTL DEF Spec

=============================================================================
