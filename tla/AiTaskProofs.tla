---------------------------- MODULE AiTaskProofs ----------------------------
(***************************************************************************)
(* Proofs about AiTask with its agents' actions and approvals, for any     *)
(* number of tasks, requests, actions, reviewers and failures.             *)
(***************************************************************************)
EXTENDS AiTask, SequenceTheorems, TLAPS

USE DEF Modes, Keep, Verdicts, Kinds

-----------------------------------------------------------------------------
(* Sequences of records, one of which changes or is added. *)

LEMMA SeqExcept ==
  ASSUME NEW S, NEW s \in Seq(S), NEW i \in DOMAIN s, NEW e \in S
  PROVE  LET t == [s EXCEPT ![i] = e] IN
         /\ t \in Seq(S) /\ DOMAIN t = DOMAIN s /\ Len(t) = Len(s) /\ t[i] = e
         /\ \A j \in DOMAIN s : j # i => t[j] = s[j]
OBVIOUS

LEMMA SeqAppend ==
  ASSUME NEW S, NEW s \in Seq(S), NEW e \in S
  PROVE  LET t == Append(s, e)
             n == Len(s) + 1 IN
         /\ t \in Seq(S) /\ DOMAIN t = DOMAIN s \cup {n} /\ n \notin DOMAIN s
         /\ t[n] = e /\ n \in Nat
         /\ \A j \in DOMAIN s : t[j] = s[j]
OBVIOUS

(* All elements lose something: the process has ended. *)
LEMMA SeqMap ==
  ASSUME NEW S, NEW s \in Seq(S), NEW t, DOMAIN t = DOMAIN s, t = [i \in DOMAIN s |-> t[i]],
         \A i \in DOMAIN s : t[i] \in S
  PROVE  t \in Seq(S)
<1>1. DOMAIN s = 1..Len(s) /\ Len(s) \in Nat OBVIOUS
<1> QED BY <1>1

-----------------------------------------------------------------------------
(* The agents' actions *)

(* What an action in its later statements has created. *)
Staged ==
  \A c \in DOMAIN calls :
    ~Ended(c) /\ calls[c].stage \in {"notify", "audit"} =>
      \E x \in records :
        /\ x.action = Current(c)
        /\ calls[c].stage = "audit" /\ x.kind = "approval" => Current(c) \in notices

ActionsInv == ActionsType /\ ExecutedIsAudited /\ InvoiceIsWhole /\ Staged

(* The step to another stage of the same action. *)
LEMMA ReachKeepsCalls ==
  ASSUME calls \in Seq(Call), NEW c \in DOMAIN calls,
         NEW stage \in {"check", "items", "notify", "audit"}, Reach(c, stage)
  PROVE  /\ calls' \in Seq(Call) /\ DOMAIN calls' = DOMAIN calls
         /\ calls'[c].stage = stage
         /\ \A d \in DOMAIN calls : /\ calls'[d].todo = calls[d].todo
                                    /\ calls'[d].results = calls[d].results
                                    /\ d # c => calls'[d] = calls[d]
<1> DEFINE e == [calls[c] EXCEPT !.stage = stage]
<1>1. calls[c] \in Call OBVIOUS
<1>2. e \in Call /\ e.todo = calls[c].todo /\ e.results = calls[c].results /\ e.stage = stage
  BY <1>1 DEF Call
<1>3. calls' = [calls EXCEPT ![c] = e] BY DEF Reach
<1> HIDE DEF e
<1> QED BY <1>2, <1>3, SeqExcept

(* The end of an action: its result is added and the next begins. *)
LEMMA ResultKeepsCalls ==
  ASSUME calls \in Seq(Call), NEW c \in DOMAIN calls, ~Ended(c),
         NEW verdict \in {"proposed", "executed", "failed"}, Result(c, verdict)
  PROVE  /\ calls' \in Seq(Call) /\ DOMAIN calls' = DOMAIN calls
         /\ calls'[c].stage = "check"
         /\ calls'[c].results = Append(calls[c].results, verdict)
         /\ \A d \in DOMAIN calls : d # c => calls'[d] = calls[d]
<1> DEFINE e == [todo |-> Tail(calls[c].todo), stage |-> "check",
                 results |-> Append(calls[c].results, verdict)]
<1>1. calls[c] \in Call OBVIOUS
<1>2. calls[c].todo \in Seq(Kinds) /\ calls[c].todo # <<>>
      /\ calls[c].results \in Seq({"proposed", "executed", "failed"})
  BY <1>1 DEF Call, Ended
<1>3. Tail(calls[c].todo) \in Seq(Kinds) BY <1>2
<1>4. Append(calls[c].results, verdict) \in Seq({"proposed", "executed", "failed"}) BY <1>2
<1>5. e \in Call BY <1>3, <1>4 DEF Call
<1>6. calls' = [calls EXCEPT ![c] = e] BY DEF Result
<1> QED BY <1>5, <1>6, SeqExcept

(* What the steps of an action have in common: the tables grow, a new       *)
(* invoice has its items, a new audit row names something created, and the  *)
(* call reaches a stage or gets a result that the tables bear out.          *)
Grow ==
  /\ records \subseteq records' /\ records' \subseteq [action : Actions, kind : Kinds]
  /\ items \subseteq items' /\ items' \subseteq Actions
  /\ notices \subseteq notices' /\ notices' \subseteq Actions
  /\ logs \subseteq logs' /\ logs' \subseteq Actions
  /\ \A x \in records' : x \in records \/ (x.kind = "invoice" => x.action \in items')
  /\ \A l \in logs' : \/ l \in logs
                      \/ \E x \in records' :
                           x.action = l /\ (x.kind = "approval" => l \in notices')

LEMMA ResultStep ==
  ASSUME ActionsInv, Grow, NEW c \in DOMAIN calls, ~Ended(c),
         NEW verdict \in {"executed", "failed"}, Result(c, verdict),
         verdict = "executed" => Current(c) \in logs'
  PROVE  ActionsInv' /\ DOMAIN calls' = DOMAIN calls
<1>1. calls \in Seq(Call) BY DEF ActionsInv, ActionsType
<1>2. /\ calls' \in Seq(Call) /\ DOMAIN calls' = DOMAIN calls
      /\ calls'[c].stage = "check"
      /\ calls'[c].results = Append(calls[c].results, verdict)
      /\ \A d \in DOMAIN calls : d # c => calls'[d] = calls[d]
  BY <1>1, ResultKeepsCalls
<1>3. ActionsType' BY <1>2 DEF ActionsType, Grow
<1>4. ASSUME NEW d \in DOMAIN calls', NEW n \in DOMAIN calls'[d].results,
             calls'[d].results[n] = "executed"
      PROVE  <<d, n>> \in logs'
  <2>1. CASE d # c
    <3>1. <<d, n>> \in logs BY <1>2, <1>4, <2>1 DEF ActionsInv, ExecutedIsAudited
    <3> QED BY <3>1 DEF Grow
  <2>2. CASE d = c
    <3>0. calls[c] \in Call BY <1>1
    <3>1. calls[c].results \in Seq({"proposed", "executed", "failed"}) BY <3>0 DEF Call
    <3>2. CASE n = Len(calls[c].results) + 1
      <4>1. calls'[d].results[n] = verdict BY <1>2, <2>2, <3>1, <3>2
      <4> QED BY <1>4, <2>2, <3>2, <4>1 DEF Current
    <3>3. CASE n # Len(calls[c].results) + 1
      <4>1. n \in DOMAIN calls[c].results /\ calls'[d].results[n] = calls[c].results[n]
        BY <1>2, <2>2, <3>1, <3>3
      <4>2. <<c, n>> \in logs BY <4>1, <1>4 DEF ActionsInv, ExecutedIsAudited
      <4> QED BY <4>2, <2>2 DEF Grow
    <3> QED BY <3>2, <3>3
  <2> QED BY <2>1, <2>2
<1>5. \A l \in logs' : \E x \in records' :
        x.action = l /\ (x.kind = "approval" => l \in notices')
  BY DEF Grow, ActionsInv, ExecutedIsAudited
<1>6. InvoiceIsWhole' BY DEF Grow, ActionsInv, InvoiceIsWhole
<1>7. Staged'
  <2> SUFFICES ASSUME NEW d \in DOMAIN calls', ~Ended(d)',
                      calls'[d].stage \in {"notify", "audit"}
               PROVE  \E x \in records' :
                        /\ x.action = Current(d)'
                        /\ calls'[d].stage = "audit" /\ x.kind = "approval"
                             => Current(d)' \in notices'
    BY DEF Staged
  <2>1. d # c /\ d \in DOMAIN calls /\ calls'[d] = calls[d] BY <1>2
  <2>2. ~Ended(d) /\ Current(d)' = Current(d) BY <2>1 DEF Ended, Current
  <2>3. PICK x \in records : /\ x.action = Current(d)
                             /\ calls[d].stage = "audit" /\ x.kind = "approval"
                                  => Current(d) \in notices
    BY <2>1, <2>2 DEF ActionsInv, Staged
  <2>4. x \in records' BY DEF Grow
  <2> QED BY <2>1, <2>2, <2>3, <2>4 DEF Grow
<1>8. ExecutedIsAudited' BY <1>4, <1>5 DEF ExecutedIsAudited
<1> QED BY <1>2, <1>3, <1>6, <1>7, <1>8 DEF ActionsInv

LEMMA ReachStep ==
  ASSUME ActionsInv, Grow, NEW c \in DOMAIN calls,
         NEW stage \in {"items", "notify", "audit"}, Reach(c, stage),
         stage # "items" =>
           \E x \in records' : /\ x.action = Current(c)
                               /\ stage = "audit" /\ x.kind = "approval"
                                    => Current(c) \in notices'
  PROVE  ActionsInv' /\ DOMAIN calls' = DOMAIN calls
<1>1. calls \in Seq(Call) BY DEF ActionsInv, ActionsType
<1>2. /\ calls' \in Seq(Call) /\ DOMAIN calls' = DOMAIN calls
      /\ calls'[c].stage = stage
      /\ \A d \in DOMAIN calls : /\ calls'[d].todo = calls[d].todo
                                 /\ calls'[d].results = calls[d].results
                                 /\ d # c => calls'[d] = calls[d]
  BY <1>1, ReachKeepsCalls
<1>3. ActionsType' BY <1>2 DEF ActionsType, Grow
<1>4. ExecutedIsAudited'
  <2>1. ASSUME NEW d \in DOMAIN calls', NEW n \in DOMAIN calls'[d].results,
               calls'[d].results[n] = "executed"
        PROVE  <<d, n>> \in logs'
    <3>1. <<d, n>> \in logs BY <1>2, <2>1 DEF ActionsInv, ExecutedIsAudited
    <3> QED BY <3>1 DEF Grow
  <2>2. \A l \in logs' : \E x \in records' :
          x.action = l /\ (x.kind = "approval" => l \in notices')
    BY DEF Grow, ActionsInv, ExecutedIsAudited
  <2> QED BY <2>1, <2>2 DEF ExecutedIsAudited
<1>5. InvoiceIsWhole' BY DEF Grow, ActionsInv, InvoiceIsWhole
<1>6. Staged'
  <2> SUFFICES ASSUME NEW d \in DOMAIN calls', ~Ended(d)',
                      calls'[d].stage \in {"notify", "audit"}
               PROVE  \E x \in records' :
                        /\ x.action = Current(d)'
                        /\ calls'[d].stage = "audit" /\ x.kind = "approval"
                             => Current(d)' \in notices'
    BY DEF Staged
  <2>1. d \in DOMAIN calls /\ ~Ended(d) /\ Current(d)' = Current(d) BY <1>2 DEF Ended, Current
  <2>2. CASE d = c BY <1>2, <2>1, <2>2
  <2>3. CASE d # c
    <3>1. calls'[d].stage = calls[d].stage BY <1>2, <2>1, <2>3
    <3>2. PICK x \in records : /\ x.action = Current(d)
                               /\ calls[d].stage = "audit" /\ x.kind = "approval"
                                    => Current(d) \in notices
      BY <2>1, <3>1 DEF ActionsInv, Staged
    <3>3. x \in records' BY DEF Grow
    <3> QED BY <2>1, <3>1, <3>2, <3>3 DEF Grow
  <2> QED BY <2>2, <2>3
<1> QED BY <1>2, <1>3, <1>4, <1>5, <1>6 DEF ActionsInv

LEMMA TablesStay ==
  ASSUME ActionsInv, UNCHANGED tables
  PROVE  Grow
<1>1. /\ records' = records /\ items' = items /\ notices' = notices /\ logs' = logs
  BY DEF tables
<1>2. ActionsType BY DEF ActionsInv
<1>3. records \subseteq [action : Actions, kind : Kinds] /\ items \subseteq Actions
      /\ notices \subseteq Actions /\ logs \subseteq Actions
  BY <1>2 DEF ActionsType
<1> QED BY <1>1, <1>3 DEF Grow

(* Every step of an action keeps the invariant of the actions; it may add   *)
(* an approval that the agent asks for.                                     *)
LEMMA ActStep ==
  ASSUME ActionsInv, faults \in Nat, NEW c \in DOMAIN calls, Act(c)
  PROVE  /\ ActionsInv' /\ DOMAIN calls' = DOMAIN calls
         /\ approvals' = approvals \/ approvals' = Append(approvals, Row(Agent))
         /\ faults' \in Nat /\ faults' >= faults
<1>1. ActionsType BY DEF ActionsInv
<1>2. calls \in Seq(Call) /\ records \subseteq [action : Actions, kind : Kinds]
      /\ items \subseteq Actions /\ notices \subseteq Actions /\ logs \subseteq Actions
  BY <1>1 DEF ActionsType
<1>3. Current(c) \in Actions
  <2>1. calls[c] \in Call /\ c \in Nat BY <1>2
  <2>2. calls[c].results \in Seq({"proposed", "executed", "failed"}) BY <2>1 DEF Call
  <2>3. Len(calls[c].results) + 1 \in Nat BY <2>2
  <2> QED BY <2>1, <2>3 DEF Current, Actions
<1>4. ASSUME NEW k \in Kinds
      PROVE  [action |-> Current(c), kind |-> k] \in [action : Actions, kind : Kinds]
  BY <1>3, <1>4
<1>5. ~Ended(c)
  BY DEF Act, Refuse, CreateRecord, CreateInvoice, CommitInvoice, RequestApproval, Notify,
         AuditAction, At, AtKind
<1>6. CASE Refuse(c)
  <2>1. Result(c, "failed") /\ UNCHANGED tables /\ UNCHANGED <<approvals, faults>>
    BY <1>6 DEF Refuse
  <2> QED BY <2>1, <1>5, TablesStay, ResultStep
<1>7. CASE Throw(c)
  <2>1. Result(c, "failed") /\ UNCHANGED tables /\ UNCHANGED approvals /\ faults' = faults + 1
    BY <1>7 DEF Throw, Fault
  <2> QED BY <2>1, <1>5, TablesStay, ResultStep
<1>8. CASE CreateRecord(c) /\ ~Throw(c)
  <2>1. /\ Insert(c, "record") /\ Reach(c, "audit")
        /\ UNCHANGED <<items, notices, logs, approvals, faults>>
    BY <1>8 DEF CreateRecord
  <2>2. records' = records \cup {[action |-> Current(c), kind |-> "record"]}
    BY <2>1 DEF Insert
  <2>3. Grow BY <1>2, <1>4, <2>1, <2>2 DEF Grow
  <2> DEFINE x == [action |-> Current(c), kind |-> "record"]
  <2>4. x \in records' /\ x.action = Current(c) /\ x.kind # "approval" BY <2>2
  <2> QED BY <2>1, <2>3, <2>4, ReachStep
<1>9. CASE CreateInvoice(c) /\ ~Throw(c)
  <2>1. Reach(c, "items") /\ UNCHANGED tables /\ UNCHANGED <<approvals, faults>>
    BY <1>9 DEF CreateInvoice
  <2> QED BY <2>1, TablesStay, ReachStep
<1>10. CASE CommitInvoice(c) /\ ~Throw(c)
  <2>1. /\ Insert(c, "invoice") /\ items' = items \cup {Current(c)} /\ Reach(c, "audit")
        /\ UNCHANGED <<notices, logs, approvals, faults>>
    BY <1>10 DEF CommitInvoice
  <2>2. records' = records \cup {[action |-> Current(c), kind |-> "invoice"]}
    BY <2>1 DEF Insert
  <2>3. Grow BY <1>2, <1>3, <1>4, <2>1, <2>2 DEF Grow
  <2> DEFINE x == [action |-> Current(c), kind |-> "invoice"]
  <2>4. x \in records' /\ x.action = Current(c) /\ x.kind # "approval" BY <2>2
  <2> QED BY <2>1, <2>3, <2>4, ReachStep
<1>11. CASE RequestApproval(c) /\ ~Throw(c)
  <2>1. /\ Insert(c, "approval") /\ Reach(c, "notify")
        /\ approvals' = Append(approvals, Row(Agent))
        /\ UNCHANGED <<items, notices, logs, faults>>
    BY <1>11 DEF RequestApproval
  <2>2. records' = records \cup {[action |-> Current(c), kind |-> "approval"]}
    BY <2>1 DEF Insert
  <2>3. Grow BY <1>2, <1>4, <2>1, <2>2 DEF Grow
  <2> DEFINE x == [action |-> Current(c), kind |-> "approval"]
  <2>4. x \in records' /\ x.action = Current(c) BY <2>2
  <2> QED BY <2>1, <2>3, <2>4, ReachStep
<1>12. CASE Notify(c) /\ ~Throw(c)
  <2>1. /\ At(c, "notify") /\ notices' = notices \cup {Current(c)} /\ Reach(c, "audit")
        /\ UNCHANGED <<records, items, logs, approvals, faults>>
    BY <1>12 DEF Notify
  <2>2. Grow BY <1>2, <1>3, <2>1 DEF Grow
  <2>3. \E x \in records : x.action = Current(c) BY <1>5, <2>1 DEF ActionsInv, Staged, At
  <2> QED BY <2>1, <2>2, <2>3, ReachStep
<1>13. CASE AuditAction(c) /\ ~Throw(c)
  <2>1. /\ At(c, "audit") /\ logs' = logs \cup {Current(c)} /\ Result(c, "executed")
        /\ UNCHANGED <<records, items, notices, approvals, faults>>
    BY <1>13 DEF AuditAction
  <2>2. \E x \in records : /\ x.action = Current(c)
                           /\ x.kind = "approval" => Current(c) \in notices
    BY <1>5, <2>1 DEF ActionsInv, Staged, At
  <2>3. Grow BY <1>2, <1>3, <2>1, <2>2 DEF Grow
  <2> QED BY <2>1, <2>3, <1>5, ResultStep
<1> QED BY <1>6, <1>7, <1>8, <1>9, <1>10, <1>11, <1>12, <1>13 DEF Act

(* Calls that have ended take no further step. *)
LEMMA EndedStays ==
  ASSUME ActionsType, NEW c \in DOMAIN calls, Act(c), NEW d \in DOMAIN calls, Ended(d)
  PROVE  Ended(d)'
<1>1. ~Ended(c)
  BY DEF Act, Refuse, CreateRecord, CreateInvoice, CommitInvoice, RequestApproval, Notify,
         AuditAction, At, AtKind
<1>2. d # c BY <1>1
<1>3. calls \in Seq(Call) BY DEF ActionsType
<1>4. \/ \E stage \in {"items", "notify", "audit"} : Reach(c, stage)
      \/ \E verdict \in {"executed", "failed"} : Result(c, verdict)
  BY DEF Act, Refuse, CreateRecord, CreateInvoice, CommitInvoice, RequestApproval, Notify,
         AuditAction, Throw
<1>5. calls'[d] = calls[d] BY <1>1, <1>2, <1>3, <1>4, ReachKeepsCalls, ResultKeepsCalls
<1> QED BY <1>5 DEF Ended

LEMMA ActionsRest ==
  ASSUME ActionsInv, UNCHANGED <<calls, records, items, notices, logs>>
  PROVE  /\ ActionsInv' /\ DOMAIN calls \subseteq DOMAIN calls'
         /\ \A d \in DOMAIN calls : Ended(d) => Ended(d)'
BY DEF ActionsInv, ActionsType, ExecutedIsAudited, InvoiceIsWhole, Staged, Ended, Current

(* A new call has no result that claims a record. *)
LEMMA PerformStep ==
  ASSUME ActionsInv, UNCHANGED tables, NEW mode \in Modes, NEW requested \in Requested,
         Perform(mode, requested)
  PROVE  /\ ActionsInv'
         /\ DOMAIN calls' = DOMAIN calls \cup {Len(calls) + 1}
         /\ Len(calls) + 1 \notin DOMAIN calls /\ Len(calls) + 1 \in Nat
         /\ \A d \in DOMAIN calls : calls'[d] = calls[d]
<1>1. calls \in Seq(Call) BY DEF ActionsInv, ActionsType
<1>2. PICK n \in Nat : requested \in [1..n -> Kinds]
  BY ActionsAssumption DEF Requested, ActionsAssumption
<1>3. requested \in Seq(Kinds) BY <1>2
<1>4. PICK e \in Call : /\ calls' = Append(calls, e) /\ e.stage = "check"
                        /\ \A k \in DOMAIN e.results : e.results[k] # "executed"
  <2>1. CASE mode = "suggest"
    <3>1. PICK results \in [DOMAIN requested -> {"proposed", "failed"}] :
            calls' = Append(calls, [todo |-> <<>>, stage |-> "check", results |-> results])
      BY <2>1 DEF Perform, Preview
    <3> DEFINE e == [todo |-> <<>>, stage |-> "check", results |-> results]
    <3>2. results \in [1..Len(requested) -> {"proposed", "failed"}] /\ Len(requested) \in Nat
      BY <1>3, <3>1
    <3>3. results \in Seq({"proposed", "executed", "failed"}) BY <3>2
    <3>4. <<>> \in Seq(Kinds) OBVIOUS
    <3>5. e \in Call BY <3>3, <3>4 DEF Call
    <3>6. \A k \in DOMAIN e.results : e.results[k] # "executed" BY <3>1
    <3> QED BY <3>1, <3>5, <3>6
  <2>2. CASE mode # "suggest"
    <3> DEFINE e == [todo |-> requested, stage |-> "check", results |-> <<>>]
    <3>1. calls' = Append(calls, e) BY <2>2 DEF Perform, Begin
    <3>2. <<>> \in Seq({"proposed", "executed", "failed"}) /\ DOMAIN (<<>>) = {} OBVIOUS
    <3>3. e \in Call BY <1>3, <3>2 DEF Call
    <3>4. \A k \in DOMAIN e.results : e.results[k] # "executed" BY <3>2
    <3> QED BY <3>1, <3>3, <3>4
  <2> QED BY <2>1, <2>2
<1>5. /\ calls' \in Seq(Call) /\ DOMAIN calls' = DOMAIN calls \cup {Len(calls) + 1}
      /\ Len(calls) + 1 \notin DOMAIN calls /\ Len(calls) + 1 \in Nat
      /\ calls'[Len(calls) + 1] = e
      /\ \A d \in DOMAIN calls : calls'[d] = calls[d]
  BY <1>1, <1>4, SeqAppend
<1>6. records' = records /\ items' = items /\ notices' = notices /\ logs' = logs BY DEF tables
<1>7. ActionsType' BY <1>5, <1>6 DEF ActionsInv, ActionsType
<1>8. ExecutedIsAudited' BY <1>4, <1>5, <1>6 DEF ActionsInv, ExecutedIsAudited
<1>9. InvoiceIsWhole' BY <1>6 DEF ActionsInv, InvoiceIsWhole
<1>10. Staged'
  <2>1. ASSUME NEW d \in DOMAIN calls', calls'[d].stage # "check"
        PROVE  d \in DOMAIN calls /\ calls'[d] = calls[d]
    BY <1>4, <1>5, <2>1
  <2> QED BY <2>1, <1>6 DEF ActionsInv, Staged, Ended, Current
<1> QED BY <1>5, <1>7, <1>8, <1>9, <1>10 DEF ActionsInv

(* After the end of the process no call has anything left to do. *)
LEMMA LostStep ==
  ASSUME ActionsInv, UNCHANGED tables, CallsLost
  PROVE  ActionsInv' /\ DOMAIN calls' = DOMAIN calls /\ \A c \in DOMAIN calls : Ended(c)'
<1>1. calls \in Seq(Call) BY DEF ActionsInv, ActionsType
<1>2. DOMAIN calls' = DOMAIN calls /\ calls' = [c \in DOMAIN calls |-> calls'[c]]
      /\ \A c \in DOMAIN calls : calls'[c] = [calls[c] EXCEPT !.todo = <<>>]
  BY DEF CallsLost
<1>3. <<>> \in Seq(Kinds) OBVIOUS
<1>4. ASSUME NEW c \in DOMAIN calls
      PROVE  /\ calls'[c] \in Call /\ calls'[c].todo = <<>>
             /\ calls'[c].results = calls[c].results
  <2>1. calls[c] \in Call BY <1>1
  <2> QED BY <2>1, <1>2, <1>3 DEF Call
<1>5. calls' \in Seq(Call) BY <1>1, <1>2, <1>4, SeqMap
<1>6. records' = records /\ items' = items /\ notices' = notices /\ logs' = logs BY DEF tables
<1>7. ActionsType' BY <1>5, <1>6 DEF ActionsInv, ActionsType
<1>8. ExecutedIsAudited' BY <1>2, <1>4, <1>6 DEF ActionsInv, ExecutedIsAudited
<1>9. InvoiceIsWhole' BY <1>6 DEF ActionsInv, InvoiceIsWhole
<1>10. \A c \in DOMAIN calls : Ended(c)' BY <1>4 DEF Ended
<1>11. Staged' BY <1>2, <1>10 DEF Staged
<1> QED BY <1>2, <1>7, <1>8, <1>9, <1>10, <1>11 DEF ActionsInv

-----------------------------------------------------------------------------
(* Requests for tasks *)

Pcs == {"read", "update", "cancel", "requeue", "mark", "chat", "acting", "complete",
        "fail", "over"}
Early == {"read", "update", "requeue", "mark", "chat"}
ExecPcs == {"chat", "acting", "complete", "fail"}
WritePcs == ExecPcs \cup {"cancel", "requeue", "mark"}

(* Before the agents are asked there is no call, and what is about to be    *)
(* stored as the output has ended.                                          *)
CallsKnown ==
  \A q \in DOMAIN requests :
    /\ requests[q].pc \in Early => requests[q].call = 0
    /\ requests[q].pc = "complete" => Ended(requests[q].call)

TaskInv == TypeOK /\ ActionsInv /\ CallsKnown

(* Request q moves on; everything else in requests stays. *)
Moved(q, pc) ==
  /\ requests' \in Seq(RequestCall) /\ DOMAIN requests' = DOMAIN requests
  /\ requests'[q].pc = pc /\ requests'[q].task = requests[q].task
  /\ \A p \in DOMAIN requests : p # q => requests'[p] = requests[p]

LEMMA ElementMoves ==
  ASSUME requests \in Seq(RequestCall), NEW q \in DOMAIN requests, NEW e \in RequestCall,
         e.task = requests[q].task, requests' = [requests EXCEPT ![q] = e]
  PROVE  Moved(q, e.pc) /\ requests'[q] = e
BY SeqExcept DEF Moved

LEMMA AskMoves ==
  ASSUME requests \in Seq(RequestCall), NEW q \in DOMAIN requests, NEW c \in Nat,
         requests' = [requests EXCEPT ![q].pc = "acting", ![q].mode = Keep, ![q].call = c]
  PROVE  Moved(q, "acting") /\ requests'[q].call = c
<1> DEFINE e == [requests[q] EXCEPT !.pc = "acting", !.mode = Keep, !.call = c]
<1>1. requests[q] \in RequestCall OBVIOUS
<1>2. e \in RequestCall /\ e.pc = "acting" /\ e.task = requests[q].task /\ e.call = c
  BY <1>1 DEF RequestCall
<1>3. requests' = [requests EXCEPT ![q] = e] BY DEF e
<1> HIDE DEF e
<1> QED BY <1>2, <1>3, SeqExcept DEF Moved

LEMMA ProceedMoves ==
  ASSUME requests \in Seq(RequestCall), NEW q \in DOMAIN requests, NEW pc \in Pcs,
         Proceed(q, pc)
  PROVE  Moved(q, pc) /\ requests'[q].call = requests[q].call
<1> DEFINE e == [requests[q] EXCEPT !.pc = pc]
<1>1. requests[q] \in RequestCall OBVIOUS
<1>2. e \in RequestCall /\ e.pc = pc /\ e.task = requests[q].task /\ e.call = requests[q].call
  BY <1>1 DEF RequestCall, Pcs
<1>3. requests' = [requests EXCEPT ![q] = e] BY DEF Proceed
<1> HIDE DEF e
<1> QED BY <1>2, <1>3, SeqExcept DEF Moved

Marks(q, m) == requests' = [requests EXCEPT ![q].pc = "mark", ![q].mode = m]
LEMMA ReadMoves ==
  ASSUME requests \in Seq(RequestCall), NEW q \in DOMAIN requests, NEW m \in Modes,
         Marks(q, m)
  PROVE  Moved(q, "mark") /\ requests'[q].call = requests[q].call
<1> DEFINE e == [requests[q] EXCEPT !.pc = "mark", !.mode = m]
<1>1. requests[q] \in RequestCall OBVIOUS
<1>2. e \in RequestCall /\ e.pc = "mark" /\ e.task = requests[q].task
      /\ e.call = requests[q].call
  BY <1>1 DEF RequestCall
<1>3. requests' = [requests EXCEPT ![q] = e] BY DEF Marks
<1> HIDE DEF e
<1> QED BY <1>2, <1>3, SeqExcept DEF Moved

LEMMA ReturnMoves ==
  ASSUME requests \in Seq(RequestCall), NEW q \in DOMAIN requests, Return(q)
  PROVE  Moved(q, "over") /\ requests'[q].call = requests[q].call
<1> DEFINE e == [requests[q] EXCEPT !.pc = "over", !.mode = Keep, !.runNow = FALSE]
<1>1. requests[q] \in RequestCall OBVIOUS
<1>2. e \in RequestCall /\ e.pc = "over" /\ e.task = requests[q].task
      /\ e.call = requests[q].call
  BY <1>1 DEF RequestCall
<1>3. requests' = [requests EXCEPT ![q] = e] BY DEF Return
<1> HIDE DEF e
<1> QED BY <1>2, <1>3, SeqExcept DEF Moved

(* What a step of request q does, as far as the properties tell it apart. *)
Effect(q) ==
  LET t == requests[q].task IN
  /\ Moved(q, requests'[q].pc) /\ requests'[q].pc \in Pcs
  /\ requests'[q].call = requests[q].call \/ requests[q].pc \in Early
  /\ requests'[q].pc \in Early => requests[q].pc \in Early /\ requests'[q].call = requests[q].call
  /\ requests'[q].pc \in {"acting", "complete"} => requests'[q].call \in DOMAIN calls'
  /\ requests'[q].pc = "complete" => calls'[requests'[q].call].todo = <<>>
  /\ tasks' \in [Tasks -> TaskRow]
  /\ \A u \in Tasks : u # t => tasks'[u] = tasks[u]
  /\ tasks'[t].status = "running" =>
       \/ requests'[q].pc \in ExecPcs
       \/ requests[q].pc \notin ExecPcs /\ tasks[t].status = "running"
       \/ faults' > 0
  /\ tasks'[t].status = "completed" =>
       \/ tasks[t].status = "completed" /\ tasks'[t].output = tasks[t].output
       \/ /\ tasks'[t].output = requests'[q].call /\ requests'[q].call \in DOMAIN calls'
          /\ calls'[requests'[q].call].todo = <<>>
  /\ requests[q].pc \notin WritePcs =>
       /\ tasks'[t].status = tasks[t].status /\ tasks'[t].output = tasks[t].output
       /\ requests'[q].pc \in WritePcs => tasks[t].status # "completed"
  /\ ActionsInv' /\ DOMAIN calls \subseteq DOMAIN calls'
  /\ \A c \in DOMAIN calls : Ended(c) => Ended(c)'
  /\ UNCHANGED <<approvalVars, arrived, crashes>>
  /\ faults' \in Nat /\ faults' >= faults

(* The common case: neither a row nor the agents' actions are touched. *)
LEMMA StillEffect ==
  ASSUME TaskInv, NEW q \in DOMAIN requests, NEW pc \in Pcs, Moved(q, pc),
         requests'[q].call = requests[q].call,
         pc \in Early => requests[q].pc \in Early,
         pc \in {"acting", "complete"} =>
           requests[q].call \in DOMAIN calls /\ (pc = "complete" => Ended(requests[q].call)),
         pc \in WritePcs /\ requests[q].pc \notin WritePcs =>
           tasks[requests[q].task].status # "completed",
         pc \notin ExecPcs /\ requests[q].pc \in ExecPcs => faults' > 0,
         UNCHANGED tasks, Elsewhere, UNCHANGED faults \/ Fault
  PROVE  Effect(q)
<1>1. UNCHANGED <<calls, records, items, notices, logs>> /\ UNCHANGED <<approvalVars, arrived, crashes>>
  BY DEF Elsewhere, actionVars
<1>2. ActionsInv' /\ (\A c \in DOMAIN calls : Ended(c) => Ended(c)')
  BY <1>1 DEF TaskInv, ActionsInv, ActionsType, ExecutedIsAudited, InvoiceIsWhole, Staged, Ended,
             Current
<1>3. faults \in Nat /\ faults' \in Nat /\ faults' >= faults
  BY DEF TaskInv, TypeOK, ApprovalType, Fault
<1>4. tasks' \in [Tasks -> TaskRow] BY DEF TaskInv, TypeOK
<1>5. pc = "complete" => calls'[requests'[q].call].todo = <<>> BY <1>1 DEF Ended
<1>6. requests'[q].pc = pc BY DEF Moved
<1>7. requests[q].call = requests'[q].call /\ calls' = calls BY <1>1
<1> QED BY <1>1, <1>2, <1>3, <1>4, <1>5, <1>6, <1>7 DEF Effect

(* The same when q writes the status of its task. *)
LEMMA WriteEffect ==
  ASSUME TaskInv, NEW q \in DOMAIN requests, NEW pc \in Pcs, Moved(q, pc),
         requests'[q].call = requests[q].call,
         pc \in Early => requests[q].pc \in Early, pc \notin {"acting", "complete"},
         NEW status \in {"queued", "running", "failed", "cancelled"}, Write(q, status),
         requests[q].pc \in WritePcs, status = "running" => pc \in ExecPcs,
         Elsewhere, UNCHANGED faults
  PROVE  Effect(q)
<1> DEFINE t == requests[q].task
<1>1. UNCHANGED <<calls, records, items, notices, logs>> /\ UNCHANGED <<approvalVars, arrived, crashes>>
  BY DEF Elsewhere, actionVars
<1>2. ActionsInv' /\ (\A c \in DOMAIN calls : Ended(c) => Ended(c)')
  BY <1>1 DEF TaskInv, ActionsInv, ActionsType, ExecutedIsAudited, InvoiceIsWhole, Staged, Ended,
             Current
<1>3. faults \in Nat BY DEF TaskInv, TypeOK, ApprovalType
<1>4. tasks \in [Tasks -> TaskRow] /\ requests \in Seq(RequestCall) BY DEF TaskInv, TypeOK
<1>5. t \in Tasks
  <2>1. requests[q] \in RequestCall BY <1>4
  <2> QED BY <2>1 DEF RequestCall
<1>6. tasks' = [tasks EXCEPT ![t].status = status] BY DEF Write
<1>7. [tasks[t] EXCEPT !.status = status] \in TaskRow BY <1>4, <1>5 DEF TaskRow
<1>8. /\ tasks' \in [Tasks -> TaskRow] /\ \A u \in Tasks : u # t => tasks'[u] = tasks[u]
  BY <1>4, <1>5, <1>6, <1>7
<1>9. tasks'[t].status = status BY <1>4, <1>5, <1>6 DEF TaskRow
<1>10. requests'[q].pc = pc BY DEF Moved
<1> QED BY <1>1, <1>2, <1>3, <1>8, <1>9, <1>10 DEF Effect

LEMMA FinishUpdateEffect ==
  ASSUME TaskInv, NEW q \in DOMAIN requests, FinishUpdate(q)
  PROVE  Effect(q)
<1> DEFINE t == requests[q].task
           mode == IF requests[q].mode = Keep THEN tasks[t].mode ELSE requests[q].mode
<1>1. UNCHANGED <<calls, records, items, notices, logs>> /\ UNCHANGED <<approvalVars, arrived, crashes>>
      /\ UNCHANGED faults /\ requests[q].pc = "update"
  BY DEF FinishUpdate, Elsewhere, actionVars, Is
<1>2. ActionsInv' /\ (\A c \in DOMAIN calls : Ended(c) => Ended(c)')
  BY <1>1 DEF TaskInv, ActionsInv, ActionsType, ExecutedIsAudited, InvoiceIsWhole, Staged, Ended,
             Current
<1>3. faults \in Nat /\ tasks \in [Tasks -> TaskRow] /\ requests \in Seq(RequestCall)
  BY DEF TaskInv, TypeOK, ApprovalType
<1>4. requests[q] \in RequestCall BY <1>3
<1>5. t \in Tasks /\ requests[q].mode \in Modes \cup {Keep} BY <1>4 DEF RequestCall
<1>6. tasks[t] \in TaskRow BY <1>3, <1>5
<1>7. mode \in Modes BY <1>5, <1>6 DEF TaskRow
<1>8. [tasks[t] EXCEPT !.mode = mode] \in TaskRow BY <1>6, <1>7 DEF TaskRow
<1>9. tasks' = [tasks EXCEPT ![t].mode = mode] BY DEF FinishUpdate
<1> HIDE DEF mode
<1>10. /\ tasks' \in [Tasks -> TaskRow] /\ \A u \in Tasks : u # t => tasks'[u] = tasks[u]
       /\ tasks'[t] = [tasks[t] EXCEPT !.mode = mode]
  BY <1>3, <1>5, <1>8, <1>9
<1>11. tasks'[t].status = tasks[t].status /\ tasks'[t].output = tasks[t].output
  BY <1>6, <1>10 DEF TaskRow
<1>12. Moved(q, requests'[q].pc) /\ requests'[q].pc \in {"read", "over"}
       /\ requests'[q].call = requests[q].call
  <2>1. CASE requests[q].runNow
    <3>1. Proceed(q, "read") /\ "read" \in Pcs BY <2>1 DEF FinishUpdate, Pcs
    <3>2. Moved(q, "read") /\ requests'[q].call = requests[q].call BY <3>1, <1>3, ProceedMoves
    <3> QED BY <3>2 DEF Moved
  <2>2. CASE ~requests[q].runNow
    <3>1. Return(q) BY <2>2 DEF FinishUpdate
    <3>2. Moved(q, "over") /\ requests'[q].call = requests[q].call BY <3>1, <1>3, ReturnMoves
    <3> QED BY <3>2 DEF Moved
  <2> QED BY <2>1, <2>2
<1> QED BY <1>1, <1>2, <1>3, <1>10, <1>11, <1>12
     DEF Effect, Pcs, Early, ExecPcs, WritePcs

LEMMA ChatEffect ==
  ASSUME TaskInv, NEW q \in DOMAIN requests, Chat(q)
  PROVE  Effect(q)
<1>1. requests \in Seq(RequestCall) /\ requests[q].pc = "chat" /\ requests[q].call = 0
  BY DEF TaskInv, TypeOK, CallsKnown, Chat, Is, Early
<1>2. UNCHANGED tables /\ UNCHANGED tasks /\ UNCHANGED <<approvalVars, arrived, crashes>>
      /\ UNCHANGED faults
  BY DEF Chat
<1>3. CASE Proceed(q, "fail") /\ UNCHANGED calls
  <2>1. Moved(q, "fail") /\ requests'[q].call = requests[q].call
    BY <1>1, <1>3, ProceedMoves DEF Pcs
  <2>2. Elsewhere BY <1>2, <1>3 DEF Elsewhere, actionVars, tables
  <2> QED BY <1>1, <1>2, <2>1, <2>2, StillEffect DEF Pcs, Early, ExecPcs, WritePcs
<1>4. ASSUME NEW requested \in Requested, Perform(requests[q].mode, requested),
             requests' = [requests EXCEPT ![q].pc = "acting", ![q].mode = Keep,
                                          ![q].call = Len(calls) + 1]
      PROVE  Effect(q)
  <2>1. /\ ActionsInv' /\ DOMAIN calls' = DOMAIN calls \cup {Len(calls) + 1}
        /\ Len(calls) + 1 \in Nat /\ \A d \in DOMAIN calls : calls'[d] = calls[d]
    <3>1. CASE requests[q].mode \in Modes BY <1>2, <1>4, <3>1, PerformStep DEF TaskInv
    <3>2. CASE requests[q].mode \notin Modes
      <4>1. Perform("auto", requested) BY <1>4, <3>2 DEF Perform
      <4> QED BY <1>2, <4>1, PerformStep DEF TaskInv
    <3> QED BY <3>1, <3>2
  <2>4. Moved(q, "acting") /\ requests'[q].call = Len(calls) + 1
    BY <1>1, <1>4, <2>1, AskMoves
  <2>5. requests'[q].pc = "acting" BY <2>4 DEF Moved
  <2>6. \A d \in DOMAIN calls : Ended(d) => Ended(d)' BY <2>1 DEF Ended
  <2>7. faults \in Nat /\ tasks \in [Tasks -> TaskRow] BY DEF TaskInv, TypeOK, ApprovalType
  <2> QED BY <1>1, <1>2, <2>1, <2>4, <2>5, <2>6, <2>7 DEF Effect, Pcs, Early, ExecPcs, WritePcs
<1> QED BY <1>3, <1>4 DEF Chat

LEMMA CompleteEffect ==
  ASSUME TaskInv, NEW q \in DOMAIN requests, Complete(q)
  PROVE  Effect(q)
<1> DEFINE t == requests[q].task
<1>1. /\ requests \in Seq(RequestCall) /\ requests[q].pc = "complete" /\ Ended(requests[q].call)
      /\ requests[q].call \in DOMAIN calls /\ Elsewhere
  BY DEF TaskInv, TypeOK, CallsKnown, Complete, Is
<1>2. CASE Fault /\ Proceed(q, "fail") /\ UNCHANGED tasks
  <2>1. Moved(q, "fail") /\ requests'[q].call = requests[q].call
    BY <1>1, <1>2, ProceedMoves DEF Pcs
  <2> QED BY <1>1, <1>2, <2>1, StillEffect DEF Pcs, Early, ExecPcs, WritePcs
<1>3. CASE /\ tasks' = [tasks EXCEPT ![t].status = "completed",
                                     ![t].output = requests[q].call]
           /\ Return(q) /\ UNCHANGED faults
  <2>1. Moved(q, "over") /\ requests'[q].call = requests[q].call
    BY <1>1, <1>3, ReturnMoves
  <2>2. requests'[q].pc = "over" BY <2>1 DEF Moved
  <2>3. UNCHANGED <<calls, records, items, notices, logs>>
        /\ UNCHANGED <<approvalVars, arrived, crashes>>
    BY <1>1 DEF Elsewhere, actionVars
  <2>4. ActionsInv' /\ (\A c \in DOMAIN calls : Ended(c) => Ended(c)')
    BY <2>3 DEF TaskInv, ActionsInv, ActionsType, ExecutedIsAudited, InvoiceIsWhole, Staged,
               Ended, Current
  <2>5. faults \in Nat /\ tasks \in [Tasks -> TaskRow] BY DEF TaskInv, TypeOK, ApprovalType
  <2>6. requests[q] \in RequestCall BY <1>1
  <2>7. t \in Tasks /\ requests[q].call \in Nat BY <2>6 DEF RequestCall
  <2>8. tasks[t] \in TaskRow BY <2>5, <2>7
  <2>9. [tasks[t] EXCEPT !.status = "completed", !.output = requests[q].call] \in TaskRow
    BY <2>7, <2>8 DEF TaskRow
  <2>10. /\ tasks' \in [Tasks -> TaskRow] /\ \A u \in Tasks : u # t => tasks'[u] = tasks[u]
         /\ tasks'[t] = [tasks[t] EXCEPT !.status = "completed", !.output = requests[q].call]
    BY <1>3, <2>5, <2>7, <2>8, <2>9 DEF TaskRow
  <2>11. tasks'[t].status = "completed" /\ tasks'[t].output = requests[q].call
    BY <2>8, <2>10 DEF TaskRow
  <2>12. calls'[requests'[q].call].todo = <<>> BY <1>1, <2>1, <2>3 DEF Ended
  <2> QED BY <1>1, <1>3, <2>1, <2>2, <2>3, <2>4, <2>5, <2>10, <2>11, <2>12
         DEF Effect, Pcs, Early, ExecPcs, WritePcs
<1> QED BY <1>2, <1>3 DEF Complete

LEMMA RunEffect ==
  ASSUME TaskInv, NEW q \in DOMAIN requests, Run(q)
  PROVE  Effect(q)
<1>1. requests \in Seq(RequestCall) /\ faults \in Nat
  BY DEF TaskInv, TypeOK, ApprovalType
<1> USE DEF Pcs, Early, ExecPcs, WritePcs
<1>2. CASE Throws(q)
  <2>1. Return(q) /\ Fault /\ Elsewhere /\ UNCHANGED tasks
        /\ requests[q].pc \in {"read", "update", "cancel", "requeue", "mark"}
    BY <1>2 DEF Throws
  <2>2. Moved(q, "over") /\ requests'[q].call = requests[q].call BY <1>1, <2>1, ReturnMoves
  <2> QED BY <2>1, <2>2, StillEffect
<1>3. CASE FinishCancel(q)
  <2>1. Return(q) /\ Write(q, "cancelled") /\ Elsewhere /\ UNCHANGED faults
        /\ requests[q].pc = "cancel"
    BY <1>3 DEF FinishCancel, Is
  <2>2. Moved(q, "over") /\ requests'[q].call = requests[q].call BY <1>1, <2>1, ReturnMoves
  <2> QED BY <2>1, <2>2, WriteEffect
<1>4. CASE Requeue(q)
  <2>1. Proceed(q, "read") /\ Write(q, "queued") /\ Elsewhere /\ UNCHANGED faults
        /\ requests[q].pc = "requeue"
    BY <1>4 DEF Requeue, Is
  <2>2. Moved(q, "read") /\ requests'[q].call = requests[q].call BY <1>1, <2>1, ProceedMoves
  <2> QED BY <2>1, <2>2, WriteEffect
<1>5. CASE ReadTask(q)
  <2>1. requests[q].pc = "read" /\ Elsewhere /\ UNCHANGED <<tasks, faults>>
    BY <1>5 DEF ReadTask, Is
  <2>2. CASE Runnable(requests[q].task)
    <3> DEFINE mode == tasks[requests[q].task].mode
    <3>1. requests' = [requests EXCEPT ![q].pc = "mark", ![q].mode = mode]
      BY <1>5, <2>2 DEF ReadTask
    <3>2. requests[q] \in RequestCall BY <1>1
    <3>3. requests[q].task \in Tasks BY <3>2 DEF RequestCall
    <3>4. tasks[requests[q].task] \in TaskRow BY <3>3 DEF TaskInv, TypeOK
    <3>5. mode \in Modes BY <3>4 DEF TaskRow
    <3> HIDE DEF mode
    <3>7. Moved(q, "mark") /\ requests'[q].call = requests[q].call
      BY <1>1, <3>1, <3>5, ReadMoves DEF Marks
    <3> QED BY <2>1, <2>2, <3>7, StillEffect DEF Runnable
  <2>3. CASE ~Runnable(requests[q].task)
    <3>1. Return(q) BY <1>5, <2>3 DEF ReadTask
    <3>2. Moved(q, "over") /\ requests'[q].call = requests[q].call BY <1>1, <3>1, ReturnMoves
    <3> QED BY <2>1, <3>2, StillEffect
  <2> QED BY <2>2, <2>3
<1>6. CASE MarkRunning(q)
  <2>1. Proceed(q, "chat") /\ Write(q, "running") /\ Elsewhere /\ UNCHANGED faults
        /\ requests[q].pc = "mark"
    BY <1>6 DEF MarkRunning, Is
  <2>2. Moved(q, "chat") /\ requests'[q].call = requests[q].call BY <1>1, <2>1, ProceedMoves
  <2> QED BY <2>1, <2>2, WriteEffect
<1>7. CASE Answer(q)
  <2>1. requests[q].pc = "acting" /\ Ended(requests[q].call) /\ Elsewhere /\ UNCHANGED tasks
        /\ requests[q].call \in DOMAIN calls
    BY <1>7 DEF Answer, Is, TaskInv, TypeOK
  <2>2. CASE Proceed(q, "complete") /\ UNCHANGED faults
    <3>1. Moved(q, "complete") /\ requests'[q].call = requests[q].call
      BY <1>1, <2>2, ProceedMoves
    <3> QED BY <2>1, <2>2, <3>1, StillEffect
  <2>3. CASE Fault /\ Proceed(q, "fail")
    <3>1. Moved(q, "fail") /\ requests'[q].call = requests[q].call
      BY <1>1, <2>3, ProceedMoves
    <3> QED BY <2>1, <2>3, <3>1, StillEffect
  <2> QED BY <1>7, <2>2, <2>3 DEF Answer
<1>8. CASE Fail(q)
  <2>1. requests[q].pc = "fail" /\ Return(q) /\ Elsewhere BY <1>8 DEF Fail, Is
  <2>2. Moved(q, "over") /\ requests'[q].call = requests[q].call BY <1>1, <2>1, ReturnMoves
  <2>3. CASE Write(q, "failed") /\ UNCHANGED faults BY <2>1, <2>2, <2>3, WriteEffect
  <2>4. CASE Fault /\ UNCHANGED tasks
    <3>1. faults' > 0 BY <1>1, <2>4 DEF Fault
    <3> QED BY <2>1, <2>2, <2>4, <3>1, StillEffect
  <2> QED BY <1>8, <2>3, <2>4 DEF Fail
<1> QED BY <1>2, <1>3, <1>4, <1>5, <1>6, <1>7, <1>8, FinishUpdateEffect, ChatEffect,
          CompleteEffect DEF Run

-----------------------------------------------------------------------------
(* Approvals *)

StandsStep ==
  \A a \in DOMAIN approvals, v \in Verdicts, u \in Users : Stands(a, v, u) => Stands(a, v, u)'

(* What every step does to the approvals. *)
ApprovalEffect ==
  /\ ApprovalType' /\ DOMAIN approvals \subseteq DOMAIN approvals'
  /\ DecisionIsAudited => DecisionIsAudited'
  /\ StandsStep

(* A decided approval stays audited when the audit log and the reviews that *)
(* are about to write it only go on.                                        *)
AuditedAt(a) ==
  LET d == [approval |-> a, status |-> approvals[a].status, by |-> approvals[a].by] IN
  d \in decisions \/ \E r \in DOMAIN reviews : reviews[r].pc = "audit" /\ Decision(r) = d

AllAudited ==
  faults = 0 /\ crashes = 0 =>
    \A a \in DOMAIN approvals : approvals[a].status # "pending" => AuditedAt(a)

LEMMA AuditedUnfolds ==
  (DecisionIsAudited <=> AllAudited) /\ (DecisionIsAudited <=> AllAudited)'
BY Zenon DEF DecisionIsAudited, AllAudited, AuditedAt

LEMMA KeepsAudited ==
  ASSUME NEW a, AuditedAt(a), approvals'[a] = approvals[a], decisions \subseteq decisions',
         \A r \in DOMAIN reviews : reviews[r].pc = "audit" =>
           \/ Decision(r) \in decisions'
           \/ r \in DOMAIN reviews' /\ reviews'[r].pc = "audit" /\ Decision(r)' = Decision(r)
  PROVE  AuditedAt(a)'
<1> DEFINE d == [approval |-> a, status |-> approvals[a].status, by |-> approvals[a].by]
           late == [approval |-> a, status |-> approvals'[a].status, by |-> approvals'[a].by]
<1>1. late = d OBVIOUS
<1>2. d \in decisions \/ \E r \in DOMAIN reviews : reviews[r].pc = "audit" /\ Decision(r) = d
  BY DEF AuditedAt
<1>3. AuditedAt(a)' <=> \/ late \in decisions'
                        \/ \E r \in DOMAIN reviews' : reviews'[r].pc = "audit" /\ Decision(r)' = late
  BY DEF AuditedAt
<1> HIDE DEF d, late
<1> QED BY <1>1, <1>2, <1>3

LEMMA SameApprovals ==
  ASSUME ApprovalType, UNCHANGED <<approvals, reviews, decisions, crashes>>,
         arrived' \in Nat, faults' \in Nat, faults' >= faults
  PROVE  ApprovalEffect
<1>1. ApprovalType' BY DEF ApprovalType
<1>2. StandsStep BY DEF StandsStep, Stands, Deciding
<1>3. faults \in Nat BY DEF ApprovalType
<1>4. DecisionIsAudited => DecisionIsAudited' BY <1>3 DEF DecisionIsAudited, Decision
<1> QED BY <1>1, <1>2, <1>4 DEF ApprovalEffect

LEMMA NewApproval ==
  ASSUME ApprovalType, NEW u \in Users \cup {Agent}, approvals' = Append(approvals, Row(u)),
         UNCHANGED <<reviews, decisions, crashes>>,
         arrived' \in Nat, faults' \in Nat, faults' >= faults
  PROVE  ApprovalEffect
<1>1. approvals \in Seq(ApprovalRow) /\ faults \in Nat BY DEF ApprovalType
<1>2. Row(u) \in ApprovalRow /\ Row(u).status = "pending" BY DEF Row, ApprovalRow
<1> DEFINE n == Len(approvals) + 1
<1>3. /\ approvals' \in Seq(ApprovalRow) /\ DOMAIN approvals' = DOMAIN approvals \cup {n}
      /\ approvals'[n] = Row(u) /\ \A a \in DOMAIN approvals : approvals'[a] = approvals[a]
  BY <1>1, <1>2, SeqAppend
<1> HIDE DEF n
<1>4. ApprovalType' BY <1>3 DEF ApprovalType
<1>5. StandsStep BY <1>3 DEF StandsStep, Stands, Deciding
<1>6. DecisionIsAudited => DecisionIsAudited'
  <2>1. \A r \in DOMAIN reviews : Decision(r)' = Decision(r) BY DEF Decision
  <2>2. ASSUME NEW a \in DOMAIN approvals, AuditedAt(a) PROVE AuditedAt(a)'
    BY <1>3, <2>1, <2>2, KeepsAudited
  <2> QED BY <1>1, <1>2, <1>3, <2>2, AuditedUnfolds DEF AllAudited
<1> QED BY <1>3, <1>4, <1>5, <1>6 DEF ApprovalEffect

LEMMA StartReviewEffect ==
  ASSUME ApprovalType, NEW u \in Users, NEW a \in DOMAIN approvals, NEW v \in Verdicts,
         StartReview(u, a, v), UNCHANGED crashes
  PROVE  ApprovalEffect
<1>1. /\ reviews \in Seq(ReviewCall) /\ approvals \in Seq(ApprovalRow) /\ arrived' \in Nat
      /\ approvals' = approvals /\ decisions' = decisions /\ faults' = faults
      /\ approvals[a].status = "pending"
  BY DEF ApprovalType, StartReview, Arrive
<1> DEFINE e == [user |-> u, approval |-> a, verdict |-> v, pc |-> "decide"]
           n == Len(reviews) + 1
<1>2. a \in Nat BY <1>1
<1>3. e \in ReviewCall /\ e.approval = a BY <1>2 DEF ReviewCall
<1>4. reviews' = Append(reviews, e) BY DEF StartReview
<1> HIDE DEF e
<1>5. /\ reviews' \in Seq(ReviewCall) /\ DOMAIN reviews' = DOMAIN reviews \cup {n}
      /\ reviews'[n] = e /\ \A r \in DOMAIN reviews : reviews'[r] = reviews[r]
  BY <1>1, <1>3, <1>4, SeqAppend
<1> HIDE DEF n
<1>6. ApprovalType' BY <1>1, <1>3, <1>5 DEF ApprovalType
<1>7. StandsStep
  <2> SUFFICES ASSUME NEW b \in DOMAIN approvals, NEW w \in Verdicts, NEW x \in Users,
                      Stands(b, w, x)
               PROVE  Stands(b, w, x)'
    BY DEF StandsStep
  <2>1. b # a BY <1>1 DEF Stands
  <2>2. Deciding(b)' = {} BY <1>3, <1>5, <2>1 DEF Deciding, Stands
  <2> QED BY <1>1, <2>2 DEF Stands
<1>8. DecisionIsAudited => DecisionIsAudited'
  <2>1. \A r \in DOMAIN reviews : r \in DOMAIN reviews' /\ reviews'[r] = reviews[r] BY <1>5
  <2>2. \A r \in DOMAIN reviews : Decision(r)' = Decision(r) BY <2>1 DEF Decision
  <2>3. ASSUME NEW b, AuditedAt(b) PROVE AuditedAt(b)' BY <1>1, <2>1, <2>2, <2>3, KeepsAudited
  <2> QED BY <1>1, <2>3, AuditedUnfolds DEF AllAudited
<1> QED BY <1>1, <1>5, <1>6, <1>7, <1>8 DEF ApprovalEffect

(* A call of review() goes on. *)
LEMMA GoesMoves ==
  ASSUME reviews \in Seq(ReviewCall), NEW r \in DOMAIN reviews, NEW pc \in {"audit", "over"},
         Goes(r, pc)
  PROVE  /\ reviews' \in Seq(ReviewCall) /\ DOMAIN reviews' = DOMAIN reviews
         /\ reviews'[r].pc = pc /\ Decision(r)' = Decision(r)
         /\ reviews'[r].approval = reviews[r].approval
         /\ \A s \in DOMAIN reviews : s # r => reviews'[s] = reviews[s]
<1> DEFINE e == [reviews[r] EXCEPT !.pc = pc]
<1>1. reviews[r] \in ReviewCall OBVIOUS
<1>2. /\ e \in ReviewCall /\ e.pc = pc /\ e.approval = reviews[r].approval
      /\ e.user = reviews[r].user /\ e.verdict = reviews[r].verdict
  BY <1>1 DEF ReviewCall
<1>3. reviews' = [reviews EXCEPT ![r] = e] BY DEF Goes
<1> HIDE DEF e
<1> QED BY <1>2, <1>3, SeqExcept DEF Decision

LEMMA DecideEffect ==
  ASSUME ApprovalType, NEW r \in DOMAIN reviews, Decide(r), UNCHANGED <<arrived, crashes>>
  PROVE  ApprovalEffect
<1>1. /\ reviews \in Seq(ReviewCall) /\ approvals \in Seq(ApprovalRow) /\ arrived' \in Nat
      /\ decisions' = decisions /\ reviews[r].pc = "decide" /\ faults \in Nat
      /\ reviews[r].approval \in DOMAIN approvals
  BY DEF ApprovalType, Decide
<1> DEFINE b == reviews[r].approval
           e == [approvals[b] EXCEPT !.status = reviews[r].verdict, !.by = reviews[r].user]
<1>2. /\ reviews' \in Seq(ReviewCall) /\ DOMAIN reviews' = DOMAIN reviews
      /\ Decision(r)' = Decision(r) /\ reviews'[r].approval = b
      /\ \A s \in DOMAIN reviews : s # r => reviews'[s] = reviews[s]
      /\ reviews'[r].pc \in {"audit", "over"}
  BY <1>1, GoesMoves DEF Decide
<1>3. \A s \in DOMAIN reviews : Decision(s)' = Decision(s) BY <1>2 DEF Decision
<1>4. \A a : ~(r \in Deciding(a)) => Deciding(a)' \subseteq Deciding(a)
  BY <1>1, <1>2 DEF Deciding
<1>5. CASE Fault /\ Goes(r, "over") /\ UNCHANGED approvals
  <2>1. faults' \in Nat /\ faults' > 0 BY <1>1, <1>5 DEF Fault
  <2>2. ApprovalType' BY <1>1, <1>2, <1>5, <2>1 DEF ApprovalType
  <2>3. DecisionIsAudited' BY <2>1 DEF DecisionIsAudited
  <2>4. StandsStep
    <3>1. ASSUME NEW a \in DOMAIN approvals, Deciding(a) = {} PROVE Deciding(a)' = {}
      BY <1>4, <3>1
    <3> QED BY <1>5, <3>1 DEF StandsStep, Stands
  <2> QED BY <1>5, <2>2, <2>3, <2>4 DEF ApprovalEffect
<1>6. CASE /\ approvals' = [approvals EXCEPT ![b].status = reviews[r].verdict,
                                             ![b].by = reviews[r].user]
           /\ Goes(r, "audit") /\ UNCHANGED faults
  <2>1. approvals' = [approvals EXCEPT ![b] = e] BY <1>6
  <2>2. reviews[r] \in ReviewCall /\ approvals[b] \in ApprovalRow BY <1>1
  <2>3. e \in ApprovalRow /\ e.status = reviews[r].verdict /\ e.by = reviews[r].user
    BY <2>2 DEF ApprovalRow, ReviewCall
  <2> HIDE DEF e
  <2>4. /\ approvals' \in Seq(ApprovalRow) /\ DOMAIN approvals' = DOMAIN approvals
        /\ approvals'[b] = e /\ \A a \in DOMAIN approvals : a # b => approvals'[a] = approvals[a]
    BY <1>1, <2>1, <2>3, SeqExcept
  <2>5. ApprovalType' BY <1>1, <1>2, <1>6, <2>4 DEF ApprovalType
  <2>6. reviews'[r].pc = "audit" BY <1>1, <1>6, GoesMoves
  <2>7. AuditedAt(b)'
    <3>1. Decision(r) = [approval |-> b, status |-> e.status, by |-> e.by]
      BY <2>3 DEF Decision
    <3> QED BY <1>2, <2>4, <2>6, <3>1 DEF AuditedAt
  <2>8. DecisionIsAudited => DecisionIsAudited'
    <3>1. ASSUME NEW a \in DOMAIN approvals, a # b, AuditedAt(a) PROVE AuditedAt(a)'
      <4>1. approvals'[a] = approvals[a] BY <2>4, <3>1
      <4>2. \A s \in DOMAIN reviews : reviews[s].pc = "audit" =>
              s \in DOMAIN reviews' /\ reviews'[s].pc = "audit" /\ Decision(s)' = Decision(s)
        BY <1>1, <1>2, <1>3
      <4> QED BY <1>1, <3>1, <4>1, <4>2, KeepsAudited
    <3>2. faults' = faults /\ crashes' = crashes BY <1>6
    <3>3. AllAudited => AllAudited' BY <1>2, <2>4, <2>7, <3>1, <3>2 DEF AllAudited
    <3> QED BY <3>3, AuditedUnfolds
  <2>9. StandsStep
    <3> SUFFICES ASSUME NEW a \in DOMAIN approvals, NEW v \in Verdicts, NEW u \in Users,
                        Stands(a, v, u)
                 PROVE  Stands(a, v, u)'
      BY DEF StandsStep
    <3>1. a # b BY <1>1 DEF Stands, Deciding
    <3>2. Deciding(a)' = {}
      <4>1. Deciding(a) = {} BY DEF Stands
      <4> QED BY <1>4, <4>1
    <3>3. approvals'[a] = approvals[a] /\ a \in DOMAIN approvals' BY <2>4, <3>1
    <3> QED BY <3>2, <3>3 DEF Stands
  <2> QED BY <2>4, <2>5, <2>8, <2>9 DEF ApprovalEffect
<1> QED BY <1>5, <1>6 DEF Decide

LEMMA AuditDecisionEffect ==
  ASSUME ApprovalType, NEW r \in DOMAIN reviews, AuditDecision(r),
         UNCHANGED <<arrived, crashes>>
  PROVE  ApprovalEffect
<1>1. /\ reviews \in Seq(ReviewCall) /\ approvals' = approvals /\ faults \in Nat
      /\ reviews[r].pc = "audit" /\ Goes(r, "over") /\ decisions \subseteq decisions'
      /\ reviews[r].approval \in DOMAIN approvals
  BY DEF ApprovalType, AuditDecision
<1>2. /\ reviews' \in Seq(ReviewCall) /\ DOMAIN reviews' = DOMAIN reviews
      /\ Decision(r)' = Decision(r) /\ reviews'[r].approval = reviews[r].approval
      /\ reviews'[r].pc = "over"
      /\ \A s \in DOMAIN reviews : s # r => reviews'[s] = reviews[s]
  BY <1>1, GoesMoves
<1>3. \A s \in DOMAIN reviews : Decision(s)' = Decision(s) BY <1>2 DEF Decision
<1>4. reviews[r] \in ReviewCall /\ r \in Nat BY <1>1
<1>5. Decision(r) \in [approval : Nat, status : Verdicts, by : Users]
  BY <1>4 DEF Decision, ReviewCall
<1>6. faults' \in Nat /\ (faults' = faults \/ faults' > 0) BY <1>1 DEF AuditDecision, Fault
<1>7. ApprovalType' BY <1>1, <1>2, <1>5, <1>6 DEF ApprovalType, AuditDecision
<1>8. \A a : Deciding(a)' \subseteq Deciding(a) BY <1>2 DEF Deciding
<1>9. StandsStep BY <1>1, <1>8 DEF StandsStep, Stands
<1>10. CASE UNCHANGED faults /\ decisions' = decisions \cup {Decision(r)}
  <2>1. ASSUME NEW a, AuditedAt(a) PROVE AuditedAt(a)'
    BY <1>1, <1>2, <1>3, <1>10, <2>1, KeepsAudited
  <2>2. DecisionIsAudited => DecisionIsAudited'
    BY <1>1, <1>10, <2>1, AuditedUnfolds DEF AllAudited
  <2> QED BY <1>1, <1>7, <1>9, <2>2 DEF ApprovalEffect
<1>11. CASE Fault
  <2>1. DecisionIsAudited' BY <1>1, <1>11 DEF DecisionIsAudited, Fault
  <2> QED BY <1>1, <1>7, <1>9, <2>1 DEF ApprovalEffect
<1> QED BY <1>10, <1>11 DEF AuditDecision

LEMMA LostReviewsEffect ==
  ASSUME ApprovalType, ReviewsLost, crashes' = crashes + 1,
         UNCHANGED <<approvals, decisions, arrived, faults>>
  PROVE  ApprovalEffect
<1>1. reviews \in Seq(ReviewCall) /\ crashes \in Nat BY DEF ApprovalType
<1>2. /\ DOMAIN reviews' = DOMAIN reviews /\ reviews' = [r \in DOMAIN reviews |-> reviews'[r]]
      /\ \A r \in DOMAIN reviews : reviews'[r] = [reviews[r] EXCEPT !.pc = "over"]
  BY DEF ReviewsLost
<1>3. ASSUME NEW r \in DOMAIN reviews
      PROVE  /\ reviews'[r] \in ReviewCall /\ reviews'[r].pc = "over"
             /\ reviews'[r].approval = reviews[r].approval
  <2>1. reviews[r] \in ReviewCall BY <1>1
  <2> QED BY <1>2, <2>1 DEF ReviewCall
<1>4. reviews' \in Seq(ReviewCall) BY <1>1, <1>2, <1>3, SeqMap
<1>5. ApprovalType' BY <1>1, <1>2, <1>3, <1>4 DEF ApprovalType
<1>6. \A a : Deciding(a)' = {} BY <1>2, <1>3 DEF Deciding
<1>7. StandsStep BY <1>6 DEF StandsStep, Stands
<1>8. DecisionIsAudited' BY <1>1 DEF DecisionIsAudited
<1> QED BY <1>5, <1>7, <1>8 DEF ApprovalEffect

-----------------------------------------------------------------------------
(* What every step does to the tasks, their requests and the agents' actions. *)

CompletionStep ==
  \A t \in Tasks, c \in DOMAIN calls : Completed(t, c) => Completed(t, c)'

RequestsType ==
  /\ tasks \in [Tasks -> TaskRow] /\ requests \in Seq(RequestCall)
  /\ \A q \in DOMAIN requests :
       Is(q, "acting") \/ Is(q, "complete") => requests[q].call \in DOMAIN calls

TaskEffect ==
  /\ RequestsType' /\ ActionsInv' /\ CallsKnown'
  /\ RunningIsExecuted => RunningIsExecuted'
  /\ OutputIsFinal => OutputIsFinal'
  /\ CompletionStep

(* Tasks and requests rest while the agents' calls go on. *)
LEMMA RestEffect ==
  ASSUME TaskInv, UNCHANGED <<tasks, requests, crashes>>, ActionsInv',
         DOMAIN calls \subseteq DOMAIN calls', \A c \in DOMAIN calls : Ended(c) => Ended(c)',
         faults' \in Nat, faults' >= faults
  PROVE  TaskEffect
<1>1. faults \in Nat /\ RequestsType BY DEF TaskInv, TypeOK, ApprovalType, RequestsType
<1>2. RequestsType' BY <1>1 DEF RequestsType, Is
<1>3. CallsKnown' BY <1>1 DEF TaskInv, CallsKnown, RequestsType, Is
<1>4. RunningIsExecuted => RunningIsExecuted' BY <1>1 DEF RunningIsExecuted, Executing
<1>5. OutputIsFinal => OutputIsFinal' BY DEF OutputIsFinal
<1>6. CompletionStep BY DEF CompletionStep, Completed, Writing, Executing
<1> QED BY <1>2, <1>3, <1>4, <1>5, <1>6 DEF TaskEffect

(* A request arrives and is the last. *)
LEMMA AcceptAppends ==
  ASSUME requests \in Seq(RequestCall), arrived \in Nat, NEW t \in Tasks, NEW pc \in Pcs,
         NEW mode \in Modes \cup {Keep}, NEW runNow \in BOOLEAN, Accept(t, pc, mode, runNow)
  PROVE  LET n == Len(requests) + 1 IN
         /\ requests' \in Seq(RequestCall) /\ DOMAIN requests' = DOMAIN requests \cup {n}
         /\ n \notin DOMAIN requests
         /\ \A p \in DOMAIN requests : requests'[p] = requests[p]
         /\ requests'[n].task = t /\ requests'[n].pc = pc /\ requests'[n].call = 0
         /\ arrived' \in Nat
<1> DEFINE e == [task |-> t, pc |-> pc, mode |-> mode, runNow |-> runNow, call |-> 0]
<1>1. e \in RequestCall /\ e.task = t /\ e.pc = pc /\ e.call = 0 BY DEF RequestCall, Pcs
<1>2. requests' = Append(requests, e) /\ arrived' \in Nat BY DEF Accept, Arrive
<1> HIDE DEF e
<1> QED BY <1>1, <1>2, SeqAppend

LEMMA ClientAppends ==
  ASSUME TaskInv, NEW t \in Tasks, Client(t)
  PROVE  LET n == Len(requests) + 1 IN
         /\ requests' \in Seq(RequestCall) /\ DOMAIN requests' = DOMAIN requests \cup {n}
         /\ n \notin DOMAIN requests
         /\ \A p \in DOMAIN requests : requests'[p] = requests[p]
         /\ requests'[n].task = t /\ requests'[n].call = 0
         /\ requests'[n].pc \in {"over", "read", "update", "mark", "cancel", "requeue"}
         /\ requests'[n].pc \in WritePcs => tasks[t].status # "completed"
         /\ tasks' \in [Tasks -> TaskRow]
         /\ \A u \in Tasks : \/ tasks'[u] = tasks[u]
                             \/ tasks[u].status = "none" /\ tasks'[u].status = "queued"
         /\ arrived' \in Nat
<1>1. requests \in Seq(RequestCall) /\ arrived \in Nat /\ tasks \in [Tasks -> TaskRow]
  BY DEF TaskInv, TypeOK, ApprovalType
<1>2. tasks[t].mode \in Modes
  <2>1. tasks[t] \in TaskRow BY <1>1
  <2> QED BY <2>1 DEF TaskRow
<1> USE DEF Pcs, WritePcs, ExecPcs
<1>3. ASSUME NEW mode \in Modes, NEW runNow \in BOOLEAN, CreateTask(t, mode, runNow)
      PROVE  /\ tasks' \in [Tasks -> TaskRow] /\ tasks[t].status = "none"
             /\ tasks'[t].status = "queued" /\ \A u \in Tasks : u # t => tasks'[u] = tasks[u]
             /\ \E pc \in {"over", "read"} : Accept(t, pc, Keep, FALSE)
  <2>1. [status |-> "queued", mode |-> mode, output |-> 0] \in TaskRow BY DEF TaskRow
  <2> QED BY <1>1, <1>3, <2>1 DEF CreateTask, Exists
<1>4. CASE \E mode \in Modes, runNow \in BOOLEAN : CreateTask(t, mode, runNow)
  <2>1. /\ tasks' \in [Tasks -> TaskRow] /\ tasks[t].status = "none"
        /\ tasks'[t].status = "queued" /\ \A u \in Tasks : u # t => tasks'[u] = tasks[u]
    BY <1>3, <1>4
  <2>2. PICK pc \in {"over", "read"} : Accept(t, pc, Keep, FALSE) BY <1>3, <1>4
  <2> QED BY <1>1, <2>1, <2>2, AcceptAppends
<1>5. CASE \E mode \in Modes \cup {Keep}, runNow \in BOOLEAN : StartUpdate(t, mode, runNow)
  <2>1. PICK mode \in Modes \cup {Keep}, runNow \in BOOLEAN : StartUpdate(t, mode, runNow)
    BY <1>5
  <2>2. UNCHANGED tasks /\ \E m \in Modes \cup {Keep} : Accept(t, "update", m, runNow)
    BY <2>1 DEF StartUpdate
  <2>3. PICK m \in Modes \cup {Keep} : Accept(t, "update", m, runNow) BY <2>2
  <2>4. runNow \in BOOLEAN /\ UNCHANGED tasks BY <2>1, <2>2
  <2> DEFINE n == Len(requests) + 1
  <2>5. /\ requests' \in Seq(RequestCall) /\ DOMAIN requests' = DOMAIN requests \cup {n}
        /\ n \notin DOMAIN requests
        /\ \A p \in DOMAIN requests : requests'[p] = requests[p]
        /\ requests'[n].task = t /\ requests'[n].pc = "update" /\ requests'[n].call = 0
        /\ arrived' \in Nat
    BY <1>1, <2>3, <2>4, AcceptAppends
  <2> QED BY <1>1, <2>4, <2>5
<1>6. CASE StartRun(t)
  <2>1. Accept(t, "mark", tasks[t].mode, FALSE) /\ UNCHANGED tasks
        /\ tasks[t].status # "completed"
    BY <1>6 DEF StartRun, Runnable
  <2> QED BY <1>1, <1>2, <2>1, AcceptAppends
<1>7. CASE StartCancel(t)
  <2>1. Accept(t, "cancel", Keep, FALSE) /\ UNCHANGED tasks /\ tasks[t].status # "completed"
    BY <1>7 DEF StartCancel
  <2> QED BY <1>1, <2>1, AcceptAppends
<1>8. CASE StartRetry(t)
  <2>1. Accept(t, "requeue", Keep, FALSE) /\ UNCHANGED tasks /\ tasks[t].status # "completed"
    BY <1>8 DEF StartRetry
  <2> QED BY <1>1, <2>1, AcceptAppends
<1> QED BY <1>4, <1>5, <1>6, <1>7, <1>8 DEF Client

LEMMA ClientEffect ==
  ASSUME TaskInv, NEW t \in Tasks, Client(t), UNCHANGED <<actionVars, faults, crashes>>
  PROVE  TaskEffect
<1> DEFINE n == Len(requests) + 1
<1>1. /\ requests' \in Seq(RequestCall) /\ DOMAIN requests' = DOMAIN requests \cup {n}
      /\ n \notin DOMAIN requests
      /\ \A p \in DOMAIN requests : requests'[p] = requests[p]
      /\ requests'[n].task = t /\ requests'[n].call = 0
      /\ requests'[n].pc \in {"over", "read", "update", "mark", "cancel", "requeue"}
      /\ requests'[n].pc \in WritePcs => tasks[t].status # "completed"
      /\ tasks' \in [Tasks -> TaskRow]
      /\ \A u \in Tasks : \/ tasks'[u] = tasks[u]
                          \/ tasks[u].status = "none" /\ tasks'[u].status = "queued"
  BY ClientAppends
<1> HIDE DEF n
<1>2. /\ calls' = calls /\ records' = records /\ items' = items /\ notices' = notices
      /\ logs' = logs /\ faults' = faults /\ crashes' = crashes
  BY DEF actionVars
<1>3. ActionsInv'
  BY <1>2 DEF TaskInv, ActionsInv, ActionsType, ExecutedIsAudited, InvoiceIsWhole, Staged, Ended,
             Current
<1>4. RequestsType'
  <2>1. RequestsType BY DEF TaskInv, TypeOK, RequestsType
  <2> QED BY <1>1, <1>2, <2>1 DEF RequestsType, Is
<1>5. CallsKnown' BY <1>1, <1>2 DEF TaskInv, CallsKnown, Ended
<1>6. RunningIsExecuted => RunningIsExecuted'
  <2> SUFFICES ASSUME RunningIsExecuted, faults = 0, crashes = 0, NEW u \in Tasks,
                      tasks'[u].status = "running"
               PROVE  Executing(u)' # {}
    BY <1>2 DEF RunningIsExecuted
  <2>1. tasks[u].status = "running" BY <1>1
  <2>2. PICK p \in Executing(u) : TRUE BY <2>1 DEF RunningIsExecuted
  <2>3. p \in Executing(u)' BY <1>1, <2>2 DEF Executing
  <2> QED BY <2>3
<1>7. OutputIsFinal => OutputIsFinal'
  <2> SUFFICES ASSUME OutputIsFinal, NEW u \in Tasks, tasks'[u].status = "completed"
               PROVE  \E q \in DOMAIN requests' :
                        /\ requests'[q].task = u /\ requests'[q].call = tasks'[u].output
                        /\ tasks'[u].output \in DOMAIN calls'
                        /\ calls'[tasks'[u].output].todo = <<>>
    BY DEF OutputIsFinal, Ended
  <2>1. tasks'[u] = tasks[u] BY <1>1
  <2>2. PICK q \in DOMAIN requests :
          /\ requests[q].task = u /\ requests[q].call = tasks[u].output
          /\ tasks[u].output \in DOMAIN calls /\ calls[tasks[u].output].todo = <<>>
    BY <2>1 DEF OutputIsFinal, Ended
  <2> QED BY <1>1, <1>2, <2>1, <2>2
<1>8. CompletionStep
  <2> SUFFICES ASSUME NEW u \in Tasks, NEW c \in DOMAIN calls, Completed(u, c)
               PROVE  Completed(u, c)'
    BY DEF CompletionStep
  <2>1. tasks'[u] = tasks[u] /\ tasks[u].status = "completed" BY <1>1 DEF Completed
  <2>2. \A p \in DOMAIN requests : requests[p].task = u => requests[p].pc \notin WritePcs
    BY DEF Completed, Writing, Executing, WritePcs, ExecPcs
  <2>3. \A p \in DOMAIN requests' : requests'[p].task = u => requests'[p].pc \notin WritePcs
    BY <1>1, <2>1, <2>2
  <2>4. Writing(u)' = {} BY <2>3 DEF Writing, Executing, WritePcs, ExecPcs
  <2> QED BY <2>1, <2>4 DEF Completed
<1> QED BY <1>3, <1>4, <1>5, <1>6, <1>7, <1>8 DEF TaskEffect

LEMMA RequestEffect ==
  ASSUME TaskInv, NEW q \in DOMAIN requests, Run(q)
  PROVE  TaskEffect
<1>1. Effect(q) BY RunEffect
<1> DEFINE t == requests[q].task
<1>2. Moved(q, requests'[q].pc) BY <1>1 DEF Effect
<1>3. /\ requests' \in Seq(RequestCall) /\ DOMAIN requests' = DOMAIN requests
      /\ requests'[q].task = t
      /\ \A p \in DOMAIN requests : p # q => requests'[p] = requests[p]
  BY <1>2 DEF Moved
<1>4. RequestsType /\ CallsKnown /\ faults \in Nat /\ calls \in Seq(Call)
  BY DEF TaskInv, TypeOK, RequestsType, ApprovalType, ActionsType
<1>5. /\ ActionsInv' /\ DOMAIN calls \subseteq DOMAIN calls'
      /\ \A c \in DOMAIN calls : Ended(c) => Ended(c)'
      /\ crashes' = crashes /\ faults' \in Nat /\ faults' >= faults
  BY <1>1 DEF Effect
<1>6. RequestsType'
  <2>1. tasks' \in [Tasks -> TaskRow] BY <1>1 DEF Effect
  <2>2. requests'[q].pc \in {"acting", "complete"} => requests'[q].call \in DOMAIN calls'
    BY <1>1 DEF Effect
  <2> QED BY <1>3, <1>4, <1>5, <2>1, <2>2 DEF RequestsType, Is
<1>7. CallsKnown'
  <2>1. requests'[q].pc \in Early => requests'[q].call = 0
    BY <1>1, <1>4 DEF Effect, CallsKnown
  <2>2. requests'[q].pc = "complete" => calls'[requests'[q].call].todo = <<>>
    BY <1>1 DEF Effect
  <2>3. ASSUME NEW p \in DOMAIN requests, p # q, requests[p].pc = "complete"
        PROVE  calls'[requests[p].call].todo = <<>>
    <3>1. requests[p].call \in DOMAIN calls /\ Ended(requests[p].call)
      BY <1>4, <2>3 DEF RequestsType, CallsKnown, Is
    <3>2. Ended(requests[p].call) => calls'[requests[p].call].todo = <<>>
      BY <1>5, <3>1 DEF Ended
    <3> QED BY <3>1, <3>2
  <2> QED BY <1>3, <1>4, <2>1, <2>2, <2>3 DEF CallsKnown, Ended
<1>8. RunningIsExecuted => RunningIsExecuted'
  <2> SUFFICES ASSUME RunningIsExecuted, faults' = 0, crashes' = 0, NEW u \in Tasks,
                      tasks'[u].status = "running"
               PROVE  \E p \in DOMAIN requests' :
                        requests'[p].task = u /\ requests'[p].pc \in ExecPcs
    BY DEF RunningIsExecuted, Executing, ExecPcs
  <2>1. faults = 0 /\ crashes = 0 BY <1>4, <1>5
  <2>2. ASSUME tasks[u].status = "running"
        PROVE  \E p \in DOMAIN requests : requests[p].task = u /\ requests[p].pc \in ExecPcs
    BY <2>1, <2>2 DEF RunningIsExecuted, Executing, ExecPcs
  <2>3. CASE u # t
    <3>1. tasks[u].status = "running" BY <1>1, <2>3 DEF Effect
    <3> QED BY <1>3, <2>2, <2>3, <3>1
  <2>4. CASE u = t
    <3>1. \/ requests'[q].pc \in ExecPcs
          \/ requests[q].pc \notin ExecPcs /\ tasks[u].status = "running"
      BY <1>1, <2>4 DEF Effect
    <3> QED BY <1>3, <2>2, <2>4, <3>1
  <2> QED BY <2>3, <2>4
<1>9. OutputIsFinal => OutputIsFinal'
  <2> SUFFICES ASSUME OutputIsFinal, NEW u \in Tasks, tasks'[u].status = "completed"
               PROVE  \E p \in DOMAIN requests' :
                        /\ requests'[p].task = u /\ requests'[p].call = tasks'[u].output
                        /\ tasks'[u].output \in DOMAIN calls'
                        /\ calls'[tasks'[u].output].todo = <<>>
    BY DEF OutputIsFinal, Ended
  <2>1. ASSUME tasks[u].status = "completed", tasks'[u].output = tasks[u].output
        PROVE  \E p \in DOMAIN requests :
                 /\ requests'[p].task = u /\ requests'[p].call = tasks[u].output
                 /\ tasks[u].output \in DOMAIN calls /\ calls'[tasks[u].output].todo = <<>>
    <3>1. PICK p \in DOMAIN requests :
            /\ requests[p].task = u /\ requests[p].call = tasks[u].output
            /\ tasks[u].output \in DOMAIN calls /\ Ended(tasks[u].output)
      BY <2>1 DEF OutputIsFinal
    <3>2. calls'[tasks[u].output].todo = <<>> BY <1>5, <3>1 DEF Ended
    <3>3. requests[p].pc \notin Early
      <4>1. 0 \notin DOMAIN calls BY <1>4
      <4> QED BY <1>4, <3>1, <4>1 DEF CallsKnown
    <3>4. requests'[p].task = u /\ requests'[p].call = requests[p].call
      <4>1. requests[q].pc \notin Early => requests'[q].call = requests[q].call
        BY <1>1 DEF Effect
      <4> QED BY <1>3, <3>1, <3>3, <4>1
    <3> QED BY <3>1, <3>2, <3>4
  <2>2. CASE tasks[u].status = "completed" /\ tasks'[u].output = tasks[u].output
    BY <1>3, <1>5, <2>1, <2>2
  <2>3. CASE ~(tasks[u].status = "completed" /\ tasks'[u].output = tasks[u].output)
    <3>1. u = t BY <1>1, <2>3 DEF Effect
    <3>2. /\ tasks'[u].output = requests'[q].call /\ requests'[q].call \in DOMAIN calls'
          /\ calls'[requests'[q].call].todo = <<>>
      BY <1>1, <2>3, <3>1 DEF Effect
    <3> QED BY <1>3, <3>1, <3>2
  <2> QED BY <2>2, <2>3
<1>10. CompletionStep
  <2> SUFFICES ASSUME NEW u \in Tasks, NEW c \in DOMAIN calls, Completed(u, c)
               PROVE  Completed(u, c)'
    BY DEF CompletionStep
  <2>1. tasks[u].status = "completed" /\ tasks[u].output = c BY DEF Completed
  <2>2. \A p \in DOMAIN requests : requests[p].task = u => requests[p].pc \notin WritePcs
    BY DEF Completed, Writing, Executing, WritePcs, ExecPcs
  <2>3. tasks'[u].status = "completed" /\ tasks'[u].output = c
    BY <1>1, <2>1, <2>2 DEF Effect
  <2>4. u = t => requests'[q].pc \notin WritePcs BY <1>1, <2>1, <2>2 DEF Effect
  <2>5. \A p \in DOMAIN requests' : requests'[p].task = u => requests'[p].pc \notin WritePcs
    BY <1>3, <2>2, <2>4
  <2>6. Writing(u)' = {} BY <2>5 DEF Writing, Executing, WritePcs, ExecPcs
  <2> QED BY <2>3, <2>6 DEF Completed
<1> QED BY <1>5, <1>6, <1>7, <1>8, <1>9, <1>10 DEF TaskEffect

LEMMA CrashEffect ==
  ASSUME TaskInv, Crash
  PROVE  TaskEffect
<1>1. /\ crashes \in Nat /\ crashes' = crashes + 1 /\ tasks' = tasks /\ UNCHANGED tables
      /\ CallsLost /\ RequestsType
  BY DEF TaskInv, TypeOK, ApprovalType, Crash, RequestsType
<1>2. ActionsInv' /\ DOMAIN calls' = DOMAIN calls /\ \A c \in DOMAIN calls : Ended(c)'
  BY <1>1, LostStep DEF TaskInv
<1>3. /\ DOMAIN requests' = DOMAIN requests
      /\ requests' = [q \in DOMAIN requests |-> requests'[q]]
      /\ \A q \in DOMAIN requests :
           requests'[q] = [requests[q] EXCEPT !.pc = "over", !.mode = Keep, !.runNow = FALSE]
  BY DEF Crash
<1>4. ASSUME NEW q \in DOMAIN requests
      PROVE  /\ requests'[q] \in RequestCall /\ requests'[q].pc = "over"
             /\ requests'[q].task = requests[q].task /\ requests'[q].call = requests[q].call
  <2> DEFINE e == [requests[q] EXCEPT !.pc = "over", !.mode = Keep, !.runNow = FALSE]
  <2>1. requests[q] \in RequestCall BY <1>1 DEF RequestsType
  <2>2. /\ e \in RequestCall /\ e.pc = "over" /\ e.task = requests[q].task
        /\ e.call = requests[q].call
    BY <2>1 DEF RequestCall
  <2>3. requests'[q] = e BY <1>3
  <2> HIDE DEF e
  <2> QED BY <2>2, <2>3
<1>5. requests' \in Seq(RequestCall) BY <1>1, <1>3, <1>4, SeqMap DEF RequestsType
<1>6. RequestsType' BY <1>1, <1>3, <1>4, <1>5 DEF RequestsType, Is
<1>7. CallsKnown' BY <1>3, <1>4 DEF CallsKnown, Early
<1>8. RunningIsExecuted' BY <1>1 DEF RunningIsExecuted
<1>9. OutputIsFinal => OutputIsFinal' BY <1>1, <1>2, <1>3, <1>4 DEF OutputIsFinal
<1>10. CompletionStep
  <2>1. \A t : Writing(t)' = {} BY <1>3, <1>4 DEF Writing, Executing
  <2> QED BY <1>1, <2>1 DEF CompletionStep, Completed
<1> QED BY <1>2, <1>6, <1>7, <1>8, <1>9, <1>10 DEF TaskEffect

-----------------------------------------------------------------------------
(* The invariant and the theorems *)

LEMMA InitInv == Init => TaskInv /\ RunningIsExecuted /\ OutputIsFinal /\ DecisionIsAudited
<1> SUFFICES ASSUME Init PROVE TaskInv /\ RunningIsExecuted /\ OutputIsFinal /\ DecisionIsAudited
  OBVIOUS
<1>1. /\ calls = <<>> /\ records = {} /\ items = {} /\ notices = {} /\ logs = {}
      /\ approvals = <<>> /\ reviews = <<>> /\ decisions = {}
      /\ arrived = 0 /\ faults = 0 /\ crashes = 0
      /\ requests = <<>> /\ tasks = [t \in Tasks |-> NoTask]
  BY DEF Init, ActionsInit, ApprovalInit
<1>2. DOMAIN (<<>>) = {} OBVIOUS
<1>3. NoTask \in TaskRow /\ NoTask.status = "none" BY DEF NoTask, TaskRow
<1>4. ApprovalType BY <1>1, <1>2 DEF ApprovalType
<1>5. ActionsType BY <1>1 DEF ActionsType
<1>6. ActionsInv BY <1>1, <1>2, <1>5 DEF ActionsInv, ExecutedIsAudited, InvoiceIsWhole, Staged
<1>7. TypeOK BY <1>1, <1>2, <1>3, <1>4, <1>5 DEF TypeOK
<1>8. CallsKnown BY <1>1, <1>2 DEF CallsKnown
<1>9. DecisionIsAudited BY <1>1, <1>2 DEF DecisionIsAudited
<1>10. RunningIsExecuted /\ OutputIsFinal BY <1>1, <1>3 DEF RunningIsExecuted, OutputIsFinal
<1> QED BY <1>6, <1>7, <1>8, <1>9, <1>10 DEF TaskInv

LEMMA NextEffect ==
  ASSUME TaskInv, Next
  PROVE  TaskEffect /\ ApprovalEffect
<1>1. /\ ApprovalType /\ faults \in Nat /\ arrived \in Nat /\ crashes \in Nat /\ ActionsInv
      /\ requests \in Seq(RequestCall)
  BY DEF TaskInv, TypeOK, ApprovalType
<1>2. ASSUME NEW t \in Tasks, Client(t), UNCHANGED <<actionVars, approvalVars, faults, crashes>>
      PROVE  TaskEffect /\ ApprovalEffect
  <2>1. TaskEffect BY <1>2, ClientEffect
  <2>2. arrived' \in Nat BY <1>2, ClientAppends
  <2>3. faults' \in Nat /\ faults' >= faults BY <1>1, <1>2
  <2> QED BY <1>1, <1>2, <2>1, <2>2, <2>3, SameApprovals DEF approvalVars
<1>3. ASSUME NEW q \in DOMAIN requests, Run(q)
      PROVE  TaskEffect /\ ApprovalEffect
  <2>1. TaskEffect BY <1>3, RequestEffect
  <2>2. UNCHANGED <<approvals, reviews, decisions, arrived, crashes>>
        /\ faults' \in Nat /\ faults' >= faults
    BY <1>3, RunEffect DEF Effect, approvalVars
  <2>3. arrived' \in Nat BY <1>1, <2>2
  <2> QED BY <1>1, <2>1, <2>2, <2>3, SameApprovals
<1>4. ASSUME NEW c \in DOMAIN calls, ActFor(c)
      PROVE  TaskEffect /\ ApprovalEffect
  <2>1. Act(c) /\ UNCHANGED <<tasks, requests, reviews, decisions, arrived, crashes>>
    BY <1>4 DEF ActFor, taskVars
  <2>2. /\ ActionsInv' /\ DOMAIN calls' = DOMAIN calls
        /\ approvals' = approvals \/ approvals' = Append(approvals, Row(Agent))
        /\ faults' \in Nat /\ faults' >= faults
    BY <1>1, <2>1, ActStep
  <2>3. \A d \in DOMAIN calls : Ended(d) => Ended(d)' BY <1>1, <2>1, EndedStays DEF ActionsInv
  <2>4. TaskEffect BY <2>1, <2>2, <2>3, RestEffect
  <2>5. arrived' \in Nat BY <1>1, <2>1
  <2> QED BY <1>1, <2>1, <2>2, <2>4, <2>5, SameApprovals, NewApproval
<1>5. CASE Clients /\ UNCHANGED <<taskVars, actionVars, crashes>>
  <2>1. /\ UNCHANGED <<tasks, requests, crashes>> /\ UNCHANGED faults
        /\ UNCHANGED <<calls, records, items, notices, logs>>
    BY <1>5 DEF taskVars, actionVars, Clients, CreateApproval, StartReview
  <2>2. TaskEffect BY <1>1, <2>1, ActionsRest, RestEffect
  <2>3. ASSUME NEW u \in Users, CreateApproval(u) PROVE ApprovalEffect
    <3>1. /\ approvals' = Append(approvals, Row(u)) /\ UNCHANGED <<reviews, decisions, crashes>>
          /\ arrived' \in Nat /\ faults' \in Nat /\ faults' >= faults
      BY <1>1, <2>1, <2>3 DEF CreateApproval, Arrive
    <3> QED BY <1>1, <3>1, NewApproval
  <2>4. ASSUME NEW u \in Users, NEW a \in DOMAIN approvals, NEW v \in Verdicts,
               StartReview(u, a, v)
        PROVE  ApprovalEffect
    BY <1>1, <2>1, <2>4, StartReviewEffect
  <2> QED BY <1>5, <2>2, <2>3, <2>4 DEF Clients
<1>6. ASSUME NEW r \in DOMAIN reviews, Review(r),
             UNCHANGED <<taskVars, actionVars, arrived, crashes>>
      PROVE  TaskEffect /\ ApprovalEffect
  <2>1. /\ UNCHANGED <<tasks, requests, crashes>> /\ UNCHANGED <<arrived, crashes>>
        /\ UNCHANGED <<calls, records, items, notices, logs>>
    BY <1>6 DEF taskVars, actionVars
  <2>2. faults' \in Nat /\ faults' >= faults
    BY <1>1, <1>6 DEF Review, Decide, AuditDecision, Fault
  <2>3. TaskEffect BY <1>1, <2>1, <2>2, ActionsRest, RestEffect
  <2> QED BY <1>1, <1>6, <2>1, <2>3, DecideEffect, AuditDecisionEffect DEF Review
<1>7. CASE Crash
  <2>1. TaskEffect BY <1>7, CrashEffect
  <2>2. ApprovalEffect BY <1>1, <1>7, LostReviewsEffect DEF Crash
  <2> QED BY <2>1, <2>2
<1> QED BY <1>2, <1>3, <1>4, <1>5, <1>6, <1>7 DEF Next

LEMMA NextInv ==
  ASSUME TaskInv, [Next]_vars
  PROVE  /\ TaskInv' /\ TaskEffect /\ StandsStep
         /\ DecisionIsAudited => DecisionIsAudited'
<1>1. CASE Next
  <2>1. TaskEffect /\ ApprovalEffect BY <1>1, NextEffect
  <2> QED BY <2>1 DEF TaskEffect, ApprovalEffect, TaskInv, TypeOK, ActionsInv, RequestsType
<1>2. CASE UNCHANGED vars
  <2>1. /\ UNCHANGED <<tasks, requests, crashes, approvals, reviews, decisions, arrived, faults>>
        /\ UNCHANGED <<calls, records, items, notices, logs>>
    BY <1>2 DEF vars, taskVars, actionVars, approvalVars
  <2>2. ApprovalType /\ faults \in Nat /\ arrived \in Nat /\ ActionsInv
    BY DEF TaskInv, TypeOK, ApprovalType
  <2>3. faults' \in Nat /\ faults' >= faults /\ arrived' \in Nat BY <2>1, <2>2
  <2>4. TaskEffect BY <2>1, <2>2, <2>3, ActionsRest, RestEffect
  <2>5. ApprovalEffect BY <2>1, <2>2, <2>3, SameApprovals
  <2> QED BY <2>4, <2>5 DEF TaskEffect, ApprovalEffect, TaskInv, TypeOK, ActionsInv, RequestsType
<1> QED BY <1>1, <1>2

LEMMA Invariance == Spec => []TaskInv
<1>1. Init => TaskInv BY InitInv
<1>2. TaskInv /\ [Next]_vars => TaskInv' BY NextInv
<1> QED BY <1>1, <1>2, PTL DEF Spec

(* Rows, requests, calls and audit logs have the types of the code, whoever *)
(* writes them.                                                             *)
THEOREM TypeCorrect == Spec => []TypeOK
<1>1. TaskInv => TypeOK BY DEF TaskInv
<1> QED BY <1>1, Invariance, PTL

(* Every executed action has its audit row, and every audit row its record: *)
(* the statements of AgentActionService follow one another in that order.   *)
THEOREM ActionsAudited == Spec => []ExecutedIsAudited
<1>1. TaskInv => ExecutedIsAudited BY DEF TaskInv, ActionsInv
<1> QED BY <1>1, Invariance, PTL

(* No invoice is seen without its items: createInvoice's transaction. *)
THEOREM InvoicesWhole == Spec => []InvoiceIsWhole
<1>1. TaskInv => InvoiceIsWhole BY DEF TaskInv, ActionsInv
<1> QED BY <1>1, Invariance, PTL

(* Without failures a running task is being executed, for any number of     *)
(* overlapping runs, retries and cancellations.                             *)
THEOREM RunningExecuted == Spec => []RunningIsExecuted
<1>1. Init => RunningIsExecuted BY InitInv
<1>2. RunningIsExecuted /\ TaskInv /\ [Next]_vars => RunningIsExecuted'
  BY NextInv DEF TaskEffect
<1> QED BY <1>1, <1>2, Invariance, PTL DEF Spec

(* A completed task shows a finished call of one of its own executions. *)
THEOREM OutputFinal == Spec => []OutputIsFinal
<1>1. Init => OutputIsFinal BY InitInv
<1>2. OutputIsFinal /\ TaskInv /\ [Next]_vars => OutputIsFinal' BY NextInv DEF TaskEffect
<1> QED BY <1>1, <1>2, Invariance, PTL DEF Spec

(* Status and output of a completed task stay once no request that read an  *)
(* earlier row is left.                                                     *)
THEOREM CompletionStays == Spec => CompletionStands
<1>1. TaskInv /\ [Next]_vars =>
        [\A t \in Tasks, c \in DOMAIN calls : Completed(t, c) => Completed(t, c)']_vars
  BY NextInv DEF TaskEffect, CompletionStep
<1> QED BY <1>1, Invariance, PTL DEF Spec, CompletionStands

(* A decision on an approval stays once no reviewer who has read the        *)
(* pending row is left.                                                     *)
THEOREM DecisionStays == Spec => DecisionStands
<1>1. TaskInv /\ [Next]_vars =>
        [\A a \in DOMAIN approvals, v \in Verdicts, u \in Users :
           Stands(a, v, u) => Stands(a, v, u)']_approvalVars
  BY NextInv DEF StandsStep
<1> QED BY <1>1, Invariance, PTL DEF Spec, DecisionStands

(* The decision that an approval shows is in the audit log or on its way    *)
(* there, also after two reviewers' decisions overtook each other.          *)
THEOREM DecisionAudited == Spec => []DecisionIsAudited
<1>1. Init => DecisionIsAudited BY InitInv
<1>2. DecisionIsAudited /\ TaskInv /\ [Next]_vars => DecisionIsAudited' BY NextInv
<1> QED BY <1>1, <1>2, Invariance, PTL DEF Spec

=============================================================================
