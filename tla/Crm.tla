-------------------------------- MODULE Crm --------------------------------
(***************************************************************************)
(* src/src/crm/crm.service.ts: pipelines, their stages and deals.          *)
(* The default pipeline and its stages are found or created on use; a deal *)
(* is read, checked and written in separate statements.                    *)
(***************************************************************************)
EXTENDS WorkspaceTables

Ledger == <<invoices, accounts, transactions>>
Demo == <<projects, rows>>

StatusOf(name) == IF name \in {"won", "lost"} THEN name ELSE "open"

StageIds == UNION { [pipeline : {k}, name : pipelines[k].stages] : k \in DOMAIN pipelines }
Defaults == { k \in DOMAIN pipelines : pipelines[k].default }

(* The stage with the lowest position. *)
FirstStage(k) ==
  LET names == pipelines[k].stages IN
  [pipeline |-> k, name |-> IF "lead" \in names THEN "lead"
                            ELSE IF "won" \in names THEN "won" ELSE "lost"]

-----------------------------------------------------------------------------
(* defaultPipeline(), for pipelines() and create() *)
List(q) == Start(q, "list", [Idle EXCEPT !.step = "find"]) /\ UNCHANGED tables

(* A stage or a pipeline in the body is optional. *)
Create(q, k, stage) ==
  /\ Start(q, "create", [Idle EXCEPT !.step = "find", !.row = k, !.stage = stage])
  /\ UNCHANGED tables

(* findOrCreate: nothing but this look-up keeps a second one from being created. *)
FindDefault(q) ==
  /\ At(q, "find")
  /\ \/ \E k \in Defaults : Goes(q, [requests[q] EXCEPT !.step = "ready", !.pipeline = k])
     \/ Defaults = {} /\ Goes(q, [requests[q] EXCEPT !.step = "new"])
  /\ UNCHANGED tables

NewDefault(q) ==
  /\ At(q, "new")
  /\ pipelines' = Append(pipelines, [default |-> TRUE, stages |-> {}])
  /\ Goes(q, [requests[q] EXCEPT !.step = "ready", !.pipeline = Len(pipelines) + 1])
  /\ UNCHANGED <<deals, Ledger, Demo>>

(* ensureDefaultStages(), in parallel, one statement per stage *)
Ensuring(q) == (At(q, "ready") \/ At(q, "move")) /\ requests[q].pipeline \in Defaults
EnsureStage(q, name) ==
  LET k == requests[q].pipeline IN
  /\ Ensuring(q) /\ name \notin pipelines[k].stages
  /\ pipelines' = [pipelines EXCEPT ![k].stages = @ \cup {name}]
  /\ UNCHANGED <<deals, Ledger, Demo, requests, budget>>
Ensured(q) == Ensuring(q) => pipelines[requests[q].pipeline].stages = Names

FinishList(q) ==
  /\ At(q, "ready") /\ requests[q].kind = "list" /\ Ensured(q)
  /\ Ends(q) /\ UNCHANGED tables

(* The rest of create(): the stage is one of the pipeline's, its first by default. *)
InsertDeal(q) ==
  LET r == requests[q]
      k == IF r.row # 0 THEN r.row ELSE r.pipeline
      stage == IF r.stage # NoStage THEN r.stage ELSE FirstStage(k) IN
  /\ At(q, "ready") /\ r.kind = "create" /\ Ensured(q)
  /\ \/ /\ stage.pipeline = k /\ stage \in StageIds
        /\ deals' = Append(deals, [live |-> TRUE, pipeline |-> k, stage |-> stage,
                                   status |-> StatusOf(stage.name), loose |-> FALSE])
     \/ /\ ~(stage.pipeline = k /\ stage \in StageIds)
        /\ UNCHANGED deals
  /\ Ends(q)
  /\ UNCHANGED <<pipelines, Ledger, Demo>>

(* What update() makes of a deal as it was read: a stage that is in the pipeline *)
(* sets the status.  The columns are NOT NULL, so that an id of null, which the   *)
(* check takes for one left out, ends the request.                                *)
Restaged(deal, pipeline, stage) ==
  [deal EXCEPT !.pipeline = pipeline, !.stage = stage, !.status = StatusOf(stage.name),
               !.loose = FALSE]

(* Mutant: the stage is looked up by its id alone. *)
StartEdit_AnyStage(q, i, k, stage) ==
  LET deal == deals[i]
      at == IF stage # NoStage THEN stage ELSE deal.stage
      in == IF k # 0 THEN k ELSE deal.pipeline IN
  /\ deal.live /\ at \in StageIds
  /\ Start(q, "edit", [Idle EXCEPT !.step = "edit", !.row = i, !.seen = deal,
                                   !.to = Restaged(deal, in, at)])
  /\ UNCHANGED tables

StartEdit(q, i, k, stage) ==
  LET deal == deals[i]
      at == IF stage # NoStage THEN stage ELSE deal.stage
      in == IF k # 0 THEN k ELSE deal.pipeline IN
  /\ deal.live /\ at.pipeline = in /\ at \in StageIds
  /\ Start(q, "edit", [Idle EXCEPT !.step = "edit", !.row = i, !.seen = deal,
                                   !.to = Restaged(deal, in, at)])
  /\ UNCHANGED tables

(* A status alone is taken as it is. *)
StartStatus(q, i, status) ==
  /\ deals[i].live
  /\ Start(q, "edit", [Idle EXCEPT !.step = "edit", !.row = i, !.seen = deals[i],
                         !.to = [deals[i] EXCEPT !.status = status, !.loose = TRUE]])
  /\ UNCHANGED tables

(* stage(): by name or id in the deal's pipeline, whose stages may have to be created. *)
StartMove(q, i, name) ==
  /\ deals[i].live
  /\ Start(q, "move", [Idle EXCEPT !.step = "move", !.row = i, !.seen = deals[i],
             !.pipeline = deals[i].pipeline,
             !.stage = [pipeline |-> deals[i].pipeline, name |-> name]])
  /\ UNCHANGED tables

(* The columns that the request changes are written whatever the row is by now. *)
Written(now, seen, to) ==
  [now EXCEPT !.pipeline = Column(seen.pipeline, to.pipeline, @),
              !.stage = Column(seen.stage, to.stage, @),
              !.status = Column(seen.status, to.status, @),
              !.loose = to.loose \/ [now EXCEPT !.live = seen.live] # seen]

FinishEdit(q) ==
  LET r == requests[q] IN
  /\ At(q, "edit")
  /\ deals' = [deals EXCEPT ![r.row] = Written(@, r.seen, r.to)]
  /\ Ends(q)
  /\ UNCHANGED <<pipelines, Ledger, Demo>>

(* The status follows the stage unless the body has one of its own. *)
FinishMove(q, status) ==
  LET r == requests[q]
      inferred == IF r.stage.name \in {"won", "lost"} THEN r.stage.name
                  ELSE IF r.seen.status \in {"won", "lost"} THEN "open" ELSE r.seen.status
      to == [r.seen EXCEPT !.stage = r.stage, !.loose = status # None \/ (r.seen.loose /\ inferred = r.seen.status),
                           !.status = IF status # None THEN status ELSE inferred] IN
  /\ At(q, "move") /\ Ensured(q)
  /\ \/ r.stage \in StageIds /\ deals' = [deals EXCEPT ![r.row] = Written(@, r.seen, to)]
     \/ r.stage \notin StageIds /\ UNCHANGED deals
  /\ Ends(q)
  /\ UNCHANGED <<pipelines, Ledger, Demo>>

Remove(i) ==
  /\ deals[i].live /\ Spend("remove")
  /\ deals' = [deals EXCEPT ![i].live = FALSE]
  /\ UNCHANGED <<pipelines, Ledger, Demo, requests>>

CrmRequest ==
  \/ \E q \in Requests :
       \/ List(q)
       \/ \E k \in 0..Len(pipelines), stage \in StageIds \cup {NoStage} : Create(q, k, stage)
       \/ \E i \in DOMAIN deals :
            \/ \E k \in 0..Len(pipelines), stage \in StageIds \cup {NoStage} :
                 (k # 0 \/ stage # NoStage) /\ StartEdit(q, i, k, stage)
            \/ \E status \in Statuses \ {"other"} : StartStatus(q, i, status)
            \/ \E name \in Names : StartMove(q, i, name)
  \/ \E i \in DOMAIN deals : Remove(i)
CrmStep(q) ==
  \/ FindDefault(q) \/ NewDefault(q) \/ FinishList(q) \/ InsertDeal(q) \/ FinishEdit(q)
  \/ \E name \in Names : EnsureStage(q, name)
  \/ \E status \in Statuses \cup {None} : FinishMove(q, status)

-----------------------------------------------------------------------------
(* Property *)

(* "Pipeline stage does not belong to the selected pipeline" (crm.service.ts:123,  *)
(* :175), and the status that goes with the stage: every deal that the service or  *)
(* a demo seed has written is at a stage of its pipeline and has that status,      *)
(* unless the client chose the status or two requests wrote the deal at once.      *)
DealIsSound ==
  \A i \in DOMAIN deals :
    deals[i].live /\ ~deals[i].loose =>
      /\ deals[i].stage.pipeline = deals[i].pipeline /\ deals[i].stage \in StageIds
      /\ deals[i].status = StatusOf(deals[i].stage.name)

=============================================================================
