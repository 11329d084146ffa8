------------------------------ MODULE Approval ------------------------------
(***************************************************************************)
(* src/src/approval/approval.service.ts: approvals that users and agents   *)
(* ask for and that reviewers decide.                                      *)
(*                                                                         *)
(* review() is a list of statements, each awaited: the row is read, then   *)
(* written, then the audit log.  Any number of reviews may be under way.   *)
(* A refused request leaves nothing and needs no step.                     *)
(***************************************************************************)
EXTENDS Integers, Sequences, FiniteSets

CONSTANTS
  Users,
  Reviewers,    \* active members whose role is owner, admin or approver
  Agent,        \* requestedByAgentId, as opposed to a user
  Nobody,       \* no reviewedById yet
  MaxCalls,     \* bound on the requests of all clients
  MaxFaults     \* bound on failing statements and ends of the process

ASSUME ApprovalAssumption ==
  /\ Reviewers \subseteq Users
  /\ Agent \notin Users /\ Nobody \notin Users
  /\ MaxCalls \in Nat /\ MaxFaults \in Nat

VARIABLES
  approvals, \* the rows, in the order of their ids
  reviews,   \* calls of review() that passed its checks
  decisions, \* audit rows of reviews
  arrived,   \* requests of clients so far
  faults,    \* statements that have failed so far
  crashes    \* ends of the process so far
approvalVars == <<approvals, reviews, decisions>>

Verdicts == {"approved", "rejected"}
Row(requester) == [requester |-> requester, status |-> "pending", by |-> Nobody]

ApprovalInit ==
  /\ approvals = <<>> /\ reviews = <<>> /\ decisions = {}
  /\ arrived = 0 /\ faults = 0 /\ crashes = 0

Arrive == arrived < MaxCalls /\ arrived' = arrived + 1

(* A statement fails: the database or the connection. *)
Fault == faults + crashes < MaxFaults /\ faults' = faults + 1

CreateApproval(u) ==
  /\ Arrive
  /\ approvals' = Append(approvals, Row(u))
  /\ UNCHANGED <<reviews, decisions, faults>>

(* Mutant: whether it is pending is not asked. *)
StartReview_Any(u, a, v) ==
  /\ Arrive
  /\ u \in Reviewers /\ approvals[a].requester # u
  /\ reviews' = Append(reviews, [user |-> u, approval |-> a, verdict |-> v, pc |-> "decide"])
  /\ UNCHANGED <<approvals, decisions, faults>>

(* The reviewer's role and the row are read, and the checks pass. *)
StartReview(u, a, v) ==
  /\ Arrive
  /\ u \in Reviewers /\ approvals[a].requester # u
  /\ approvals[a].status = "pending"
  /\ reviews' = Append(reviews, [user |-> u, approval |-> a, verdict |-> v, pc |-> "decide"])
  /\ UNCHANGED <<approvals, decisions, faults>>

Goes(r, pc) == reviews' = [reviews EXCEPT ![r].pc = pc]

(* The row is written, whatever it says by now. *)
Decide(r) ==
  /\ reviews[r].pc = "decide"
  /\ \/ /\ approvals' = [approvals EXCEPT ![reviews[r].approval].status = reviews[r].verdict,
                                          ![reviews[r].approval].by = reviews[r].user]
        /\ Goes(r, "audit") /\ UNCHANGED faults
     \/ Fault /\ Goes(r, "over") /\ UNCHANGED approvals
  /\ UNCHANGED decisions

Decision(r) == [approval |-> reviews[r].approval, status |-> reviews[r].verdict,
                by |-> reviews[r].user]

(* Mutant: one audit row per approval is thought to be enough. *)
AuditDecision_Once(r) ==
  /\ reviews[r].pc = "audit"
  /\ decisions' = IF \E d \in decisions : d.approval = reviews[r].approval
                  THEN decisions ELSE decisions \cup {Decision(r)}
  /\ Goes(r, "over")
  /\ UNCHANGED <<approvals, faults>>

AuditDecision(r) ==
  /\ reviews[r].pc = "audit"
  /\ \/ decisions' = decisions \cup {Decision(r)} /\ UNCHANGED faults
     \/ Fault /\ UNCHANGED decisions
  /\ Goes(r, "over")
  /\ UNCHANGED approvals

Review(r) == Decide(r) \/ AuditDecision(r)

Clients == \/ \E u \in Users : CreateApproval(u)
           \/ \E u \in Users, a \in DOMAIN approvals, v \in Verdicts : StartReview(u, a, v)

(* The process has ended: the rows stay. *)
ReviewsLost == reviews' = [r \in DOMAIN reviews |-> [reviews[r] EXCEPT !.pc = "over"]]

-----------------------------------------------------------------------------
(* Properties *)

ApprovalRow == [requester : Users \cup {Agent}, status : Verdicts \cup {"pending"},
                by : Users \cup {Nobody}]
ReviewCall == [user : Users, approval : Nat, verdict : Verdicts, pc : {"decide", "audit", "over"}]

ApprovalType ==
  /\ approvals \in Seq(ApprovalRow) /\ reviews \in Seq(ReviewCall)
  /\ \A r \in DOMAIN reviews : reviews[r].approval \in DOMAIN approvals
  /\ decisions \subseteq [approval : Nat, status : Verdicts, by : Users]
  /\ arrived \in Nat /\ faults \in Nat /\ crashes \in Nat

(* Reviews of a that have read it as pending and may still write it. *)
Deciding(a) == { r \in DOMAIN reviews : reviews[r].approval = a /\ reviews[r].pc = "decide" }

(* "Approval has already been reviewed" (approval.service.ts:75), as far as  *)
(* the code ensures it: a decision stands once nobody who has read the row   *)
(* as pending is about to write it.                                          *)
Stands(a, v, u) ==
  /\ a \in DOMAIN approvals
  /\ approvals[a].status = v /\ approvals[a].by = u
  /\ Deciding(a) = {}
DecisionStands ==
  [][\A a \in DOMAIN approvals, v \in Verdicts, u \in Users :
       Stands(a, v, u) => Stands(a, v, u)']_approvalVars

(* What the row says has its row in the audit log, or will have it, unless  *)
(* a statement failed or the process ended: also of two decisions that      *)
(* overtake each other the one that remains is audited.                     *)
DecisionIsAudited ==
  faults = 0 /\ crashes = 0 => \A a \in DOMAIN approvals :
    approvals[a].status # "pending" =>
      \/ [approval |-> a, status |-> approvals[a].status, by |-> approvals[a].by] \in decisions
      \/ \E r \in DOMAIN reviews :
           /\ reviews[r].pc = "audit"
           /\ Decision(r) = [approval |-> a, status |-> approvals[a].status,
                             by |-> approvals[a].by]

=============================================================================
