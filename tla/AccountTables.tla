--------------------------- MODULE AccountTables ---------------------------
(***************************************************************************)
(* The tables that AuthService and SettingsService share                   *)
(* (models/core.models.ts), and the requests under way on them.            *)
(*                                                                         *)
(* A request is suspended at an await: it holds what it has read so far.   *)
(* What a transaction writes appears with its commit; the locks it takes   *)
(* before that are those of the requests in its later steps.  A request    *)
(* that a check refuses changes nothing and has no step.                   *)
(***************************************************************************)
EXTENDS Integers

CONSTANTS
  Emails,         \* a user is known by the email, an organization by its founder's
  None,
  Requests,       \* slots of requests under way at the same time
  Budgets,        \* how many requests of each kind the clients may send
  MaxTokens,      \* bounds on the rows of refresh_tokens,
  MaxResets,      \* .. password_reset_tokens,
  MaxInvitations, \* .. organization_invitations
  MaxLinks        \* .. and on the invitation links ever sent

Kinds == {"signup", "login", "refresh", "logout", "forgot", "reset",
          "invite", "accept", "resend", "revoke", "role", "remove", "fault"}

ASSUME AccountsAssumption ==
  /\ None \notin Emails \cup {"admin", "member"}
  /\ Budgets \subseteq [Kinds -> Nat]
  /\ MaxTokens \in Nat /\ MaxResets \in Nat /\ MaxInvitations \in Nat /\ MaxLinks \in Nat

VARIABLES
  users,        \* emails that have an account
  resets,       \* password resets of each user so far
  members,      \* organization, user: the membership row
  tokens,       \* refresh tokens
  resetTokens,  \* password reset tokens
  invitations,
  links,        \* tokens of invitations: sent, and how often accepted
  requests,
  budget        \* requests still to be sent
vars == <<users, resets, members, tokens, resetTokens, invitations, links, requests, budget>>

TokenIds == 1..MaxTokens
ResetIds == 1..MaxResets
InvitationIds == 1..MaxInvitations
Links == 1..MaxLinks

(* Owner and Admin pass the same checks. *)
Roles == {"admin", "member"}
Maybe(S) == S \cup {None}

(* A removed row is soft-deleted: queries do not find it, the unique index does. *)
Membership == [state : {"none", "active", "removed"}, role : Maybe(Roles)]
NoMembership == [state |-> "none", role |-> None]

(* "checked", "late": history of the request that issued it, see IssueTokens. *)
RefreshToken == [user : Maybe(Emails), org : Maybe(Emails), role : Maybe(Roles),
                 live : BOOLEAN, from : TokenIds \cup {0}, checked : Nat, late : BOOLEAN]
NoToken == [user |-> None, org |-> None, role |-> None,
            live |-> FALSE, from |-> 0, checked |-> 0, late |-> FALSE]

ResetToken == [user : Maybe(Emails), used : BOOLEAN]
NoReset == [user |-> None, used |-> TRUE]

(* "accepted", "revoked": whether acceptedAt and revokedAt are set. *)
Invitation == [org : Maybe(Emails), email : Maybe(Emails), role : Maybe(Roles),
               status : {"none", "pending", "accepted", "revoked"},
               accepted : BOOLEAN, revoked : BOOLEAN, link : Links \cup {0}]
NoInvitation == [org |-> None, email |-> None, role |-> None, status |-> "none",
                 accepted |-> FALSE, revoked |-> FALSE, link |-> 0]

Steps == {"idle", "signup", "login", "refresh", "rotate", "issue", "reset", "swept",
          "accept", "resend", "revoke", "role", "remove"}
Request == [step : Steps, user : Maybe(Emails), org : Maybe(Emails), role : Maybe(Roles),
            token : TokenIds \cup {0}, row : ResetIds \cup InvitationIds \cup {0},
            seen : Invitation, checked : Nat, swept : SUBSET TokenIds]
Idle == [step |-> "idle", user |-> None, org |-> None, role |-> None, token |-> 0,
         row |-> 0, seen |-> NoInvitation, checked |-> 0, swept |-> {}]

Init ==
  /\ users = {} /\ resets = [e \in Emails |-> 0]
  /\ members = [o \in Emails |-> [e \in Emails |-> NoMembership]]
  /\ tokens = [t \in TokenIds |-> NoToken]
  /\ resetTokens = [r \in ResetIds |-> NoReset]
  /\ invitations = [i \in InvitationIds |-> NoInvitation]
  /\ links = [l \in Links |-> [sent |-> FALSE, uses |-> 0]]
  /\ requests = [q \in Requests |-> Idle]
  /\ budget \in Budgets

-----------------------------------------------------------------------------
At(q, step) == requests[q].step = step
Spend(kind) == budget[kind] > 0 /\ budget' = [budget EXCEPT ![kind] = @ - 1]
Goes(q, r) == requests' = [requests EXCEPT ![q] = r] /\ UNCHANGED budget
Ends(q) == Goes(q, Idle)
Start(q, kind, r) ==
  /\ At(q, "idle") /\ Spend(kind)
  /\ requests' = [requests EXCEPT ![q] = r]

Active(o, e) == members[o][e].state = "active"

(* validateUserByJwt(): the membership is asked for, the role is the one of the *)
(* time the token was issued.                                                   *)
Authorized(u, o) ==
  /\ Active(o, u)
  /\ \E t \in TokenIds : tokens[t].user = u /\ tokens[t].org = o /\ tokens[t].role = "admin"

(* A statement fails: the request ends, an open transaction is rolled back. *)
StatementFails(q) ==
  /\ ~At(q, "idle") /\ Spend("fault")
  /\ requests' = [requests EXCEPT ![q] = Idle]
  /\ UNCHANGED <<users, resets, members, tokens, resetTokens, invitations, links>>

Crash ==
  /\ \E q \in Requests : ~At(q, "idle")
  /\ Spend("fault")
  /\ requests' = [q \in Requests |-> Idle]
  /\ UNCHANGED <<users, resets, members, tokens, resetTokens, invitations, links>>

=============================================================================
