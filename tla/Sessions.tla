------------------------------ MODULE Sessions ------------------------------
(***************************************************************************)
(* src/src/auth/auth.service.ts: accounts, sign-in, refresh tokens and     *)
(* password resets.  Clients use the tokens and passwords they were given; *)
(* a token's age is left out: an expired one is refused, which is no step. *)
(***************************************************************************)
EXTENDS AccountTables

Organizations == <<invitations, links>>

(* A reset between its statements and its commit holds the rows it has written. *)
UserLocked(e) == \E q \in Requests : At(q, "swept") /\ requests[q].user = e
TokenLocked(t) == \E q \in Requests : At(q, "swept") /\ t \in requests[q].swept

-----------------------------------------------------------------------------
Signup(q, e) ==
  /\ e \notin users
  /\ Start(q, "signup", [Idle EXCEPT !.step = "signup", !.user = e])
  /\ UNCHANGED <<users, resets, members, tokens, resetTokens, Organizations>>

(* The transaction commits the organization, its roles, the user and the owner's *)
(* membership, or the unique index on the email ends it.                         *)
CommitSignup(q) ==
  LET e == requests[q].user IN
  /\ At(q, "signup")
  /\ \/ /\ e \notin users
        /\ users' = users \cup {e}
        /\ members' = [members EXCEPT ![e][e] = [state |-> "active", role |-> "admin"]]
        /\ Goes(q, [requests[q] EXCEPT !.step = "issue", !.org = e, !.role = "admin"])
     \/ e \in users /\ Ends(q) /\ UNCHANGED <<users, members>>
  /\ UNCHANGED <<resets, tokens, resetTokens, Organizations>>

(* The password is compared with the row that was read. *)
Login(q, e) ==
  /\ e \in users
  /\ Start(q, "login", [Idle EXCEPT !.step = "login", !.user = e, !.checked = resets[e]])
  /\ UNCHANGED <<users, resets, members, tokens, resetTokens, Organizations>>

(* Some active membership is found; lastLoginAt waits for the lock on the user. *)
FindMembership(q) ==
  LET e == requests[q].user IN
  /\ At(q, "login") /\ ~UserLocked(e)
  /\ \/ \E o \in Emails :
          /\ Active(o, e)
          /\ Goes(q, [requests[q] EXCEPT !.step = "issue", !.org = o, !.role = members[o][e].role])
     \/ (\A o \in Emails : ~Active(o, e)) /\ Ends(q)
  /\ UNCHANGED <<users, resets, members, tokens, resetTokens, Organizations>>

Refresh(q, t) ==
  /\ tokens[t].live
  /\ Start(q, "refresh", [Idle EXCEPT !.step = "refresh", !.user = tokens[t].user,
             !.org = tokens[t].org, !.token = t, !.checked = resets[tokens[t].user]])
  /\ UNCHANGED <<users, resets, members, tokens, resetTokens, Organizations>>

CheckMembership(q) ==
  LET o == requests[q].org  e == requests[q].user IN
  /\ At(q, "refresh")
  /\ \/ /\ Active(o, e)
        /\ Goes(q, [requests[q] EXCEPT !.step = "rotate", !.role = members[o][e].role])
     \/ ~Active(o, e) /\ Ends(q)
  /\ UNCHANGED <<users, resets, members, tokens, resetTokens, Organizations>>

(* Mutant: revokedAt is left for logout to set. *)
RevokeOld_Not(q) ==
  /\ At(q, "rotate") /\ ~TokenLocked(requests[q].token)
  /\ Goes(q, [requests[q] EXCEPT !.step = "issue"])
  /\ UNCHANGED <<users, resets, members, tokens, resetTokens, Organizations>>

(* record.update(): by id, whether or not another refresh has revoked it. *)
RevokeOld(q) ==
  /\ At(q, "rotate") /\ ~TokenLocked(requests[q].token)
  /\ tokens' = [tokens EXCEPT ![requests[q].token].live = FALSE]
  /\ Goes(q, [requests[q] EXCEPT !.step = "issue"])
  /\ UNCHANGED <<users, resets, members, resetTokens, Organizations>>

NewToken(q) ==
  LET r == requests[q] IN
  [user |-> r.user, org |-> r.org, role |-> r.role, live |-> TRUE, from |-> r.token,
   checked |-> r.checked, late |-> r.checked # resets[r.user] \/ UserLocked(r.user)]

(* issueTokens().  The row remembers the reset count its request had checked and *)
(* whether a reset has overtaken the request or is about to.                      *)
IssueTokens(q) ==
  /\ At(q, "issue")
  /\ \E t \in TokenIds :
       /\ \A s \in TokenIds : s < t <=> tokens[s].user # None
       /\ tokens' = [tokens EXCEPT ![t] = NewToken(q)]
  /\ Ends(q)
  /\ UNCHANGED <<users, resets, members, resetTokens, Organizations>>

Logout(t) ==
  /\ tokens[t].live /\ ~TokenLocked(t) /\ Spend("logout")
  /\ tokens' = [tokens EXCEPT ![t].live = FALSE]
  /\ UNCHANGED <<users, resets, members, resetTokens, Organizations, requests>>

ForgotPassword(e) ==
  /\ e \in users /\ Spend("forgot")
  /\ \E r \in ResetIds :
       /\ \A s \in ResetIds : s < r <=> resetTokens[s].user # None
       /\ resetTokens' = [resetTokens EXCEPT ![r] = [user |-> e, used |-> FALSE]]
  /\ UNCHANGED <<users, resets, members, tokens, Organizations, requests>>

ResetPassword(q, r) ==
  /\ ~resetTokens[r].used
  /\ Start(q, "reset", [Idle EXCEPT !.step = "reset", !.user = resetTokens[r].user, !.row = r])
  /\ UNCHANGED <<users, resets, members, tokens, resetTokens, Organizations>>

(* Mutant: only the token of the newest session is looked up. *)
SweepSessions_One(q) ==
  LET mine == { t \in TokenIds : tokens[t].user = requests[q].user /\ tokens[t].live } IN
  /\ At(q, "reset") /\ ~UserLocked(requests[q].user)
  /\ Goes(q, [requests[q] EXCEPT !.step = "swept",
                !.swept = { t \in mine : \A s \in mine : s <= t }])
  /\ UNCHANGED <<users, resets, members, tokens, resetTokens, Organizations>>

(* The statements of the transaction: the user and the live tokens found are locked. *)
SweepSessions(q) ==
  /\ At(q, "reset") /\ ~UserLocked(requests[q].user)
  /\ Goes(q, [requests[q] EXCEPT !.step = "swept",
                !.swept = { t \in TokenIds : tokens[t].user = requests[q].user /\ tokens[t].live }])
  /\ UNCHANGED <<users, resets, members, tokens, resetTokens, Organizations>>

CommitReset(q) ==
  /\ At(q, "swept")
  /\ resets' = [resets EXCEPT ![requests[q].user] = @ + 1]
  /\ resetTokens' = [resetTokens EXCEPT ![requests[q].row].used = TRUE]
  /\ tokens' = [t \in TokenIds |-> IF t \in requests[q].swept
                                   THEN [tokens[t] EXCEPT !.live = FALSE] ELSE tokens[t]]
  /\ Ends(q)
  /\ UNCHANGED <<users, members, Organizations>>

AuthRequest ==
  \/ \E q \in Requests :
       \/ \E e \in Emails : Signup(q, e) \/ Login(q, e)
       \/ \E t \in TokenIds : Refresh(q, t)
       \/ \E r \in ResetIds : ResetPassword(q, r)
  \/ \E e \in Emails : ForgotPassword(e)
  \/ \E t \in TokenIds : Logout(t)
AuthStep(q) ==
  \/ CommitSignup(q) \/ FindMembership(q) \/ CheckMembership(q) \/ RevokeOld(q)
  \/ IssueTokens(q) \/ SweepSessions(q) \/ CommitReset(q)

-----------------------------------------------------------------------------
(* Properties *)

(* Rotation (refresh()): a token that has been exchanged for another is revoked, *)
(* also when two refreshes exchange it at once or the process ends in between.   *)
ReplacedIsRevoked ==
  \A t \in TokenIds : tokens[t].from # 0 => ~tokens[tokens[t].from].live

(* resetPassword() signs out every session: a live token was issued to a request *)
(* that has checked its credentials since the last reset, or the reset was       *)
(* committed, or about to be, while that request was on its way.                 *)
ResetEndsSessions ==
  \A t \in TokenIds : tokens[t].live =>
    tokens[t].checked = resets[tokens[t].user] \/ tokens[t].late

=============================================================================
