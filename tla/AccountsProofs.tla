---------------------------- MODULE AccountsProofs ----------------------------
(***************************************************************************)
(* Theorems about module Accounts, for every number of users, requests,    *)
(* tokens and invitations, and any requests and failures.                  *)
(***************************************************************************)
EXTENDS Accounts, TLAPS

USE AccountsAssumption

(* What the rows of the tables are, and what a row that is in use has. *)
Tables ==
  /\ users \subseteq Emails /\ resets \in [Emails -> Nat]
  /\ members \in [Emails -> [Emails -> Membership]]
  /\ tokens \in [TokenIds -> RefreshToken]
  /\ resetTokens \in [ResetIds -> ResetToken]
  /\ invitations \in [InvitationIds -> Invitation]
  /\ links \in [Links -> [sent : BOOLEAN, uses : Nat]]
Members ==
  \A o, e \in Emails :
    /\ members[o][e].state # "none" => {o, e} \subseteq users
    /\ members[o][e].state = "active" => members[o][e].role \in Roles
Tokens ==
  /\ \A t \in TokenIds : tokens[t].user # None =>
       tokens[t].org \in Emails /\ tokens[t].role \in Roles
  /\ \A t \in TokenIds : tokens[t].live => tokens[t].user # None
  /\ \A r \in ResetIds : ~resetTokens[r].used => resetTokens[r].user # None
Invited ==
  \A i \in InvitationIds : invitations[i].status # "none" =>
    /\ invitations[i].org \in users /\ invitations[i].email \in Emails
    /\ invitations[i].role \in Roles /\ invitations[i].link \in Links

(* What a request has found when it waits for its next statement; known are the *)
(* accounts, issued the invitations there are.                                  *)
Full(r, known, issued) ==
  /\ r.step \in {"signup", "login", "refresh", "rotate", "issue", "reset", "swept"} => r.user \in Emails
  /\ r.step \in {"refresh", "rotate", "issue"} => r.org \in Emails
  /\ r.step \in {"refresh", "rotate"} => r.token \in TokenIds
  /\ r.step \in {"rotate", "issue", "role"} => r.role \in Roles
  /\ r.step \in {"reset", "swept"} => r.row \in ResetIds
  /\ r.step \in {"accept", "resend", "revoke"} => r.row \in issued
  /\ r.step \in {"role", "remove"} => r.user \in known /\ r.org \in known
Issued == { i \in InvitationIds : invitations[i].status # "none" }

Waiting == /\ requests \in [Requests -> Request] /\ budget \in [Kinds -> Nat]
           /\ \A q \in Requests : Full(requests[q], users, Issued)
TypeInv == Tables /\ Members /\ Tokens /\ Invited /\ Waiting

LEMMA IdleType == Idle \in Request /\ Idle.step = "idle"
BY DEF Idle, Request, Steps, NoInvitation, Invitation, Maybe

(* A request is sent or goes on, and the tables are as they should be afterwards. *)
LEMMA Goes1 ==
  ASSUME Waiting, NEW q \in Requests, NEW r \in Request,
         requests' = [requests EXCEPT ![q] = r], budget' \in [Kinds -> Nat],
         Full(r, users', Issued'), users \subseteq users', Issued \subseteq Issued'
  PROVE  Waiting'
<1>1. requests' \in [Requests -> Request]
  BY DEF Waiting
<1>2. \A p \in Requests : Full(requests'[p], users', Issued')
  <2>1. TAKE p \in Requests
  <2>2. CASE p = q
    BY <2>2 DEF Waiting
  <2>3. CASE p # q
    <3>1. requests'[p] = requests[p] /\ Full(requests[p], users, Issued)
      BY <2>3 DEF Waiting
    <3>2. QED
      BY <3>1 DEF Full
  <2>4. QED
    BY <2>2, <2>3
<1>3. QED
  BY <1>1, <1>2 DEF Waiting

LEMMA Spent == ASSUME budget \in [Kinds -> Nat], NEW k \in Kinds, Spend(k)
               PROVE  budget' \in [Kinds -> Nat]
BY DEF Spend

LEMMA InitTypes == Init => TypeInv
<1> SUFFICES ASSUME Init PROVE TypeInv
  OBVIOUS
<1>1. /\ NoToken \in RefreshToken /\ NoReset \in ResetToken /\ NoInvitation \in Invitation
      /\ NoMembership \in Membership
  BY DEF NoToken, NoReset, NoInvitation, NoMembership, RefreshToken, ResetToken, Invitation,
         Membership, Maybe
<1>2. Tables
  BY <1>1 DEF Init, Tables
<1>3. Members /\ Invited
  BY DEF Init, Members, Invited, NoMembership, NoInvitation
<1>4. Tokens
  BY DEF Init, Tokens, NoToken, NoReset
<1>5. requests \in [Requests -> Request] /\ budget \in [Kinds -> Nat]
  BY IdleType DEF Init
<1>6. ASSUME NEW q \in Requests PROVE Full(requests[q], users, Issued)
  BY IdleType DEF Init, Full
<1>7. QED
  BY <1>2, <1>3, <1>4, <1>5, <1>6 DEF TypeInv, Waiting

(* A step that leaves the tables alone only has to leave a request as it should be. *)
LEMMA Reads ==
  ASSUME TypeInv, NEW q \in Requests, NEW r \in Request,
         requests' = [requests EXCEPT ![q] = r], budget' \in [Kinds -> Nat],
         Full(r, users, Issued),
         UNCHANGED <<users, resets, members, tokens, resetTokens, invitations, links>>
  PROVE  TypeInv'
<1>1. Tables' /\ Members' /\ Tokens' /\ Invited' /\ users' = users /\ Issued' = Issued
  BY DEF TypeInv, Tables, Members, Tokens, Invited, Issued
<1>2. QED
  BY <1>1, Goes1 DEF TypeInv

LEMMA SignupTypes == ASSUME TypeInv, NEW q \in Requests, NEW e \in Emails, Signup(q, e)
                     PROVE  TypeInv'
<1> DEFINE r == [Idle EXCEPT !.step = "signup", !.user = e]
<1>1. r \in Request /\ Full(r, users, Issued)
  BY DEF Idle, Request, Steps, NoInvitation, Invitation, Maybe, Full
<1>2. requests' = [requests EXCEPT ![q] = r] /\ budget' \in [Kinds -> Nat]
  BY Spent DEF Signup, Start, TypeInv, Waiting, Kinds
<1> HIDE DEF r
<1>3. QED
  BY <1>1, <1>2, Reads DEF Signup, Organizations

LEMMA CommitSignupTypes == ASSUME TypeInv, NEW q \in Requests, CommitSignup(q) PROVE TypeInv'
<1> DEFINE e == requests[q].user
           r == [requests[q] EXCEPT !.step = "issue", !.org = e, !.role = "admin"]
<1>1. e \in Emails /\ requests[q] \in Request
  BY DEF CommitSignup, At, TypeInv, Waiting, Full
<1>2. r \in Request /\ r.step = "issue" /\ r.user = e /\ r.org = e /\ r.role \in Roles
  BY <1>1 DEF Request, Steps, Roles, Maybe
<1>3. Full(r, users', Issued')
  BY <1>1, <1>2 DEF Full
<1> HIDE DEF r
<1>4. CASE e \in users /\ Ends(q) /\ UNCHANGED <<users, members>>
  <2>1. Full(Idle, users, Issued)
    BY IdleType DEF Full
  <2>2. QED
    BY <1>4, <2>1, Reads, IdleType DEF CommitSignup, Ends, Goes, Organizations, TypeInv, Waiting
<1>5. CASE /\ users' = users \cup {e}
           /\ members' = [members EXCEPT ![e][e] = [state |-> "active", role |-> "admin"]]
           /\ Goes(q, r)
  <2>1. Tables'
    BY <1>1, <1>5 DEF TypeInv, Tables, CommitSignup, Organizations, Membership, Roles, Maybe
  <2>2. Members'
    BY <1>1, <1>5 DEF TypeInv, Tables, Members, Membership, Roles
  <2>3. Tokens' /\ Issued' = Issued /\ Invited'
    BY <1>1, <1>5 DEF TypeInv, Tokens, Invited, Issued, CommitSignup, Organizations
  <2>4. Waiting'
    BY <1>2, <1>3, <1>5, <2>3, Goes1 DEF TypeInv, Goes, Waiting
  <2>5. QED
    BY <2>1, <2>2, <2>3, <2>4 DEF TypeInv
<1>6. QED
  BY <1>4, <1>5 DEF CommitSignup, r, Roles

LEMMA LoginTypes == ASSUME TypeInv, NEW q \in Requests, NEW e \in Emails, Login(q, e)
                    PROVE  TypeInv'
<1> DEFINE r == [Idle EXCEPT !.step = "login", !.user = e, !.checked = resets[e]]
<1>1. r \in Request /\ Full(r, users, Issued)
  BY DEF Idle, Request, Steps, NoInvitation, Invitation, Maybe, Full, TypeInv, Tables
<1>2. requests' = [requests EXCEPT ![q] = r] /\ budget' \in [Kinds -> Nat]
  BY Spent DEF Login, Start, TypeInv, Waiting, Kinds
<1> HIDE DEF r
<1>3. QED
  BY <1>1, <1>2, Reads DEF Login, Organizations

LEMMA EndTypes ==
  ASSUME TypeInv, NEW q \in Requests, Ends(q),
         UNCHANGED <<users, resets, members, tokens, resetTokens, invitations, links>>
  PROVE  TypeInv'
<1>1. Full(Idle, users, Issued)
  BY IdleType DEF Full
<1>2. QED
  BY <1>1, Reads, IdleType DEF Ends, Goes, TypeInv, Waiting

LEMMA FindMembershipTypes == ASSUME TypeInv, NEW q \in Requests, FindMembership(q) PROVE TypeInv'
<1> DEFINE e == requests[q].user
<1>1. e \in Emails /\ requests[q] \in Request
  BY DEF FindMembership, At, TypeInv, Waiting, Full
<1>2. ASSUME NEW o \in Emails, Active(o, e),
             Goes(q, [requests[q] EXCEPT !.step = "issue", !.org = o, !.role = members[o][e].role])
      PROVE  TypeInv'
  <2> DEFINE r == [requests[q] EXCEPT !.step = "issue", !.org = o, !.role = members[o][e].role]
  <2>1. members[o][e].role \in Roles
    BY <1>1, <1>2 DEF Active, TypeInv, Members
  <2>2. r \in Request /\ r.step = "issue" /\ r.user = e /\ r.org = o /\ r.role \in Roles
    BY <1>1, <2>1 DEF Request, Steps, Maybe
  <2>3. Full(r, users, Issued)
    BY <1>1, <2>2 DEF Full
  <2> HIDE DEF r
  <2>4. requests' = [requests EXCEPT ![q] = r] /\ budget' = budget
    BY <1>2 DEF Goes, r
  <2>5. QED
    BY <2>2, <2>3, <2>4, Reads DEF FindMembership, Organizations, TypeInv, Waiting
<1>3. QED
  BY <1>2, EndTypes DEF FindMembership, Organizations

LEMMA RefreshTypes == ASSUME TypeInv, NEW q \in Requests, NEW t \in TokenIds, Refresh(q, t)
                      PROVE  TypeInv'
<1> DEFINE u == tokens[t].user
           o == tokens[t].org
           r == [Idle EXCEPT !.step = "refresh", !.user = u, !.org = o, !.token = t,
                             !.checked = resets[u]]
<1>1. u \in Emails /\ o \in Emails /\ resets[u] \in Nat
  BY DEF Refresh, TypeInv, Tables, Tokens, RefreshToken, Maybe
<1> HIDE DEF u, o
<1>2. r \in Request /\ Full(r, users, Issued)
  BY <1>1 DEF Idle, Request, Steps, NoInvitation, Invitation, Maybe, Full
<1>3. requests' = [requests EXCEPT ![q] = r] /\ budget' \in [Kinds -> Nat]
  BY Spent DEF Refresh, Start, TypeInv, Waiting, Kinds, u, o
<1> HIDE DEF r
<1>4. QED
  BY <1>2, <1>3, Reads DEF Refresh, Organizations

LEMMA CheckMembershipTypes == ASSUME TypeInv, NEW q \in Requests, CheckMembership(q) PROVE TypeInv'
<1> DEFINE e == requests[q].user
           o == requests[q].org
           r == [requests[q] EXCEPT !.step = "rotate", !.role = members[o][e].role]
<1>1. e \in Emails /\ o \in Emails /\ requests[q].token \in TokenIds /\ requests[q] \in Request
  BY DEF CheckMembership, At, TypeInv, Waiting, Full
<1>2. CASE Active(o, e) /\ Goes(q, r)
  <2>1. members[o][e].role \in Roles
    BY <1>1, <1>2 DEF Active, TypeInv, Members
  <2>2. /\ r \in Request /\ r.step = "rotate" /\ r.user = e /\ r.org = o /\ r.role \in Roles
        /\ r.token = requests[q].token
    BY <1>1, <2>1 DEF Request, Steps, Maybe
  <2>3. Full(r, users, Issued)
    BY <1>1, <2>2 DEF Full
  <2> HIDE DEF r
  <2>4. QED
    BY <1>2, <2>2, <2>3, Reads DEF CheckMembership, Goes, Organizations, TypeInv, Waiting
<1>3. QED
  BY <1>2, EndTypes DEF CheckMembership, Organizations

(* Tokens and resets may change as long as they stay as they should be. *)
LEMMA Rewrites ==
  ASSUME TypeInv, NEW q \in Requests, NEW r \in Request,
         requests' = [requests EXCEPT ![q] = r], budget' \in [Kinds -> Nat],
         Full(r, users, Issued),
         tokens' \in [TokenIds -> RefreshToken], resetTokens' \in [ResetIds -> ResetToken],
         resets' \in [Emails -> Nat], Tokens',
         UNCHANGED <<users, members, invitations, links>>
  PROVE  TypeInv'
<1>1. Tables' /\ Members' /\ Invited' /\ users' = users /\ Issued' = Issued
  BY DEF TypeInv, Tables, Members, Invited, Issued
<1>2. QED
  BY <1>1, Goes1 DEF TypeInv

(* Revoking a token, using up a reset. *)
LEMMA TokenRevoked ==
  ASSUME NEW x \in RefreshToken
  PROVE  LET y == [x EXCEPT !.live = FALSE] IN
         /\ y \in RefreshToken /\ y.user = x.user /\ y.org = x.org /\ y.role = x.role /\ ~y.live
         /\ y.from = x.from /\ y.checked = x.checked /\ y.late = x.late
BY DEF RefreshToken

LEMMA UsedUp ==
  ASSUME NEW x \in ResetToken
  PROVE  LET y == [x EXCEPT !.used = TRUE] IN y \in ResetToken /\ y.user = x.user /\ y.used
BY DEF ResetToken

(* Tokens that are only revoked stay as they should be. *)
LEMMA RevokedTokens ==
  ASSUME TypeInv, NEW w \in SUBSET TokenIds,
         tokens' = [t \in TokenIds |-> IF t \in w THEN [tokens[t] EXCEPT !.live = FALSE] ELSE tokens[t]],
         \A r \in ResetIds : /\ resetTokens'[r].user = resetTokens[r].user
                             /\ ~resetTokens'[r].used => ~resetTokens[r].used
  PROVE  tokens' \in [TokenIds -> RefreshToken] /\ Tokens'
<1>1. ASSUME NEW t \in TokenIds
      PROVE  /\ tokens'[t] \in RefreshToken
             /\ tokens'[t].user = tokens[t].user /\ tokens'[t].org = tokens[t].org
             /\ tokens'[t].role = tokens[t].role /\ (tokens'[t].live => tokens[t].live)
  <2>1. tokens[t] \in RefreshToken
    BY DEF TypeInv, Tables
  <2>2. QED
    BY <2>1, TokenRevoked
<1>2. tokens' \in [TokenIds -> RefreshToken]
  BY <1>1
<1>3. QED
  BY <1>1, <1>2 DEF TypeInv, Tokens

LEMMA RevokedOne ==
  ASSUME TypeInv, NEW t \in TokenIds, tokens' = [tokens EXCEPT ![t].live = FALSE],
         UNCHANGED resetTokens
  PROVE  tokens' \in [TokenIds -> RefreshToken] /\ Tokens'
<1>1. tokens \in [TokenIds -> RefreshToken]
  BY DEF TypeInv, Tables
<1>2. tokens' = [s \in TokenIds |-> IF s \in {t} THEN [tokens[s] EXCEPT !.live = FALSE] ELSE tokens[s]]
  BY <1>1
<1>3. QED
  BY <1>2, RevokedTokens

LEMMA RevokeOldTypes == ASSUME TypeInv, NEW q \in Requests, RevokeOld(q) PROVE TypeInv'
<1> DEFINE r == [requests[q] EXCEPT !.step = "issue"]
           t == requests[q].token
<1>1. /\ requests[q].user \in Emails /\ requests[q].org \in Emails /\ t \in TokenIds
      /\ requests[q].role \in Roles /\ requests[q] \in Request
  BY DEF RevokeOld, At, TypeInv, Waiting, Full
<1>2. /\ r \in Request /\ r.step = "issue" /\ r.user = requests[q].user
      /\ r.org = requests[q].org /\ r.role = requests[q].role
  BY <1>1 DEF Request, Steps
<1>3. Full(r, users, Issued)
  BY <1>1, <1>2 DEF Full
<1>4. tokens' = [tokens EXCEPT ![t].live = FALSE]
  BY DEF RevokeOld
<1>5. tokens' \in [TokenIds -> RefreshToken] /\ Tokens'
  BY <1>1, <1>4, RevokedOne DEF RevokeOld
<1>6. requests' = [requests EXCEPT ![q] = r] /\ budget' = budget
  BY DEF RevokeOld, Goes
<1> HIDE DEF r
<1>7. QED
  BY <1>2, <1>3, <1>5, <1>6, Rewrites DEF RevokeOld, Organizations, TypeInv, Tables, Waiting

LEMMA NewTokenType == ASSUME TypeInv, NEW q \in Requests, At(q, "issue")
                      PROVE  /\ NewToken(q) \in RefreshToken
                             /\ NewToken(q).user \in Emails /\ NewToken(q).org \in Emails
                             /\ NewToken(q).role \in Roles
<1>1. /\ requests[q].user \in Emails /\ requests[q].org \in Emails /\ requests[q].role \in Roles
      /\ requests[q].token \in TokenIds \cup {0} /\ requests[q].checked \in Nat
  BY DEF At, TypeInv, Waiting, Full, Request
<1>2. UserLocked(requests[q].user) \in BOOLEAN
  BY DEF UserLocked
<1>3. QED
  BY <1>1, <1>2 DEF NewToken, RefreshToken, Maybe

LEMMA IssueTokensTypes == ASSUME TypeInv, NEW q \in Requests, IssueTokens(q) PROVE TypeInv'
<1>1. PICK t \in TokenIds : tokens' = [tokens EXCEPT ![t] = NewToken(q)]
  BY DEF IssueTokens
<1>2. /\ NewToken(q) \in RefreshToken /\ NewToken(q).user \in Emails
      /\ NewToken(q).org \in Emails /\ NewToken(q).role \in Roles
  BY NewTokenType DEF IssueTokens
<1>3. tokens' \in [TokenIds -> RefreshToken] /\ Tokens'
  BY <1>1, <1>2 DEF TypeInv, Tables, Tokens, IssueTokens
<1>4. Full(Idle, users, Issued) /\ requests' = [requests EXCEPT ![q] = Idle] /\ budget' = budget
  BY IdleType DEF Full, IssueTokens, Ends, Goes
<1>5. QED
  BY <1>3, <1>4, IdleType, Rewrites DEF IssueTokens, Organizations, TypeInv, Tables, Waiting

LEMMA LogoutTypes == ASSUME TypeInv, NEW t \in TokenIds, Logout(t) PROVE TypeInv'
<1>1. tokens' = [tokens EXCEPT ![t].live = FALSE]
  BY DEF Logout
<1>2. tokens' \in [TokenIds -> RefreshToken] /\ Tokens'
  BY <1>1, RevokedOne DEF Logout
<1>3. budget' \in [Kinds -> Nat]
  BY Spent DEF Logout, TypeInv, Waiting, Kinds
<1>4. QED
  BY <1>2, <1>3 DEF Logout, TypeInv, Tables, Members, Invited, Waiting, Issued, Organizations

LEMMA ForgotPasswordTypes == ASSUME TypeInv, NEW e \in Emails, ForgotPassword(e) PROVE TypeInv'
<1>1. PICK r \in ResetIds : resetTokens' = [resetTokens EXCEPT ![r] = [user |-> e, used |-> FALSE]]
  BY DEF ForgotPassword
<1>2. resetTokens' \in [ResetIds -> ResetToken] /\ Tokens'
  BY <1>1 DEF TypeInv, Tables, Tokens, ResetToken, ForgotPassword, Maybe
<1>3. budget' \in [Kinds -> Nat]
  BY Spent DEF ForgotPassword, TypeInv, Waiting, Kinds
<1>4. QED
  BY <1>2, <1>3 DEF ForgotPassword, TypeInv, Tables, Members, Invited, Waiting, Issued, Organizations

LEMMA ResetPasswordTypes == ASSUME TypeInv, NEW q \in Requests, NEW i \in ResetIds, ResetPassword(q, i)
                            PROVE  TypeInv'
<1> DEFINE u == resetTokens[i].user
           r == [Idle EXCEPT !.step = "reset", !.user = u, !.row = i]
<1>1. u \in Emails
  BY DEF ResetPassword, TypeInv, Tables, Tokens, ResetToken, Maybe
<1> HIDE DEF u
<1>2. r \in Request /\ Full(r, users, Issued)
  BY <1>1 DEF Idle, Request, Steps, NoInvitation, Invitation, Maybe, Full
<1>3. requests' = [requests EXCEPT ![q] = r] /\ budget' \in [Kinds -> Nat]
  BY Spent DEF ResetPassword, Start, TypeInv, Waiting, Kinds, u
<1> HIDE DEF r
<1>4. QED
  BY <1>2, <1>3, Reads DEF ResetPassword, Organizations

LEMMA SweepSessionsTypes == ASSUME TypeInv, NEW q \in Requests, SweepSessions(q) PROVE TypeInv'
<1> DEFINE w == { t \in TokenIds : tokens[t].user = requests[q].user /\ tokens[t].live }
           r == [requests[q] EXCEPT !.step = "swept", !.swept = w]
<1>1. requests[q].user \in Emails /\ requests[q].row \in ResetIds /\ requests[q] \in Request
  BY DEF SweepSessions, At, TypeInv, Waiting, Full
<1>2. w \in SUBSET TokenIds
  OBVIOUS
<1>3. requests' = [requests EXCEPT ![q] = r] /\ budget' = budget
  BY DEF SweepSessions, Goes
<1> HIDE DEF w
<1>4. r \in Request /\ r.step = "swept" /\ r.user = requests[q].user /\ r.row = requests[q].row
  BY <1>1, <1>2 DEF Request, Steps
<1>5. Full(r, users, Issued)
  BY <1>1, <1>4 DEF Full
<1> HIDE DEF r
<1>6. QED
  BY <1>3, <1>4, <1>5, Reads DEF SweepSessions, Organizations, TypeInv, Waiting

LEMMA CommitResetTypes == ASSUME TypeInv, NEW q \in Requests, CommitReset(q) PROVE TypeInv'
<1> DEFINE u == requests[q].user
           i == requests[q].row
           w == requests[q].swept
<1>1. u \in Emails /\ i \in ResetIds
  BY DEF CommitReset, At, TypeInv, Waiting, Full
<1>2. /\ resets' = [resets EXCEPT ![u] = @ + 1]
      /\ resetTokens' = [resetTokens EXCEPT ![i].used = TRUE]
      /\ tokens' = [t \in TokenIds |-> IF t \in w THEN [tokens[t] EXCEPT !.live = FALSE] ELSE tokens[t]]
      /\ requests' = [requests EXCEPT ![q] = Idle] /\ budget' = budget
  BY DEF CommitReset, Ends, Goes
<1> HIDE DEF u, i, w
<1>3. resets' \in [Emails -> Nat]
  BY <1>1, <1>2 DEF TypeInv, Tables
<1>4. ASSUME NEW r \in ResetIds
      PROVE  /\ resetTokens'[r] \in ResetToken /\ resetTokens'[r].user = resetTokens[r].user
             /\ ~resetTokens'[r].used => ~resetTokens[r].used
  <2>1. resetTokens[r] \in ResetToken /\ resetTokens \in [ResetIds -> ResetToken]
    BY DEF TypeInv, Tables
  <2>2. CASE r = i
    BY <1>1, <1>2, <2>1, <2>2, UsedUp
  <2>3. CASE r # i
    BY <1>1, <1>2, <2>1, <2>3
  <2>4. QED
    BY <2>2, <2>3
<1>5. resetTokens' \in [ResetIds -> ResetToken]
  BY <1>1, <1>2, <1>4 DEF TypeInv, Tables
<1>6. w \in SUBSET TokenIds
  BY DEF TypeInv, Waiting, Request, w
<1>8. tokens' \in [TokenIds -> RefreshToken] /\ Tokens'
  BY <1>2, <1>4, <1>6, RevokedTokens
<1>9. Full(Idle, users, Issued)
  BY IdleType DEF Full
<1>10. QED
  BY <1>2, <1>3, <1>5, <1>8, <1>9, IdleType, Rewrites
  DEF CommitReset, Organizations, TypeInv, Waiting

-----------------------------------------------------------------------------
(* Invitations, links and members *)

LEMMA SentLink == ASSUME TypeInv, NEW l \in Links, SendLink(l)
                  PROVE  links' \in [Links -> [sent : BOOLEAN, uses : Nat]]
<1>1. links \in [Links -> [sent : BOOLEAN, uses : Nat]]
  BY DEF TypeInv, Tables
<1>2. ASSUME NEW k \in Links PROVE links'[k] \in [sent : BOOLEAN, uses : Nat]
  BY <1>1 DEF SendLink
<1>3. QED
  BY <1>1, <1>2 DEF SendLink

LEMMA InviteTypes ==
  ASSUME TypeInv, NEW u \in Emails, NEW o \in Emails, NEW e \in Emails, NEW role \in Roles,
         Invite(u, o, e, role)
  PROVE  TypeInv'
<1> PICK i \in InvitationIds, l \in Links :
       /\ SendLink(l)
       /\ invitations' = [invitations EXCEPT ![i] =
            [org |-> o, email |-> e, role |-> role, status |-> "pending",
             accepted |-> FALSE, revoked |-> FALSE, link |-> l]]
  BY DEF Invite
<1> DEFINE inv == [org |-> o, email |-> e, role |-> role, status |-> "pending",
                   accepted |-> FALSE, revoked |-> FALSE, link |-> l]
<1>1. inv \in Invitation /\ inv.org = o /\ inv.email = e /\ inv.role = role
      /\ inv.status # "none" /\ inv.link = l
  BY DEF Invitation, Maybe
<1>2. o \in users
  BY DEF Invite, Authorized, Active, TypeInv, Members
<1>3. invitations' = [invitations EXCEPT ![i] = inv]
  OBVIOUS
<1> HIDE DEF inv
<1>4. Tables'
  <2>1. links' \in [Links -> [sent : BOOLEAN, uses : Nat]]
    BY SentLink
  <2>2. invitations' \in [InvitationIds -> Invitation]
    BY <1>1, <1>3 DEF TypeInv, Tables
  <2>3. QED
    BY <2>1, <2>2 DEF TypeInv, Tables, Invite, Authentication
<1>5. Members' /\ Tokens'
  BY DEF TypeInv, Members, Tokens, Invite, Authentication
<1>6. Invited' /\ Issued \subseteq Issued'
  BY <1>1, <1>2, <1>3 DEF TypeInv, Tables, Invited, Issued, Invite
<1>7. budget' \in [Kinds -> Nat]
  BY Spent DEF Invite, TypeInv, Waiting, Kinds
<1>8. Waiting'
  <2>1. ASSUME NEW q \in Requests PROVE Full(requests[q], users, Issued')
    BY <1>6 DEF TypeInv, Waiting, Full
  <2>2. QED
    BY <1>7, <2>1 DEF TypeInv, Waiting, Invite
<1>9. QED
  BY <1>4, <1>5, <1>6, <1>8 DEF TypeInv

LEMMA StartAcceptTypes ==
  ASSUME TypeInv, NEW q \in Requests, NEW i \in InvitationIds, StartAccept(q, i)
  PROVE  TypeInv'
<1> DEFINE u == IF invitations[i].email \in users THEN invitations[i].email ELSE None
           r == [Idle EXCEPT !.step = "accept", !.row = i, !.user = u]
<1>1. i \in Issued /\ u \in Maybe(Emails)
  BY DEF StartAccept, Usable, Issued, TypeInv, Invited, Maybe
<1> HIDE DEF u
<1>2. r \in Request /\ Full(r, users, Issued)
  BY <1>1 DEF Idle, Request, Steps, NoInvitation, Invitation, Maybe, Full
<1>3. requests' = [requests EXCEPT ![q] = r] /\ budget' \in [Kinds -> Nat]
  BY Spent DEF StartAccept, Start, Acceptance, TypeInv, Waiting, Kinds, u
<1> HIDE DEF r
<1>4. QED
  BY <1>2, <1>3, Reads DEF StartAccept, Authentication

LEMMA AcceptedRow ==
  ASSUME NEW inv \in Invitation
  PROVE  LET new == [inv EXCEPT !.status = "accepted", !.accepted = TRUE] IN
         /\ new \in Invitation /\ new.status = "accepted" /\ new.accepted /\ new.link = inv.link
         /\ new.org = inv.org /\ new.email = inv.email /\ new.role = inv.role
         /\ new.revoked = inv.revoked
BY DEF Invitation

LEMMA CommitAcceptTypes == ASSUME TypeInv, NEW q \in Requests, CommitAccept(q) PROVE TypeInv'
<1> DEFINE i == requests[q].row
           inv == invitations[i]
           new == [inv EXCEPT !.status = "accepted", !.accepted = TRUE]
<1>1. /\ i \in InvitationIds /\ inv \in Invitation /\ inv.status # "none" /\ inv.org \in users
      /\ inv.email \in Emails /\ inv.role \in Roles /\ inv.link \in Links
  BY DEF CommitAccept, At, TypeInv, Tables, Waiting, Full, Issued, Invited
<1>2. CASE Conflict(q) /\ UNCHANGED <<users, members, invitations, links>>
  BY <1>2, EndTypes DEF CommitAccept, Authentication
<1>3. CASE ~Conflict(q)
  <2>1. /\ users' = users \cup {inv.email}
        /\ members' = [members EXCEPT ![inv.org][inv.email] = [state |-> "active", role |-> inv.role]]
        /\ invitations' = [invitations EXCEPT ![i] = new]
        /\ links' = [links EXCEPT ![inv.link].uses = @ + 1]
        /\ requests' = [requests EXCEPT ![q] = Idle] /\ budget' = budget
        /\ UNCHANGED <<resets, tokens, resetTokens>>
    BY <1>1, <1>3 DEF CommitAccept, Ends, Goes, Authentication
  <2>2. /\ new \in Invitation /\ new.status = "accepted" /\ new.link = inv.link
        /\ new.org = inv.org /\ new.email = inv.email /\ new.role = inv.role
    BY <1>1, AcceptedRow
  <2> HIDE DEF new, i, inv
  <2>3. /\ users \subseteq Emails /\ members \in [Emails -> [Emails -> Membership]]
        /\ links \in [Links -> [sent : BOOLEAN, uses : Nat]]
        /\ invitations \in [InvitationIds -> Invitation]
    BY DEF TypeInv, Tables
  <2>4. [state |-> "active", role |-> inv.role] \in Membership
    BY <1>1 DEF Membership, Maybe
  <2>5. members' \in [Emails -> [Emails -> Membership]]
    BY <1>1, <2>1, <2>3, <2>4
  <2>6. [links[inv.link] EXCEPT !.uses = @ + 1] \in [sent : BOOLEAN, uses : Nat]
    BY <1>1, <2>3
  <2>7. links' \in [Links -> [sent : BOOLEAN, uses : Nat]]
    BY <1>1, <2>1, <2>3, <2>6
  <2>8. Tables'
    BY <1>1, <2>1, <2>2, <2>5, <2>7 DEF TypeInv, Tables
  <2>9. Members'
    BY <1>1, <2>1, <2>3 DEF TypeInv, Members
  <2>10. Tokens'
    BY <2>1 DEF TypeInv, Tokens
  <2>11. Invited' /\ Issued \subseteq Issued'
    BY <1>1, <2>1, <2>2, <2>3 DEF TypeInv, Invited, Issued
  <2>12. Full(Idle, users', Issued')
    BY IdleType DEF Full
  <2>13. Waiting'
    BY <2>1, <2>11, <2>12, IdleType, Goes1 DEF TypeInv, Waiting
  <2>14. QED
    BY <2>8, <2>9, <2>10, <2>11, <2>13 DEF TypeInv
<1>4. QED
  BY <1>2, <1>3 DEF CommitAccept

LEMMA EditTypes ==
  ASSUME TypeInv, NEW q \in Requests, NEW u \in Emails, NEW i \in InvitationIds,
         NEW kind \in {"resend", "revoke"}, Edit(q, u, i, kind)
  PROVE  TypeInv'
<1> DEFINE v == invitations[i]
           r == [Idle EXCEPT !.step = kind, !.row = i, !.seen = v]
<1>1. i \in Issued /\ v \in Invitation
  BY DEF Edit, Issued, TypeInv, Tables
<1> HIDE DEF v
<1>2. r \in Request /\ Full(r, users, Issued)
  BY <1>1 DEF Idle, Request, Steps, Maybe, Full
<1>3. requests' = [requests EXCEPT ![q] = r] /\ budget' \in [Kinds -> Nat]
  BY Spent DEF Edit, Start, TypeInv, Waiting, Kinds, v
<1> HIDE DEF r
<1>4. QED
  BY <1>2, <1>3, Reads DEF Edit, Authentication

(* A row that is resent or revoked keeps its organization, email and role. *)
LEMMA Rewritten ==
  ASSUME TypeInv, NEW q \in Requests, NEW i \in Issued, NEW new \in Invitation,
         new.status # "none", new.org = invitations[i].org, new.email = invitations[i].email,
         new.role = invitations[i].role, new.link \in Links,
         invitations' = [invitations EXCEPT ![i] = new],
         links' \in [Links -> [sent : BOOLEAN, uses : Nat]], Ends(q),
         UNCHANGED <<users, resets, members, tokens, resetTokens>>
  PROVE  TypeInv'
<1>1. i \in InvitationIds /\ invitations[i].org \in users /\ invitations[i].email \in Emails
      /\ invitations[i].role \in Roles
  BY DEF Issued, TypeInv, Invited
<1>2. Tables'
  BY <1>1 DEF TypeInv, Tables
<1>3. Members' /\ Tokens'
  BY DEF TypeInv, Members, Tokens
<1>4. Invited' /\ Issued \subseteq Issued'
  BY <1>1 DEF TypeInv, Tables, Invited, Issued
<1>5. Full(Idle, users', Issued')
  BY IdleType DEF Full
<1>6. Waiting'
  BY <1>4, <1>5, IdleType, Goes1 DEF TypeInv, Waiting, Ends, Goes
<1>7. QED
  BY <1>2, <1>3, <1>4, <1>6 DEF TypeInv

LEMMA ResentRow ==
  ASSUME NEW inv \in Invitation, NEW seen \in Invitation, NEW l \in Links, inv.status # "none"
  PROVE  LET new == Resent(inv, seen, l) IN
         /\ new \in Invitation /\ new.status # "none" /\ new.link = l
         /\ new.org = inv.org /\ new.email = inv.email /\ new.role = inv.role
<1> DEFINE status == Column(seen.status, "pending", inv.status)
           revoked == Column(seen.revoked, FALSE, inv.revoked)
           accepted == Column(seen.accepted, FALSE, inv.accepted)
           new == [inv EXCEPT !.link = l, !.status = status, !.revoked = revoked, !.accepted = accepted]
<1>1. status \in {"pending", "accepted", "revoked"} /\ revoked \in BOOLEAN /\ accepted \in BOOLEAN
  BY DEF Column, Invitation
<1>2. Resent(inv, seen, l) = new
  BY DEF Resent
<1> HIDE DEF status, revoked, accepted
<1>3. /\ new \in Invitation /\ new.status # "none" /\ new.link = l
      /\ new.org = inv.org /\ new.email = inv.email /\ new.role = inv.role
  BY <1>1 DEF Invitation
<1>4. QED
  BY <1>2, <1>3

LEMMA RevokedRow ==
  ASSUME NEW inv \in Invitation, NEW seen \in Invitation, inv.status # "none"
  PROVE  LET new == Revoked(inv, seen) IN
         /\ new \in Invitation /\ new.status # "none" /\ new.link = inv.link
         /\ new.accepted = inv.accepted
         /\ new.org = inv.org /\ new.email = inv.email /\ new.role = inv.role
<1> DEFINE status == Column(seen.status, "revoked", inv.status)
           new == [inv EXCEPT !.revoked = TRUE, !.status = status]
<1>1. status \in {"pending", "accepted", "revoked"}
  BY DEF Column, Invitation
<1>2. Revoked(inv, seen) = new
  BY DEF Revoked
<1> HIDE DEF status
<1>3. /\ new \in Invitation /\ new.status # "none" /\ new.link = inv.link
      /\ new.accepted = inv.accepted
      /\ new.org = inv.org /\ new.email = inv.email /\ new.role = inv.role
  BY <1>1 DEF Invitation
<1>4. QED
  BY <1>2, <1>3

LEMMA FinishResendTypes == ASSUME TypeInv, NEW q \in Requests, FinishResend(q) PROVE TypeInv'
<1> DEFINE i == requests[q].row
           seen == requests[q].seen
<1>1. PICK l \in Links : SendLink(l) /\ invitations' = [invitations EXCEPT ![i] = Resent(@, seen, l)]
  BY DEF FinishResend
<1> DEFINE new == Resent(invitations[i], seen, l)
<1>2. /\ i \in Issued /\ invitations[i] \in Invitation /\ invitations[i].status # "none"
      /\ seen \in Invitation
  BY DEF FinishResend, At, TypeInv, Tables, Waiting, Full, Issued, Request
<1>3. invitations' = [invitations EXCEPT ![i] = new]
  BY <1>1
<1>4. links' \in [Links -> [sent : BOOLEAN, uses : Nat]]
  BY <1>1, SentLink
<1>5. /\ new \in Invitation /\ new.status # "none" /\ new.org = invitations[i].org
      /\ new.email = invitations[i].email /\ new.role = invitations[i].role /\ new.link \in Links
  BY <1>2, ResentRow
<1> HIDE DEF new
<1>6. QED
  BY <1>2, <1>3, <1>4, <1>5, Rewritten DEF FinishResend, Authentication

LEMMA FinishRevokeTypes == ASSUME TypeInv, NEW q \in Requests, FinishRevoke(q) PROVE TypeInv'
<1> DEFINE i == requests[q].row
           new == Revoked(invitations[i], requests[q].seen)
<1>1. /\ i \in Issued /\ invitations[i] \in Invitation /\ invitations[i].status # "none"
      /\ invitations[i].link \in Links /\ requests[q].seen \in Invitation
  BY DEF FinishRevoke, At, TypeInv, Tables, Waiting, Full, Issued, Invited, Request
<1>2. invitations' = [invitations EXCEPT ![i] = new]
  BY DEF FinishRevoke
<1>3. links' \in [Links -> [sent : BOOLEAN, uses : Nat]]
  BY DEF FinishRevoke, TypeInv, Tables
<1>4. /\ new \in Invitation /\ new.status # "none" /\ new.org = invitations[i].org
      /\ new.email = invitations[i].email /\ new.role = invitations[i].role /\ new.link \in Links
  BY <1>1, RevokedRow
<1> HIDE DEF new
<1>5. QED
  BY <1>1, <1>2, <1>3, <1>4, Rewritten DEF FinishRevoke, Authentication

LEMMA StartRoleTypes ==
  ASSUME TypeInv, NEW q \in Requests, NEW u \in Emails, NEW o \in Emails, NEW e \in Emails,
         NEW role \in Roles, StartRole(q, u, o, e, role)
  PROVE  TypeInv'
<1> DEFINE r == [Idle EXCEPT !.step = "role", !.user = e, !.org = o, !.role = role]
<1>1. e \in users /\ o \in users
  BY DEF StartRole, Active, TypeInv, Members
<1>2. r \in Request /\ Full(r, users, Issued)
  BY <1>1 DEF Idle, Request, Steps, NoInvitation, Invitation, Maybe, Full
<1>3. requests' = [requests EXCEPT ![q] = r] /\ budget' \in [Kinds -> Nat]
  BY Spent DEF StartRole, Start, TypeInv, Waiting, Kinds
<1> HIDE DEF r
<1>4. QED
  BY <1>2, <1>3, Reads DEF StartRole, Authentication

LEMMA StartRemoveTypes ==
  ASSUME TypeInv, NEW q \in Requests, NEW u \in Emails, NEW o \in Emails, NEW e \in Emails,
         StartRemove(q, u, o, e)
  PROVE  TypeInv'
<1> DEFINE r == [Idle EXCEPT !.step = "remove", !.user = e, !.org = o]
<1>1. e \in users /\ o \in users
  BY DEF StartRemove, Active, TypeInv, Members
<1>2. r \in Request /\ Full(r, users, Issued)
  BY <1>1 DEF Idle, Request, Steps, NoInvitation, Invitation, Maybe, Full
<1>3. requests' = [requests EXCEPT ![q] = r] /\ budget' \in [Kinds -> Nat]
  BY Spent DEF StartRemove, Start, TypeInv, Waiting, Kinds
<1> HIDE DEF r
<1>4. QED
  BY <1>2, <1>3, Reads DEF StartRemove, Authentication

(* A membership row of a user and an organization that exist. *)
LEMMA Remembered ==
  ASSUME TypeInv, NEW q \in Requests, NEW o \in users, NEW e \in users, NEW new \in Membership,
         new.state = "active" => new.role \in Roles,
         members' = [members EXCEPT ![o][e] = new], Ends(q),
         UNCHANGED <<users, resets, tokens, resetTokens, invitations, links>>
  PROVE  TypeInv'
<1>1. Tables' /\ Members'
  BY DEF TypeInv, Tables, Members
<1>2. Tokens' /\ Invited' /\ Issued' = Issued
  BY DEF TypeInv, Tokens, Invited, Issued
<1>3. Full(Idle, users', Issued')
  BY IdleType DEF Full
<1>4. Waiting'
  BY <1>2, <1>3, IdleType, Goes1 DEF TypeInv, Waiting, Ends, Goes
<1>5. QED
  BY <1>1, <1>2, <1>4 DEF TypeInv

LEMMA FinishRoleTypes == ASSUME TypeInv, NEW q \in Requests, FinishRole(q) PROVE TypeInv'
<1> DEFINE o == requests[q].org
           e == requests[q].user
           old == members[o][e]
           new == [old EXCEPT !.role = requests[q].role]
<1>1. o \in users /\ e \in users /\ requests[q].role \in Roles /\ users \subseteq Emails
  BY DEF FinishRole, At, TypeInv, Tables, Waiting, Full
<1>2. old \in Membership
  BY <1>1 DEF TypeInv, Tables
<1>3. members' = [members EXCEPT ![o][e] = new]
  BY <1>1 DEF FinishRole, TypeInv, Tables
<1> HIDE DEF old
<1>4. new \in Membership /\ new.role \in Roles
  BY <1>1, <1>2 DEF Membership, Maybe
<1> HIDE DEF new
<1>5. QED
  BY <1>1, <1>3, <1>4, Remembered DEF FinishRole, Authentication

LEMMA FinishRemoveTypes == ASSUME TypeInv, NEW q \in Requests, FinishRemove(q) PROVE TypeInv'
<1> DEFINE o == requests[q].org
           e == requests[q].user
           old == members[o][e]
           new == [old EXCEPT !.state = "removed"]
<1>1. o \in users /\ e \in users /\ users \subseteq Emails
  BY DEF FinishRemove, At, TypeInv, Tables, Waiting, Full
<1>2. old \in Membership
  BY <1>1 DEF TypeInv, Tables
<1>3. members' = [members EXCEPT ![o][e] = new]
  BY <1>1 DEF FinishRemove, TypeInv, Tables
<1> HIDE DEF old
<1>4. new \in Membership /\ new.state = "removed"
  BY <1>2 DEF Membership
<1> HIDE DEF new
<1>5. QED
  BY <1>1, <1>3, <1>4, Remembered DEF FinishRemove, Authentication

(* A fault ends one request or all. *)
LEMMA FaultTypes ==
  ASSUME TypeInv, Crash \/ \E q \in Requests : StatementFails(q)
  PROVE  TypeInv'
<1>1. /\ \A p \in Requests : requests'[p] = requests[p] \/ requests'[p] = Idle
      /\ requests' \in [Requests -> Request]
      /\ UNCHANGED <<users, resets, members, tokens, resetTokens, invitations, links>>
  BY IdleType DEF Crash, StatementFails, TypeInv, Waiting
<1>2. budget' \in [Kinds -> Nat]
  BY Spent DEF Crash, StatementFails, TypeInv, Waiting, Kinds
<1>3. Tables' /\ Members' /\ Tokens' /\ Invited' /\ users' = users /\ Issued' = Issued
  BY <1>1 DEF TypeInv, Tables, Members, Tokens, Invited, Issued
<1>4. Full(Idle, users, Issued)
  BY IdleType DEF Full
<1>5. \A p \in Requests : Full(requests'[p], users', Issued')
  BY <1>1, <1>3, <1>4 DEF TypeInv, Waiting
<1>6. QED
  BY <1>1, <1>2, <1>3, <1>5 DEF TypeInv, Waiting

LEMMA StepTypes == TypeInv /\ [Next]_vars => TypeInv'
<1> SUFFICES ASSUME TypeInv, [Next]_vars PROVE TypeInv'
  OBVIOUS
<1>1. CASE AuthRequest
  BY <1>1, SignupTypes, LoginTypes, RefreshTypes, ResetPasswordTypes, ForgotPasswordTypes,
     LogoutTypes DEF AuthRequest
<1>2. CASE SettingsRequest
  BY <1>2, InviteTypes, StartAcceptTypes, EditTypes, StartRoleTypes, StartRemoveTypes
  DEF SettingsRequest, StartResend, StartRevoke
<1>3. ASSUME NEW q \in Requests, AuthStep(q) PROVE TypeInv'
  BY <1>3, CommitSignupTypes, FindMembershipTypes, CheckMembershipTypes, RevokeOldTypes,
     IssueTokensTypes, SweepSessionsTypes, CommitResetTypes DEF AuthStep
<1>4. ASSUME NEW q \in Requests, SettingsStep(q) PROVE TypeInv'
  BY <1>4, CommitAcceptTypes, FinishResendTypes, FinishRevokeTypes, FinishRoleTypes,
     FinishRemoveTypes DEF SettingsStep
<1>5. CASE Crash \/ \E q \in Requests : StatementFails(q)
  BY <1>5, FaultTypes
<1>6. CASE UNCHANGED vars
  BY <1>6 DEF vars, TypeInv, Tables, Members, Tokens, Invited, Waiting, Issued
<1>7. QED
  BY <1>1, <1>2, <1>3, <1>4, <1>5, <1>6 DEF Next

LEMMA TypesHold == Spec => []TypeInv
BY InitTypes, StepTypes, PTL DEF Spec

(* TypeOK: rows and requests have their types, and whoever is a member of an      *)
(* organization has an account, and so has its founder.                           *)
THEOREM AccountsTyped == Spec => []TypeOK
<1>1. TypeInv => TypeOK
  BY DEF TypeInv, Tables, Members, Waiting, TypeOK
<1>2. QED
  BY <1>1, TypesHold, PTL

-----------------------------------------------------------------------------
(* Refresh tokens *)

(* A request that will issue a token in the place of another has revoked that. *)
HeldBy(r, rows) ==
  /\ r.step = "issue" /\ r.token # 0 => ~rows[r.token].live /\ rows[r.token].user # None
  /\ r.step \in {"refresh", "rotate"} => rows[r.token].user # None
  /\ r.step \in {"signup", "login"} => r.token = 0
RotationInv ==
  /\ ReplacedIsRevoked
  /\ \A t \in TokenIds : tokens[t].from # 0 => tokens[tokens[t].from].user # None
  /\ \A q \in Requests : HeldBy(requests[q], tokens)

(* No step but IssueTokens makes a token of a row that was none, or a live one. *)
LEMMA TokensStay ==
  ASSUME TypeInv, [Next]_vars
  PROVE  \/ \E q \in Requests : IssueTokens(q)
         \/ \A t \in TokenIds : /\ tokens'[t].user = tokens[t].user /\ tokens'[t].from = tokens[t].from
                                 /\ tokens'[t].checked = tokens[t].checked
                                 /\ tokens'[t].late = tokens[t].late
                                 /\ (tokens'[t].live => tokens[t].live)
<1> DEFINE Stay == \A t \in TokenIds :
             /\ tokens'[t].user = tokens[t].user /\ tokens'[t].from = tokens[t].from
             /\ tokens'[t].checked = tokens[t].checked /\ tokens'[t].late = tokens[t].late
             /\ (tokens'[t].live => tokens[t].live)
<1>1. ASSUME NEW s \in TokenIds, tokens' = [tokens EXCEPT ![s].live = FALSE] PROVE Stay
  BY <1>1, TokenRevoked DEF TypeInv, Tables
<1>2. ASSUME NEW q \in Requests, CommitReset(q) PROVE Stay
  BY <1>2, TokenRevoked DEF CommitReset, TypeInv, Tables
<1>3. ASSUME NEW q \in Requests, RevokeOld(q) PROVE Stay
  <2>1. requests[q].token \in TokenIds
    BY <1>3 DEF RevokeOld, At, TypeInv, Waiting, Full
  <2>2. QED
    BY <1>1, <1>3, <2>1 DEF RevokeOld
<1>4. ASSUME NEW t \in TokenIds, Logout(t) PROVE Stay
  BY <1>1, <1>4 DEF Logout
<1>5. CASE UNCHANGED tokens
  BY <1>5
<1>6. \/ UNCHANGED tokens \/ (\E t \in TokenIds : Logout(t))
      \/ \E q \in Requests : IssueTokens(q) \/ RevokeOld(q) \/ CommitReset(q)
  <2>1. CASE AuthRequest
    BY <2>1 DEF AuthRequest, Signup, Login, Refresh, ResetPassword, ForgotPassword
  <2>2. CASE SettingsRequest
    BY <2>2 DEF SettingsRequest, Invite, StartAccept, StartResend, StartRevoke, Edit, StartRole,
                StartRemove, Authentication
  <2>3. ASSUME NEW q \in Requests, AuthStep(q)
        PROVE  UNCHANGED tokens \/ IssueTokens(q) \/ RevokeOld(q) \/ CommitReset(q)
    BY <2>3 DEF AuthStep, CommitSignup, FindMembership, CheckMembership, SweepSessions
  <2>4. ASSUME NEW q \in Requests, SettingsStep(q) PROVE UNCHANGED tokens
    BY <2>4 DEF SettingsStep, CommitAccept, FinishResend, FinishRevoke, FinishRole, FinishRemove,
                Authentication
  <2>5. ASSUME NEW q \in Requests, StatementFails(q) PROVE UNCHANGED tokens
    BY <2>5 DEF StatementFails
  <2>6. CASE Crash \/ UNCHANGED vars
    BY <2>6 DEF Crash, vars
  <2>7. QED
    BY <2>1, <2>2, <2>3, <2>4, <2>5, <2>6 DEF Next
<1>7. QED
  BY <1>2, <1>3, <1>4, <1>5, <1>6

(* What becomes of a request in one step. *)
Sent(p) ==
  \/ \E e \in Emails : Signup(p, e) \/ Login(p, e)
  \/ \E t \in TokenIds : Refresh(p, t)
  \/ \E r \in ResetIds : ResetPassword(p, r)
  \/ \E i \in InvitationIds : StartAccept(p, i)
  \/ \E u \in Emails, i \in InvitationIds : StartResend(p, u, i) \/ StartRevoke(p, u, i)
  \/ \E u \in Emails, o \in Emails, e \in Emails :
       StartRemove(p, u, o, e) \/ \E role \in Roles : StartRole(p, u, o, e, role)
Answers(p) ==
  CommitSignup(p) \/ FindMembership(p) \/ CheckMembership(p) \/ RevokeOld(p) \/ SweepSessions(p)

LEMMA Moved ==
  ASSUME TypeInv, [Next]_vars, NEW p \in Requests
  PROVE  requests'[p] = requests[p] \/ requests'[p] = Idle \/ Sent(p) \/ Answers(p)
<1> DEFINE Goal == requests'[p] = requests[p] \/ requests'[p] = Idle \/ Sent(p) \/ Answers(p)
<1>1. requests \in [Requests -> Request]
  BY DEF TypeInv, Waiting
<1>2. CASE AuthRequest
  <2>1. ASSUME NEW q \in Requests, NEW e \in Emails, Signup(q, e) \/ Login(q, e) PROVE Goal
    BY <1>1, <2>1 DEF Signup, Login, Start, Sent
  <2>2. ASSUME NEW q \in Requests, NEW t \in TokenIds, Refresh(q, t) PROVE Goal
    BY <1>1, <2>2 DEF Refresh, Start, Sent
  <2>3. ASSUME NEW q \in Requests, NEW r \in ResetIds, ResetPassword(q, r) PROVE Goal
    BY <1>1, <2>3 DEF ResetPassword, Start, Sent
  <2>4. ASSUME NEW e \in Emails, ForgotPassword(e) PROVE Goal
    BY <2>4 DEF ForgotPassword
  <2>5. ASSUME NEW t \in TokenIds, Logout(t) PROVE Goal
    BY <2>5 DEF Logout
  <2>6. QED
    BY <1>2, <2>1, <2>2, <2>3, <2>4, <2>5 DEF AuthRequest
<1>3. CASE SettingsRequest
  <2>1. ASSUME NEW q \in Requests, NEW i \in InvitationIds, StartAccept(q, i) PROVE Goal
    BY <1>1, <2>1 DEF StartAccept, Start, Sent
  <2>2. ASSUME NEW q \in Requests, NEW u \in Emails, NEW i \in InvitationIds,
               StartResend(q, u, i) \/ StartRevoke(q, u, i)
        PROVE  Goal
    <3>1. CASE q = p
      BY <2>2, <3>1 DEF Sent
    <3>2. CASE q # p
      BY <1>1, <2>2, <3>2 DEF StartResend, StartRevoke, Edit, Start
    <3>3. QED
      BY <3>1, <3>2
  <2>3. ASSUME NEW q \in Requests, NEW u \in Emails, NEW o \in Emails, NEW e \in Emails,
               StartRemove(q, u, o, e) \/ \E role \in Roles : StartRole(q, u, o, e, role)
        PROVE  Goal
    <3>1. CASE q = p
      BY <2>3, <3>1 DEF Sent
    <3>2. CASE q # p
      BY <1>1, <2>3, <3>2 DEF StartRemove, StartRole, Start
    <3>3. QED
      BY <3>1, <3>2
  <2>4. ASSUME NEW u \in Emails, NEW o \in Emails, NEW e \in Emails, NEW role \in Roles,
               Invite(u, o, e, role)
        PROVE  Goal
    BY <2>4 DEF Invite
  <2>5. QED
    BY <1>3, <2>1, <2>2, <2>3, <2>4 DEF SettingsRequest
<1>4. ASSUME NEW q \in Requests, AuthStep(q) PROVE Goal
  <2>1. CASE q = p
    BY <1>1, <1>4, <2>1 DEF AuthStep, Answers, IssueTokens, CommitReset, Ends, Goes
  <2>2. CASE q # p
    BY <1>1, <1>4, <2>2 DEF AuthStep, CommitSignup, FindMembership, CheckMembership, RevokeOld,
                            IssueTokens, SweepSessions, CommitReset, Ends, Goes
  <2>3. QED
    BY <2>1, <2>2
<1>5. ASSUME NEW q \in Requests, SettingsStep(q) PROVE Goal
  <2>1. Ends(q)
    BY <1>5 DEF SettingsStep, CommitAccept, FinishResend, FinishRevoke, FinishRole, FinishRemove
  <2>2. QED
    BY <1>1, <2>1 DEF Ends, Goes
<1>6. CASE Crash \/ \E q \in Requests : StatementFails(q)
  BY <1>1, <1>6 DEF Crash, StatementFails
<1>7. CASE UNCHANGED vars
  BY <1>7 DEF vars
<1>8. QED
  BY <1>2, <1>3, <1>4, <1>5, <1>6, <1>7 DEF Next

LEMMA RotationInit == Init => RotationInv
BY DEF Init, RotationInv, ReplacedIsRevoked, NoToken, HeldBy, Idle

LEMMA HeldIdle == \A rows : HeldBy(Idle, rows)
BY DEF HeldBy, Idle

(* What a request holds when it has been sent. *)
LEMMA Started ==
  ASSUME requests \in [Requests -> Request], NEW p \in Requests
  PROVE  /\ \A e \in Emails : Signup(p, e) =>
              requests'[p].step = "signup" /\ requests'[p].token = 0 /\ requests'[p].swept = {}
         /\ \A e \in Emails : Login(p, e) =>
              requests'[p].step = "login" /\ requests'[p].token = 0 /\ requests'[p].swept = {}
         /\ \A t \in TokenIds : Refresh(p, t) =>
              requests'[p].step = "refresh" /\ requests'[p].token = t
         /\ \A r \in ResetIds : ResetPassword(p, r) => requests'[p].step = "reset"
         /\ \A i \in InvitationIds : StartAccept(p, i) =>
              requests'[p].step = "accept" /\ requests'[p].row = i
         /\ \A u \in Emails, i \in InvitationIds : StartResend(p, u, i) =>
              /\ requests'[p].step = "resend" /\ requests'[p].row = i
              /\ requests'[p].seen = invitations[i]
         /\ \A u \in Emails, i \in InvitationIds : StartRevoke(p, u, i) =>
              /\ requests'[p].step = "revoke" /\ requests'[p].row = i
              /\ requests'[p].seen = invitations[i]
         /\ \A u \in Emails, o \in Emails, e \in Emails : StartRemove(p, u, o, e) =>
              requests'[p].step = "remove"
         /\ \A u \in Emails, o \in Emails, e \in Emails, role \in Roles :
              StartRole(p, u, o, e, role) => requests'[p].step = "role"
<1>1. ASSUME NEW e \in Emails, Signup(p, e)
      PROVE  requests'[p].step = "signup" /\ requests'[p].token = 0 /\ requests'[p].swept = {}
  BY <1>1 DEF Signup, Start, Idle
<1>2. ASSUME NEW e \in Emails, Login(p, e)
      PROVE  requests'[p].step = "login" /\ requests'[p].token = 0 /\ requests'[p].swept = {}
  BY <1>2 DEF Login, Start, Idle
<1>3. ASSUME NEW t \in TokenIds, Refresh(p, t)
      PROVE  requests'[p].step = "refresh" /\ requests'[p].token = t
  BY <1>3 DEF Refresh, Start, Idle
<1>4. ASSUME NEW r \in ResetIds, ResetPassword(p, r) PROVE requests'[p].step = "reset"
  BY <1>4 DEF ResetPassword, Start, Idle
<1>5. ASSUME NEW i \in InvitationIds, StartAccept(p, i)
      PROVE  requests'[p].step = "accept" /\ requests'[p].row = i
  BY <1>5 DEF StartAccept, Acceptance, Start, Idle
<1>6. ASSUME NEW u \in Emails, NEW i \in InvitationIds, NEW kind, Edit(p, u, i, kind)
      PROVE  /\ requests'[p].step = kind /\ requests'[p].row = i
             /\ requests'[p].seen = invitations[i]
  BY <1>6 DEF Edit, Start, Idle
<1>7. ASSUME NEW u \in Emails, NEW o \in Emails, NEW e \in Emails, StartRemove(p, u, o, e)
      PROVE  requests'[p].step = "remove"
  BY <1>7 DEF StartRemove, Start, Idle
<1>8. ASSUME NEW u \in Emails, NEW o \in Emails, NEW e \in Emails, NEW role \in Roles,
             StartRole(p, u, o, e, role)
      PROVE  requests'[p].step = "role"
  BY <1>8 DEF StartRole, Start, Idle
<1>9. QED
  BY <1>1, <1>2, <1>3, <1>4, <1>5, <1>6, <1>7, <1>8 DEF StartResend, StartRevoke

(* What a request holds after its next statement. *)
LEMMA Advanced ==
  ASSUME requests \in [Requests -> Request], NEW p \in Requests
  PROVE  /\ CommitSignup(p) \/ FindMembership(p) =>
              \/ requests'[p] = Idle
              \/ requests'[p].step = "issue" /\ requests'[p].token = requests[p].token
         /\ CheckMembership(p) =>
              \/ requests'[p] = Idle
              \/ requests'[p].step = "rotate" /\ requests'[p].token = requests[p].token
         /\ RevokeOld(p) => requests'[p].step = "issue" /\ requests'[p].token = requests[p].token
         /\ SweepSessions(p) =>
              /\ requests'[p].step = "swept" /\ requests'[p].user = requests[p].user
              /\ requests'[p].swept =
                   { t \in TokenIds : tokens[t].user = requests[p].user /\ tokens[t].live }
<1> DEFINE r == requests[p]
<1>1. /\ r \in Request /\ \A x : requests' = [requests EXCEPT ![p] = x] => requests'[p] = x
      /\ requests[p] = r
  OBVIOUS
<1> HIDE DEF r
<1>2. ASSUME NEW x, NEW y, NEW s
      PROVE  /\ [r EXCEPT !.step = s, !.org = x, !.role = y].step = s
             /\ [r EXCEPT !.step = s, !.org = x, !.role = y].token = r.token
             /\ [r EXCEPT !.step = s, !.role = y].step = s
             /\ [r EXCEPT !.step = s, !.role = y].token = r.token
             /\ [r EXCEPT !.step = s].step = s /\ [r EXCEPT !.step = s].token = r.token
             /\ [r EXCEPT !.step = s, !.swept = x].step = s
             /\ [r EXCEPT !.step = s, !.swept = x].user = r.user
             /\ [r EXCEPT !.step = s, !.swept = x].swept = x
  BY <1>1 DEF Request
<1>3. ASSUME CommitSignup(p) \/ FindMembership(p)
      PROVE  requests'[p] = Idle \/ (requests'[p].step = "issue" /\ requests'[p].token = r.token)
  <2>1. requests'[p] = Idle \/ \E x, y : requests'[p] = [r EXCEPT !.step = "issue", !.org = x, !.role = y]
    BY <1>1, <1>3 DEF CommitSignup, FindMembership, Ends, Goes
  <2>2. CASE requests'[p] = Idle
    BY <2>2
  <2>3. ASSUME NEW x, NEW y, requests'[p] = [r EXCEPT !.step = "issue", !.org = x, !.role = y]
        PROVE  requests'[p].step = "issue" /\ requests'[p].token = r.token
    BY <1>2, <2>3
  <2>4. QED
    BY <2>1, <2>2, <2>3
<1>4. ASSUME CheckMembership(p)
      PROVE  requests'[p] = Idle \/ (requests'[p].step = "rotate" /\ requests'[p].token = r.token)
  <2>1. requests'[p] = Idle \/ \E y : requests'[p] = [r EXCEPT !.step = "rotate", !.role = y]
    BY <1>1, <1>4 DEF CheckMembership, Ends, Goes
  <2>2. CASE requests'[p] = Idle
    BY <2>2
  <2>3. ASSUME NEW y, requests'[p] = [r EXCEPT !.step = "rotate", !.role = y]
        PROVE  requests'[p].step = "rotate" /\ requests'[p].token = r.token
    BY <1>2, <2>3
  <2>4. QED
    BY <2>1, <2>2, <2>3
<1>5. ASSUME RevokeOld(p) PROVE requests'[p].step = "issue" /\ requests'[p].token = r.token
  <2>1. requests'[p] = [r EXCEPT !.step = "issue"]
    BY <1>1, <1>5 DEF RevokeOld, Goes
  <2>2. QED
    BY <1>2, <2>1
<1>6. ASSUME SweepSessions(p)
      PROVE  /\ requests'[p].step = "swept" /\ requests'[p].user = r.user
             /\ requests'[p].swept = { t \in TokenIds : tokens[t].user = r.user /\ tokens[t].live }
  <2> DEFINE mine == { t \in TokenIds : tokens[t].user = r.user /\ tokens[t].live }
  <2>1. requests'[p] = [r EXCEPT !.step = "swept", !.swept = mine]
    BY <1>1, <1>6 DEF SweepSessions, Goes
  <2> HIDE DEF mine
  <2>2. /\ requests'[p].step = "swept" /\ requests'[p].user = r.user
        /\ requests'[p].swept = mine
    BY <1>2, <2>1
  <2>3. QED
    BY <2>2 DEF mine
<1>7. QED
  BY <1>3, <1>4, <1>5, <1>6 DEF r

(* The tokens that a request holds, after each of its steps. *)
LEMMA Held ==
  ASSUME TypeInv, RotationInv, [Next]_vars, NEW p \in Requests,
         \A t \in TokenIds : tokens'[t].user = tokens[t].user /\ (tokens'[t].live => tokens[t].live)
  PROVE  HeldBy(requests'[p], tokens')
<1> requests \in [Requests -> Request]
  BY DEF TypeInv, Waiting
<1>1. requests[p] \in Request /\ requests[p].token \in TokenIds \cup {0}
  BY DEF TypeInv, Waiting, Request
<1>2. /\ requests[p].step \in {"refresh", "rotate"} => requests[p].token \in TokenIds
      /\ HeldBy(requests[p], tokens)
  BY DEF TypeInv, Waiting, Full, RotationInv
<1>3. CASE requests'[p] = requests[p]
  <2>1. HeldBy(requests[p], tokens')
    BY <1>1, <1>2 DEF HeldBy
  <2>2. QED
    BY <1>3, <2>1
<1>4. CASE requests'[p] = Idle
  BY <1>4, HeldIdle
<1>5. CASE Sent(p)
  <2>1. requests \in [Requests -> Request]
    BY DEF TypeInv, Waiting
  <2>2. ASSUME NEW e \in Emails, Signup(p, e) \/ Login(p, e) PROVE HeldBy(requests'[p], tokens')
    BY <2>1, <2>2, Started DEF HeldBy
  <2>3. ASSUME NEW t \in TokenIds, Refresh(p, t) PROVE HeldBy(requests'[p], tokens')
    <3>1. requests'[p].step = "refresh" /\ requests'[p].token = t
      BY <2>1, <2>3, Started
    <3>2. tokens[t].user # None
      BY <2>3 DEF Refresh, TypeInv, Tokens
    <3>3. QED
      BY <3>1, <3>2 DEF HeldBy
  <2>4. ASSUME requests'[p].step \in {"reset", "accept", "resend", "revoke", "remove", "role"}
        PROVE  HeldBy(requests'[p], tokens')
    BY <2>4 DEF HeldBy
  <2>5. QED
    BY <1>5, <2>1, <2>2, <2>3, <2>4, Started DEF Sent
<1>6. CASE CommitSignup(p) \/ FindMembership(p)
  <2>1. requests[p].step \in {"signup", "login"}
    BY <1>6 DEF CommitSignup, FindMembership, At
  <2>2. requests'[p] = Idle \/ (requests'[p].step = "issue" /\ requests'[p].token = requests[p].token)
    BY <1>6, Advanced
  <2>3. QED
    BY <1>2, <1>4, <2>1, <2>2 DEF HeldBy
<1>7. CASE CheckMembership(p)
  <2>1. requests[p].step = "refresh"
    BY <1>7 DEF CheckMembership, At
  <2>2. requests'[p] = Idle \/ (requests'[p].step = "rotate" /\ requests'[p].token = requests[p].token)
    BY <1>7, Advanced
  <2>3. QED
    BY <1>2, <1>4, <2>1, <2>2 DEF HeldBy
<1>8. CASE RevokeOld(p)
  <2>1. requests'[p].token = requests[p].token /\ requests'[p].step = "issue" /\ requests[p].step = "rotate"
    BY <1>1, <1>8 DEF RevokeOld, At, Goes, TypeInv, Waiting, Request
  <2>2. tokens[requests[p].token] \in RefreshToken
    BY <1>2, <2>1 DEF TypeInv, Tables
  <2>3. tokens'[requests[p].token] = [tokens[requests[p].token] EXCEPT !.live = FALSE]
    BY <1>2, <1>8, <2>1 DEF RevokeOld, TypeInv, Tables
  <2>4. ~tokens'[requests[p].token].live
    BY <2>2, <2>3, TokenRevoked
  <2>5. QED
    BY <1>2, <2>1, <2>4 DEF HeldBy
<1>9. CASE SweepSessions(p)
  <2>1. requests'[p].step = "swept"
    BY <1>1, <1>9 DEF SweepSessions, Goes, TypeInv, Waiting, Request
  <2>2. QED
    BY <2>1 DEF HeldBy
<1>10. QED
  BY Moved, <1>3, <1>4, <1>5, <1>6, <1>7, <1>8, <1>9 DEF Answers

(* A token issued in the place of another remembers which. *)
LEMMA RotationStep == TypeInv /\ RotationInv /\ [Next]_vars => RotationInv'
<1> SUFFICES ASSUME TypeInv, RotationInv, [Next]_vars PROVE RotationInv'
  OBVIOUS
<1>1. \A t \in TokenIds : tokens[t].from \in TokenIds \cup {0}
  BY DEF TypeInv, Tables, RefreshToken
<1>2. CASE \A t \in TokenIds : /\ tokens'[t].user = tokens[t].user /\ tokens'[t].from = tokens[t].from
                               /\ (tokens'[t].live => tokens[t].live)
  <2>1. \A p \in Requests : HeldBy(requests'[p], tokens')
    BY <1>2, Held
  <2>2. ReplacedIsRevoked'
    BY <1>1, <1>2 DEF RotationInv, ReplacedIsRevoked
  <2>3. \A t \in TokenIds : tokens'[t].from # 0 => tokens'[tokens'[t].from].user # None
    BY <1>1, <1>2 DEF RotationInv
  <2>4. QED
    BY <2>1, <2>2, <2>3 DEF RotationInv
<1>3. ASSUME NEW q \in Requests, IssueTokens(q) PROVE RotationInv'
  <2>0. PICK t \in TokenIds : /\ \A s \in TokenIds : s < t <=> tokens[s].user # None
                              /\ tokens' = [tokens EXCEPT ![t] = NewToken(q)]
    BY <1>3 DEF IssueTokens
  <2>1. tokens[t].user = None /\ tokens' = [tokens EXCEPT ![t] = NewToken(q)]
    BY <2>0 DEF TokenIds
  <2>2. /\ NewToken(q).from = requests[q].token /\ NewToken(q).user # None
        /\ tokens'[t] = NewToken(q)
        /\ \A s \in TokenIds \ {t} : tokens'[s] = tokens[s]
    BY <1>3, <2>1 DEF IssueTokens, NewToken, At, TypeInv, Tables, Waiting, Full
  <2>3. requests[q].token \in TokenIds \cup {0} /\ HeldBy(requests[q], tokens) /\ requests[q].step = "issue"
    BY <1>3 DEF IssueTokens, At, TypeInv, Waiting, Request, RotationInv
  <2>4. requests[q].token # 0 => /\ requests[q].token # t /\ ~tokens[requests[q].token].live
                                 /\ tokens[requests[q].token].user # None
    BY <2>1, <2>3 DEF HeldBy
  <2>5. \A s \in TokenIds \ {t} : tokens[s].from # 0 =>
          /\ tokens[s].from # t /\ ~tokens[tokens[s].from].live /\ tokens[tokens[s].from].user # None
    BY <2>1 DEF RotationInv, ReplacedIsRevoked
  <2>6. ReplacedIsRevoked' /\ \A s \in TokenIds : tokens'[s].from # 0 => tokens'[tokens'[s].from].user # None
    BY <1>1, <2>2, <2>3, <2>4, <2>5 DEF ReplacedIsRevoked
  <2>7. ASSUME NEW p \in Requests PROVE HeldBy(requests'[p], tokens')
    <3>1. requests[p].token \in TokenIds \cup {0} /\ HeldBy(requests[p], tokens)
          /\ (requests[p].step \in {"refresh", "rotate"} => requests[p].token \in TokenIds)
      BY DEF TypeInv, Waiting, Full, Request, RotationInv
    <3>2. requests'[p] = requests[p] \/ requests'[p] = Idle
      BY <1>3 DEF IssueTokens, Ends, Goes, TypeInv, Waiting
    <3>3. HeldBy(requests[p], tokens')
      BY <2>1, <2>2, <3>1 DEF HeldBy
    <3>4. QED
      BY <3>2, <3>3, HeldIdle
  <2>8. QED
    BY <2>6, <2>7 DEF RotationInv
<1>4. QED
  BY <1>2, <1>3, TokensStay

(* ReplacedIsRevoked: of the tokens that have been exchanged for another none is  *)
(* live, however refreshes, sign-ins, resets, logouts and failures interleave.    *)
THEOREM RotationSafe == Spec => []ReplacedIsRevoked
<1>1. RotationInv => ReplacedIsRevoked
  BY DEF RotationInv
<1>2. QED
  BY <1>1, RotationInit, RotationStep, TypesHold, PTL DEF Spec

-----------------------------------------------------------------------------
(* Invitations *)

(* How a request comes to the steps that other requests have to mind. *)
LEMMA Arrived ==
  ASSUME TypeInv, [Next]_vars, NEW p \in Requests, requests'[p] # requests[p]
  PROVE  /\ requests'[p].step = "accept" =>
              \E i \in InvitationIds : StartAccept(p, i) /\ requests'[p].row = i
         /\ requests'[p].step \in {"resend", "revoke"} =>
              \E u \in Emails, i \in InvitationIds : /\ StartResend(p, u, i) \/ StartRevoke(p, u, i)
                                                     /\ requests'[p].seen = invitations[i]
         /\ requests'[p].step = "swept" => SweepSessions(p)
<1> requests \in [Requests -> Request]
  BY DEF TypeInv, Waiting
<1>1. CASE requests'[p] = Idle
  BY <1>1, IdleType
<1>2. CASE Answers(p)
  BY <1>2, IdleType, Advanced DEF Answers
<1>3. CASE Sent(p)
  BY <1>3, Started DEF Sent
<1>4. QED
  BY <1>1, <1>2, <1>3, Moved

(* The rows of invitations and the links change in four steps. *)
LEMMA RowsStay ==
  ASSUME [Next]_vars
  PROVE  \/ UNCHANGED <<invitations, links>>
         \/ \E u \in Emails, o \in Emails, e \in Emails, role \in Roles : Invite(u, o, e, role)
         \/ \E q \in Requests : CommitAccept(q) \/ FinishResend(q) \/ FinishRevoke(q)
<1>1. CASE AuthRequest
  BY <1>1 DEF AuthRequest, Signup, Login, Refresh, ResetPassword, ForgotPassword, Logout, Organizations
<1>2. CASE SettingsRequest
  BY <1>2 DEF SettingsRequest, StartAccept, StartResend, StartRevoke, Edit, StartRole, StartRemove
<1>3. ASSUME NEW q \in Requests, AuthStep(q) PROVE UNCHANGED <<invitations, links>>
  BY <1>3 DEF AuthStep, CommitSignup, FindMembership, CheckMembership, RevokeOld, IssueTokens,
              SweepSessions, CommitReset, Organizations
<1>4. ASSUME NEW q \in Requests, SettingsStep(q)
      PROVE  \/ UNCHANGED <<invitations, links>>
             \/ CommitAccept(q) \/ FinishResend(q) \/ FinishRevoke(q)
  BY <1>4 DEF SettingsStep, FinishRole, FinishRemove
<1>5. ASSUME NEW q \in Requests, StatementFails(q) PROVE UNCHANGED <<invitations, links>>
  BY <1>5 DEF StatementFails
<1>6. CASE Crash \/ UNCHANGED vars
  BY <1>6 DEF Crash, vars
<1>7. QED
  BY <1>1, <1>2, <1>3, <1>4, <1>5, <1>6 DEF Next

(* A link belongs to one row, and a row whose link was used is accepted. *)
LinkRows ==
  /\ \A i \in Issued : links[invitations[i].link].sent
  /\ \A i, j \in Issued : invitations[i].link = invitations[j].link => i = j
  /\ \A l \in Links : ~links[l].sent => links[l].uses = 0
  /\ \A l \in Links : links[l].uses <= 1
  /\ \A i \in Issued : links[invitations[i].link].uses > 0 => invitations[i].accepted
(* While its row is locked, an invitation stays usable for the one who holds it. *)
RowHeld ==
  /\ \A q \in Requests : At(q, "accept") => Usable(requests[q].row)
  /\ \A p, q \in Requests :
       At(p, "accept") /\ At(q, "accept") /\ requests[p].row = requests[q].row => p = q
NotAccepted ==
  \A q \in Requests : requests[q].step \in {"resend", "revoke"} => requests[q].seen.status # "accepted"

LEMMA LinkInit == Init => LinkRows /\ RowHeld /\ NotAccepted
BY DEF Init, LinkRows, RowHeld, NotAccepted, At, Idle, NoInvitation, Issued

LEMMA NotAcceptedStep == TypeInv /\ NotAccepted /\ [Next]_vars => NotAccepted'
<1> SUFFICES ASSUME TypeInv, NotAccepted, [Next]_vars, NEW q \in Requests,
                    requests'[q].step \in {"resend", "revoke"}
             PROVE  requests'[q].seen.status # "accepted"
  BY DEF NotAccepted
<1>1. CASE requests'[q] = requests[q]
  BY <1>1 DEF NotAccepted
<1>2. CASE requests'[q] # requests[q]
  <2>1. PICK u \in Emails, i \in InvitationIds : /\ StartResend(q, u, i) \/ StartRevoke(q, u, i)
                                                 /\ requests'[q].seen = invitations[i]
    BY <1>2, Arrived
  <2>2. QED
    BY <2>1 DEF StartResend, StartRevoke, Edit
<1>3. QED
  BY <1>1, <1>2

(* The row that an acceptance holds is written by that acceptance. *)
LEMMA RowHeldStep == TypeInv /\ RowHeld /\ [Next]_vars => RowHeld'
<1> SUFFICES ASSUME TypeInv, RowHeld, [Next]_vars PROVE RowHeld'
  OBVIOUS
<1> requests \in [Requests -> Request] /\ invitations \in [InvitationIds -> Invitation]
  BY DEF TypeInv, Tables, Waiting
<1>1. ASSUME NEW p \in Requests, requests'[p].step = "accept", requests'[p] # requests[p]
      PROVE  /\ ~Locked(requests'[p].row) /\ Usable(requests'[p].row)
             /\ UNCHANGED invitations
             /\ \A q \in Requests \ {p} : requests'[q] = requests[q]
  <2>1. PICK i \in InvitationIds : StartAccept(p, i) /\ requests'[p].row = i
    BY <1>1, Arrived
  <2>2. QED
    BY <2>1 DEF StartAccept, Start
<1>2. ASSUME NEW p \in Requests, requests'[p].step = "accept", requests'[p] = requests[p]
      PROVE  /\ At(p, "accept") /\ Usable(requests[p].row) /\ requests[p].row \in Issued
  BY <1>2 DEF RowHeld, At, TypeInv, Waiting, Full
<1>3. ASSUME NEW p \in Requests, requests'[p].step = "accept", requests'[p] = requests[p]
      PROVE  invitations'[requests[p].row] = invitations[requests[p].row]
  <2> DEFINE i == requests[p].row
  <2>1. At(p, "accept") /\ Usable(i) /\ i \in Issued
    BY <1>2, <1>3
  <2>2. ASSUME NEW u \in Emails, NEW o \in Emails, NEW e \in Emails, NEW role \in Roles,
               Invite(u, o, e, role)
        PROVE  invitations'[i] = invitations[i]
    <3>1. PICK j \in InvitationIds :
            /\ \A k \in InvitationIds : k < j <=> invitations[k].status # "none"
            /\ \E new : invitations' = [invitations EXCEPT ![j] = new]
      BY <2>2 DEF Invite
    <3>2. invitations[j].status = "none"
      BY <3>1 DEF InvitationIds
    <3>3. QED
      BY <2>1, <3>1, <3>2 DEF Issued
  <2>3. ASSUME NEW q \in Requests, CommitAccept(q) PROVE invitations'[i] = invitations[i]
    <3>1. q # p
      BY <1>3, <2>1, <2>3, IdleType DEF CommitAccept, At, Ends, Goes
    <3>2. requests[q].row # i
      BY <2>1, <2>3, <3>1 DEF CommitAccept, RowHeld
    <3>3. \/ invitations' = invitations
          \/ \E new : invitations' = [invitations EXCEPT ![requests[q].row] = new]
      BY <2>3 DEF CommitAccept
    <3>4. QED
      BY <2>1, <3>2, <3>3 DEF Issued
  <2>4. ASSUME NEW q \in Requests, FinishResend(q) \/ FinishRevoke(q)
        PROVE  invitations'[i] = invitations[i]
    <3>1. ~Locked(requests[q].row)
      BY <2>4 DEF FinishResend, FinishRevoke
    <3>2. requests[q].row # i
      BY <2>1, <3>1 DEF Locked, Accepting
    <3>3. \E new : invitations' = [invitations EXCEPT ![requests[q].row] = new]
      BY <2>4 DEF FinishResend, FinishRevoke
    <3>4. QED
      BY <2>1, <3>2, <3>3 DEF Issued
  <2>5. QED
    BY <2>2, <2>3, <2>4, RowsStay
<1>4. ASSUME NEW p \in Requests, requests'[p].step = "accept"
      PROVE  Usable(requests[p].row)' 
  BY <1>1, <1>2, <1>3, <1>4 DEF Usable
<1>5. ASSUME NEW p \in Requests, NEW q \in Requests, requests'[p].step = "accept",
             requests'[q].step = "accept", requests'[p].row = requests'[q].row
      PROVE  p = q
  <2>1. CASE requests'[p] = requests[p] /\ requests'[q] = requests[q]
    BY <1>5, <2>1 DEF RowHeld, At
  <2>2. CASE requests'[p] # requests[p]
    BY <1>1, <1>5, <2>2 DEF Locked, Accepting, At
  <2>3. CASE requests'[q] # requests[q]
    BY <1>1, <1>5, <2>3 DEF Locked, Accepting, At
  <2>4. QED
    BY <2>1, <2>2, <2>3
<1>6. QED
  BY <1>4, <1>5 DEF RowHeld, At

(* A row gets a link that was never sent. *)
LEMMA FreshLink ==
  ASSUME TypeInv, LinkRows, NEW i \in InvitationIds, NEW l \in Links, NEW new \in Invitation,
         SendLink(l), invitations' = [invitations EXCEPT ![i] = new], new.link = l,
         new.status # "none"
  PROVE  LinkRows'
<1> /\ invitations \in [InvitationIds -> Invitation]
    /\ links \in [Links -> [sent : BOOLEAN, uses : Nat]]
    /\ \A j \in Issued : invitations[j].link \in Links
  BY DEF TypeInv, Tables, Invited, Issued
<1>1. ~links[l].sent /\ links[l].uses = 0
  BY DEF SendLink, Links, LinkRows
<1>2. /\ links'[l].sent /\ links'[l].uses = 0
      /\ \A k \in Links : links'[k].uses = links[k].uses
      /\ \A k \in Links \ {l} : links'[k] = links[k]
  BY <1>1 DEF SendLink
<1>3. /\ invitations'[i] = new
      /\ \A j \in Issued' : j # i => j \in Issued /\ invitations'[j] = invitations[j]
  BY DEF Issued
<1>4. \A j \in Issued' : j # i => invitations[j].link # l
  BY <1>1, <1>3 DEF LinkRows
<1>5. \A j \in Issued' : j # i => links'[invitations[j].link] = links[invitations[j].link]
  BY <1>2, <1>3, <1>4
<1>6. \A j \in Issued' : links'[invitations'[j].link].sent
  BY <1>2, <1>3, <1>5 DEF LinkRows
<1>7. \A j, k \in Issued' : invitations'[j].link = invitations'[k].link => j = k
  BY <1>3, <1>4 DEF LinkRows
<1>8. \A k \in Links : /\ ~links'[k].sent => links'[k].uses = 0
                       /\ links'[k].uses <= 1
  BY <1>2 DEF LinkRows
<1>9. \A j \in Issued' : links'[invitations'[j].link].uses > 0 => invitations'[j].accepted
  BY <1>2, <1>3, <1>5 DEF LinkRows
<1>10. QED
  BY <1>6, <1>7, <1>8, <1>9 DEF LinkRows

(* A row keeps its link, which is used if the row had not been accepted. *)
LEMMA SameLink ==
  ASSUME TypeInv, LinkRows, NEW i \in Issued, NEW new \in Invitation,
         invitations' = [invitations EXCEPT ![i] = new], new.link = invitations[i].link,
         \/ links' = links /\ new.accepted = invitations[i].accepted
         \/ /\ links' = [links EXCEPT ![new.link].uses = @ + 1]
            /\ ~invitations[i].accepted /\ new.accepted
  PROVE  LinkRows'
<1> DEFINE l == invitations[i].link
<1> /\ invitations \in [InvitationIds -> Invitation]
    /\ links \in [Links -> [sent : BOOLEAN, uses : Nat]]
    /\ \A j \in Issued : invitations[j].link \in Links /\ j \in InvitationIds
  BY DEF TypeInv, Tables, Invited, Issued
<1>1. /\ l \in Links /\ Issued' \subseteq Issued
      /\ \A j \in Issued : j # i => invitations'[j] = invitations[j] /\ invitations[j].link # l
      /\ invitations'[i] = new
  BY DEF Issued, LinkRows
<1>2. CASE links' = links /\ new.accepted = invitations[i].accepted
  <2>1. /\ \A j \in Issued' : /\ invitations'[j].link = invitations[j].link
                              /\ invitations'[j].accepted = invitations[j].accepted
    BY <1>1, <1>2
  <2>2. QED
    BY <1>1, <1>2, <2>1 DEF LinkRows
<1>3. CASE /\ links' = [links EXCEPT ![new.link].uses = @ + 1]
           /\ ~invitations[i].accepted /\ new.accepted
  <2>1. links[l].sent /\ links[l].uses = 0
    BY <1>1, <1>3 DEF LinkRows
  <2>2. /\ links'[l].sent /\ links'[l].uses = 1
        /\ \A k \in Links \ {l} : links'[k] = links[k]
    BY <1>1, <1>3, <2>1
  <2>3. /\ \A j \in Issued' : links'[invitations'[j].link].sent
        /\ \A j, k \in Issued' : invitations'[j].link = invitations'[k].link => j = k
    BY <1>1, <2>2 DEF LinkRows
  <2>4. \A k \in Links : (~links'[k].sent => links'[k].uses = 0) /\ links'[k].uses <= 1
    BY <1>1, <2>2 DEF LinkRows
  <2>5. \A j \in Issued' : links'[invitations'[j].link].uses > 0 => invitations'[j].accepted
    BY <1>1, <1>3, <2>2 DEF LinkRows
  <2>6. QED
    BY <2>3, <2>4, <2>5 DEF LinkRows
<1>4. QED
  BY <1>2, <1>3

LEMMA LinkStep == TypeInv /\ LinkRows /\ RowHeld /\ [Next]_vars => LinkRows'
<1> SUFFICES ASSUME TypeInv, LinkRows, RowHeld, [Next]_vars PROVE LinkRows'
  OBVIOUS
<1>1. CASE UNCHANGED <<invitations, links>>
  BY <1>1 DEF LinkRows, Issued
<1>2. ASSUME NEW u \in Emails, NEW o \in Emails, NEW e \in Emails, NEW role \in Roles,
             Invite(u, o, e, role)
      PROVE  LinkRows'
  <2>1. PICK i \in InvitationIds, l \in Links :
          /\ SendLink(l)
          /\ invitations' = [invitations EXCEPT ![i] =
               [org |-> o, email |-> e, role |-> role, status |-> "pending",
                accepted |-> FALSE, revoked |-> FALSE, link |-> l]]
    BY <1>2 DEF Invite
  <2> DEFINE new == [org |-> o, email |-> e, role |-> role, status |-> "pending",
                     accepted |-> FALSE, revoked |-> FALSE, link |-> l]
  <2>2. new \in Invitation /\ new.link = l /\ new.status # "none"
    BY DEF Invitation, Maybe
  <2>3. invitations' = [invitations EXCEPT ![i] = new]
    BY <2>1
  <2> HIDE DEF new
  <2>4. QED
    BY <2>1, <2>2, <2>3, FreshLink
<1>3. ASSUME NEW q \in Requests, CommitAccept(q) PROVE LinkRows'
  <2> DEFINE i == requests[q].row
             new == [invitations[i] EXCEPT !.status = "accepted", !.accepted = TRUE]
  <2>1. i \in Issued /\ i \in InvitationIds /\ invitations[i] \in Invitation /\ Usable(i)
    BY <1>3 DEF CommitAccept, At, TypeInv, Tables, Waiting, Full, Issued, RowHeld
  <2>2. CASE UNCHANGED <<invitations, links>>
    BY <1>1, <2>2
  <2>3. CASE ~UNCHANGED <<invitations, links>>
    <3>1. /\ invitations' = [invitations EXCEPT ![i] = new]
          /\ links' = [links EXCEPT ![invitations[i].link].uses = @ + 1]
      BY <1>3, <2>1, <2>3 DEF CommitAccept, TypeInv, Tables
    <3>2. new \in Invitation /\ new.accepted /\ new.link = invitations[i].link
      BY <2>1, AcceptedRow
    <3>3. ~invitations[i].accepted
      BY <2>1 DEF Usable
    <3> HIDE DEF new
    <3>4. QED
      BY <2>1, <3>1, <3>2, <3>3, SameLink
  <2>4. QED
    BY <2>2, <2>3
<1>4. ASSUME NEW q \in Requests, FinishResend(q) PROVE LinkRows'
  <2> DEFINE i == requests[q].row
  <2>1. PICK l \in Links :
          SendLink(l) /\ invitations' = [invitations EXCEPT ![i] = Resent(@, requests[q].seen, l)]
    BY <1>4 DEF FinishResend
  <2> DEFINE new == Resent(invitations[i], requests[q].seen, l)
  <2>2. /\ i \in Issued /\ i \in InvitationIds /\ invitations[i] \in Invitation
        /\ invitations[i].status # "none" /\ requests[q].seen \in Invitation
    BY <1>4 DEF FinishResend, At, TypeInv, Tables, Waiting, Full, Issued, Request
  <2>3. invitations' = [invitations EXCEPT ![i] = new]
    BY <2>1
  <2>4. new \in Invitation /\ new.status # "none" /\ new.link = l
    BY <2>2, ResentRow
  <2> HIDE DEF new, i
  <2>5. QED
    BY <2>1, <2>2, <2>3, <2>4, FreshLink
<1>5. ASSUME NEW q \in Requests, FinishRevoke(q) PROVE LinkRows'
  <2> DEFINE i == requests[q].row
             new == Revoked(invitations[i], requests[q].seen)
  <2>1. /\ i \in Issued /\ i \in InvitationIds /\ invitations[i] \in Invitation
        /\ invitations[i].status # "none" /\ requests[q].seen \in Invitation
    BY <1>5 DEF FinishRevoke, At, TypeInv, Tables, Waiting, Full, Issued, Request
  <2>2. invitations' = [invitations EXCEPT ![i] = new] /\ links' = links
    BY <1>5 DEF FinishRevoke
  <2>3. new \in Invitation /\ new.link = invitations[i].link /\ new.accepted = invitations[i].accepted
    BY <2>1, RevokedRow
  <2> HIDE DEF new, i
  <2>4. QED
    BY <2>1, <2>2, <2>3, SameLink
<1>6. QED
  BY <1>1, <1>2, <1>3, <1>4, <1>5, RowsStay

(* LinkUsedOnce: of all who follow one link one joins, whatever is revoked or    *)
(* resent meanwhile.                                                              *)
THEOREM LinkSingleUse == Spec => []LinkUsedOnce
<1>1. LinkRows => LinkUsedOnce
  BY DEF LinkRows, LinkUsedOnce
<1>2. QED
  BY <1>1, LinkInit, LinkStep, RowHeldStep, TypesHold, PTL DEF Spec

(* AcceptanceStands: an accepted invitation is not written again, unless by a     *)
(* resend or a revocation that had read it before.                                *)
THEOREM AcceptanceKept == Spec => AcceptanceStands
<1> DEFINE Step == \A i \in InvitationIds :
             invitations[i].status = "accepted" /\ ReadBefore(i) = {} =>
               invitations'[i] = invitations[i]
<1>1. ASSUME TypeInv, RowHeld, NotAccepted, [Next]_vars PROVE Step
  <2> SUFFICES ASSUME NEW i \in InvitationIds, invitations[i].status = "accepted", ReadBefore(i) = {}
               PROVE  invitations'[i] = invitations[i]
    OBVIOUS
  <2> invitations \in [InvitationIds -> Invitation]
    BY <1>1 DEF TypeInv, Tables
  <2>1. ASSUME NEW u \in Emails, NEW o \in Emails, NEW e \in Emails, NEW role \in Roles,
               Invite(u, o, e, role)
        PROVE  invitations'[i] = invitations[i]
    <3>1. PICK j \in InvitationIds :
            /\ \A k \in InvitationIds : k < j <=> invitations[k].status # "none"
            /\ \E new : invitations' = [invitations EXCEPT ![j] = new]
      BY <2>1 DEF Invite
    <3>2. invitations[j].status = "none"
      BY <3>1 DEF InvitationIds
    <3>3. QED
      BY <3>1, <3>2
  <2>2. ASSUME NEW q \in Requests, CommitAccept(q) PROVE invitations'[i] = invitations[i]
    <3>1. requests[q].row # i
      BY <1>1, <2>2 DEF CommitAccept, RowHeld, Usable
    <3>2. \/ invitations' = invitations
          \/ \E new : invitations' = [invitations EXCEPT ![requests[q].row] = new]
      BY <2>2 DEF CommitAccept
    <3>3. QED
      BY <3>1, <3>2
  <2>3. ASSUME NEW q \in Requests, FinishResend(q) \/ FinishRevoke(q)
        PROVE  invitations'[i] = invitations[i]
    <3>1. requests[q].row # i
      BY <1>1, <2>3 DEF FinishResend, FinishRevoke, At, NotAccepted, ReadBefore
    <3>2. \E new : invitations' = [invitations EXCEPT ![requests[q].row] = new]
      BY <2>3 DEF FinishResend, FinishRevoke
    <3>3. QED
      BY <3>1, <3>2
  <2>4. QED
    BY <1>1, <2>1, <2>2, <2>3, RowsStay
<1>2. TypeInv /\ RowHeld /\ NotAccepted /\ [Next]_vars => [Step]_vars
  BY <1>1
<1>3. QED
  BY <1>2, LinkInit, RowHeldStep, NotAcceptedStep, TypesHold, PTL DEF Spec, AcceptanceStands

-----------------------------------------------------------------------------
(* Password resets *)

(* A reset that waits for its commit has found every live token of its user but *)
(* those that were issued since, and no other reset of that user is as far.     *)
SweptInv ==
  /\ \A p, q \in Requests :
       At(p, "swept") /\ At(q, "swept") /\ requests[p].user = requests[q].user => p = q
  /\ \A q \in Requests, t \in TokenIds :
       At(q, "swept") /\ tokens[t].live /\ tokens[t].user = requests[q].user =>
         t \in requests[q].swept \/ tokens[t].late
SessionInv == ResetEndsSessions /\ SweptInv

LEMMA SessionInit == Init => SessionInv
BY DEF Init, SessionInv, SweptInv, ResetEndsSessions, NoToken, Idle, At

LEMMA OnlyResets ==
  ASSUME [Next]_vars
  PROVE  UNCHANGED resets \/ \E q \in Requests : CommitReset(q)
<1>1. CASE AuthRequest
  BY <1>1 DEF AuthRequest, Signup, Login, Refresh, ResetPassword, ForgotPassword, Logout
<1>2. CASE SettingsRequest
  BY <1>2 DEF SettingsRequest, Invite, StartAccept, StartResend, StartRevoke, Edit, StartRole,
              StartRemove, Authentication
<1>3. ASSUME NEW q \in Requests, AuthStep(q) PROVE UNCHANGED resets \/ CommitReset(q)
  BY <1>3 DEF AuthStep, CommitSignup, FindMembership, CheckMembership, RevokeOld, IssueTokens,
              SweepSessions
<1>4. ASSUME NEW q \in Requests, SettingsStep(q) PROVE UNCHANGED resets
  BY <1>4 DEF SettingsStep, CommitAccept, FinishResend, FinishRevoke, FinishRole, FinishRemove,
              Authentication
<1>5. ASSUME NEW q \in Requests, StatementFails(q) PROVE UNCHANGED resets
  BY <1>5 DEF StatementFails
<1>6. CASE Crash \/ UNCHANGED vars
  BY <1>6 DEF Crash, vars
<1>7. QED
  BY <1>1, <1>2, <1>3, <1>4, <1>5, <1>6 DEF Next

LEMMA SweptStep ==
  ASSUME TypeInv, SessionInv, [Next]_vars,
         \A t \in TokenIds : /\ tokens'[t].user = tokens[t].user /\ tokens'[t].late = tokens[t].late
                             /\ (tokens'[t].live => tokens[t].live)
  PROVE  SweptInv'
<1> requests \in [Requests -> Request]
  BY DEF TypeInv, Waiting
<1>1. ASSUME NEW p \in Requests, requests'[p].step = "swept", requests'[p] # requests[p]
      PROVE  /\ requests'[p].user = requests[p].user /\ ~UserLocked(requests[p].user)
             /\ requests'[p].swept = { t \in TokenIds : tokens[t].user = requests[p].user /\ tokens[t].live }
             /\ \A q \in Requests \ {p} : requests'[q] = requests[q]
  <2>1. SweepSessions(p)
    BY <1>1, Arrived
  <2>2. ~UserLocked(requests[p].user) /\ \A q \in Requests \ {p} : requests'[q] = requests[q]
    BY <2>1 DEF SweepSessions, Goes
  <2>3. QED
    BY <2>1, <2>2, Advanced
<1>2. ASSUME NEW p \in Requests, NEW q \in Requests, requests'[p].step = "swept",
             requests'[q].step = "swept", requests'[p].user = requests'[q].user
      PROVE  p = q
  <2>1. CASE requests'[p] = requests[p] /\ requests'[q] = requests[q]
    BY <1>2, <2>1 DEF SessionInv, SweptInv, At
  <2>2. CASE requests'[p] # requests[p]
    BY <1>1, <1>2, <2>2 DEF UserLocked, At
  <2>3. CASE requests'[q] # requests[q]
    BY <1>1, <1>2, <2>3 DEF UserLocked, At
  <2>4. QED
    BY <2>1, <2>2, <2>3
<1>3. ASSUME NEW q \in Requests, NEW t \in TokenIds, requests'[q].step = "swept", tokens'[t].live,
             tokens'[t].user = requests'[q].user
      PROVE  t \in requests'[q].swept \/ tokens'[t].late
  <2>1. CASE requests'[q] = requests[q]
    BY <1>3, <2>1 DEF SessionInv, SweptInv, At
  <2>2. CASE requests'[q] # requests[q]
    BY <1>1, <1>3, <2>2
  <2>3. QED
    BY <2>1, <2>2
<1>4. QED
  BY <1>2, <1>3 DEF SweptInv, At

LEMMA SessionStep == TypeInv /\ SessionInv /\ [Next]_vars => SessionInv'
<1> SUFFICES ASSUME TypeInv, SessionInv, [Next]_vars PROVE SessionInv'
  OBVIOUS
<1> /\ requests \in [Requests -> Request] /\ resets \in [Emails -> Nat]
    /\ tokens \in [TokenIds -> RefreshToken]
    /\ \A t \in TokenIds : tokens[t].live => tokens[t].user \in Emails
  BY DEF TypeInv, Tables, Tokens, Waiting, RefreshToken, Maybe
<1>1. CASE \A t \in TokenIds :
             /\ tokens'[t].user = tokens[t].user /\ tokens'[t].checked = tokens[t].checked
             /\ tokens'[t].late = tokens[t].late /\ (tokens'[t].live => tokens[t].live)
  <2>1. SweptInv'
    BY <1>1, SweptStep
  <2>2. CASE UNCHANGED resets
    BY <1>1, <2>1, <2>2 DEF SessionInv, ResetEndsSessions
  <2>3. ASSUME NEW q \in Requests, CommitReset(q) PROVE ResetEndsSessions'
    <3>1. /\ At(q, "swept") /\ \A e \in Emails : e # requests[q].user => resets'[e] = resets[e]
          /\ \A t \in TokenIds : t \in requests[q].swept => tokens'[t] = [tokens[t] EXCEPT !.live = FALSE]
      BY <2>3 DEF CommitReset
    <3>2. ASSUME NEW t \in TokenIds, t \in requests[q].swept PROVE ~tokens'[t].live
      <4>1. tokens[t] \in RefreshToken /\ tokens'[t] = [tokens[t] EXCEPT !.live = FALSE]
        BY <3>1, <3>2
      <4>2. QED
        BY <4>1, TokenRevoked
    <3>3. ASSUME NEW t \in TokenIds, tokens'[t].live
          PROVE  tokens'[t].checked = resets'[tokens'[t].user] \/ tokens'[t].late
      <4>1. CASE tokens[t].user = requests[q].user
        BY <1>1, <3>1, <3>2, <3>3, <4>1 DEF SessionInv, SweptInv
      <4>2. CASE tokens[t].user # requests[q].user
        BY <1>1, <3>1, <3>3, <4>2 DEF SessionInv, ResetEndsSessions
      <4>3. QED
        BY <4>1, <4>2
    <3>4. QED
      BY <3>3 DEF ResetEndsSessions
  <2>4. QED
    BY <2>1, <2>2, <2>3, OnlyResets DEF SessionInv
<1>2. ASSUME NEW q \in Requests, IssueTokens(q) PROVE SessionInv'
  <2>1. PICK t \in TokenIds : tokens' = [tokens EXCEPT ![t] = NewToken(q)]
    BY <1>2 DEF IssueTokens
  <2>2. /\ tokens'[t].user = requests[q].user /\ tokens'[t].checked = requests[q].checked
        /\ tokens'[t].late <=> \/ requests[q].checked # resets[requests[q].user]
                               \/ UserLocked(requests[q].user)
        /\ \A s \in TokenIds \ {t} : tokens'[s] = tokens[s]
    BY <2>1 DEF NewToken
  <2>3. resets' = resets /\ \A p \in Requests : requests'[p] = requests[p] \/ requests'[p] = Idle
    BY <1>2 DEF IssueTokens, Ends, Goes
  <2>4. ResetEndsSessions'
    BY <2>2, <2>3 DEF SessionInv, ResetEndsSessions
  <2>5. \A p \in Requests : requests'[p].step = "swept" => requests'[p] = requests[p] /\ At(p, "swept")
    BY <2>3, IdleType DEF At
  <2>6. ASSUME NEW p \in Requests, NEW s \in TokenIds, requests'[p].step = "swept", tokens'[s].live,
               tokens'[s].user = requests'[p].user
        PROVE  s \in requests'[p].swept \/ tokens'[s].late
    <3>1. requests'[p] = requests[p] /\ At(p, "swept")
      BY <2>5, <2>6
    <3>2. CASE s = t
      BY <2>2, <2>6, <3>1, <3>2 DEF UserLocked
    <3>3. CASE s # t
      BY <2>2, <2>6, <3>1, <3>3 DEF SessionInv, SweptInv
    <3>4. QED
      BY <3>2, <3>3
  <2>7. SweptInv'
    BY <2>5, <2>6 DEF SessionInv, SweptInv, At
  <2>8. QED
    BY <2>4, <2>7 DEF SessionInv
<1>3. QED
  BY <1>1, <1>2, TokensStay

(* ResetEndsSessions: after a password reset no session goes on that had been     *)
(* issued before it, except by a request that overlapped with the reset.          *)
THEOREM ResetSignsOut == Spec => []ResetEndsSessions
<1>1. SessionInv => ResetEndsSessions
  BY DEF SessionInv
<1>2. QED
  BY <1>1, SessionInit, SessionStep, TypesHold, PTL DEF Spec

=============================================================================
