---------------------------- MODULE Invitations ----------------------------
(***************************************************************************)
(* src/src/settings/settings.service.ts: invitations and members.          *)
(* Acceptance is one transaction that locks the invitation's row; revoking *)
(* and resending read the row, check it and write it later by its id.      *)
(* Expiry is left out: an expired invitation is refused, which is no step. *)
(***************************************************************************)
EXTENDS AccountTables

Authentication == <<resets, tokens, resetTokens>>

Accepting(i) == { q \in Requests : At(q, "accept") /\ requests[q].row = i }
Locked(i) == Accepting(i) # {}

(* Sequelize writes a column only if it differs from what was read. *)
Column(read, written, stored) == IF read = written THEN stored ELSE written

-----------------------------------------------------------------------------
(* A link's token is random: it is one never sent before. *)
SendLink(l) ==
  /\ \A k \in Links : k < l <=> links[k].sent
  /\ links' = [links EXCEPT ![l].sent = TRUE]

Invite(u, o, e, role) ==
  /\ Authorized(u, o) /\ Spend("invite")
  /\ \E i \in InvitationIds, l \in Links :
       /\ \A j \in InvitationIds : j < i <=> invitations[j].status # "none"
       /\ SendLink(l)
       /\ invitations' = [invitations EXCEPT ![i] =
            [org |-> o, email |-> e, role |-> role, status |-> "pending",
             accepted |-> FALSE, revoked |-> FALSE, link |-> l]]
  /\ UNCHANGED <<users, members, Authentication, requests>>

(* assertInvitationUsable() *)
Usable(i) == /\ invitations[i].status = "pending"
             /\ ~invitations[i].accepted /\ ~invitations[i].revoked

Acceptance(i) == [Idle EXCEPT !.step = "accept", !.row = i,
  !.user = IF invitations[i].email \in users THEN invitations[i].email ELSE None]

(* Mutant: the row is read without FOR UPDATE. *)
StartAccept_Unlocked(q, i) ==
  /\ Usable(i)
  /\ Start(q, "accept", Acceptance(i))
  /\ UNCHANGED <<users, members, invitations, links, Authentication>>

(* The row of the link is locked, or awaited, and the account is looked up. *)
StartAccept(q, i) ==
  /\ ~Locked(i) /\ Usable(i)
  /\ Start(q, "accept", Acceptance(i))
  /\ UNCHANGED <<users, members, invitations, links, Authentication>>

(* The unique indexes on email and on the membership, which a removed member  *)
(* still occupies, end the transaction.                                       *)
Conflict(q) ==
  LET inv == invitations[requests[q].row] IN
  \/ requests[q].user = None /\ inv.email \in users
  \/ members[inv.org][inv.email].state = "removed"

(* Mutant: the account is created elsewhere. *)
CommitAccept_NoUser(q) ==
  LET i == requests[q].row  inv == invitations[i] IN
  /\ At(q, "accept")
  /\ \/ Conflict(q) /\ UNCHANGED <<users, members, invitations, links>>
     \/ /\ ~Conflict(q)
        /\ users' = users
        /\ members' = [members EXCEPT ![inv.org][inv.email] = [state |-> "active", role |-> inv.role]]
        /\ invitations' = [invitations EXCEPT ![i].status = "accepted", ![i].accepted = TRUE]
        /\ links' = [links EXCEPT ![inv.link].uses = @ + 1]
  /\ Ends(q)
  /\ UNCHANGED Authentication

(* Account and membership are found or created, the role is that of the invitation. *)
CommitAccept(q) ==
  LET i == requests[q].row  inv == invitations[i] IN
  /\ At(q, "accept")
  /\ \/ Conflict(q) /\ UNCHANGED <<users, members, invitations, links>>
     \/ /\ ~Conflict(q)
        /\ users' = users \cup {inv.email}
        /\ members' = [members EXCEPT ![inv.org][inv.email] = [state |-> "active", role |-> inv.role]]
        /\ invitations' = [invitations EXCEPT ![i].status = "accepted", ![i].accepted = TRUE]
        /\ links' = [links EXCEPT ![inv.link].uses = @ + 1]
  /\ Ends(q)
  /\ UNCHANGED Authentication

(* resendInvitation(), revokeInvitation(): "Accepted invitations cannot be ..." *)
Edit(q, u, i, kind) ==
  /\ invitations[i].status \notin {"none", "accepted"}
  /\ Authorized(u, invitations[i].org)
  /\ Start(q, kind, [Idle EXCEPT !.step = kind, !.row = i, !.seen = invitations[i]])
  /\ UNCHANGED <<users, members, invitations, links, Authentication>>
StartResend(q, u, i) == Edit(q, u, i, "resend")

(* Mutant: what is accepted is not asked. *)
StartRevoke_Accepted(q, u, i) ==
  /\ invitations[i].status # "none"
  /\ Authorized(u, invitations[i].org)
  /\ Start(q, "revoke", [Idle EXCEPT !.step = "revoke", !.row = i, !.seen = invitations[i]])
  /\ UNCHANGED <<users, members, invitations, links, Authentication>>

StartRevoke(q, u, i) == Edit(q, u, i, "revoke")

(* The columns that differ from what was read are written whatever the row is by now. *)
Resent(now, seen, l) ==
  [now EXCEPT !.link = l, !.status = Column(seen.status, "pending", @),
              !.revoked = Column(seen.revoked, FALSE, @),
              !.accepted = Column(seen.accepted, FALSE, @)]

FinishResend(q) ==
  LET r == requests[q] IN
  /\ At(q, "resend") /\ ~Locked(r.row)
  /\ \E l \in Links :
       /\ SendLink(l)
       /\ invitations' = [invitations EXCEPT ![r.row] = Resent(@, r.seen, l)]
  /\ Ends(q)
  /\ UNCHANGED <<users, members, Authentication>>

Revoked(now, seen) ==
  [now EXCEPT !.revoked = TRUE, !.status = Column(seen.status, "revoked", @)]

FinishRevoke(q) ==
  LET r == requests[q] IN
  /\ At(q, "revoke") /\ ~Locked(r.row)
  /\ invitations' = [invitations EXCEPT ![r.row] = Revoked(@, r.seen)]
  /\ Ends(q)
  /\ UNCHANGED <<users, members, links, Authentication>>

(* A role that the row already has is not written. *)
StartRole(q, u, o, e, role) ==
  /\ Authorized(u, o) /\ Active(o, e) /\ role # members[o][e].role
  /\ Start(q, "role", [Idle EXCEPT !.step = "role", !.user = e, !.org = o, !.role = role])
  /\ UNCHANGED <<users, members, invitations, links, Authentication>>

FinishRole(q) ==
  LET r == requests[q] IN
  /\ At(q, "role")
  /\ members' = [members EXCEPT ![r.org][r.user].role = r.role]
  /\ Ends(q)
  /\ UNCHANGED <<users, invitations, links, Authentication>>

StartRemove(q, u, o, e) ==
  /\ Authorized(u, o) /\ Active(o, e) /\ e # u
  /\ Start(q, "remove", [Idle EXCEPT !.step = "remove", !.user = e, !.org = o])
  /\ UNCHANGED <<users, members, invitations, links, Authentication>>

FinishRemove(q) ==
  LET r == requests[q] IN
  /\ At(q, "remove")
  /\ members' = [members EXCEPT ![r.org][r.user].state = "removed"]
  /\ Ends(q)
  /\ UNCHANGED <<users, invitations, links, Authentication>>

SettingsRequest ==
  \/ \E u \in Emails, o \in Emails, e \in Emails, role \in Roles : Invite(u, o, e, role)
  \/ \E q \in Requests :
       \/ \E i \in InvitationIds : StartAccept(q, i)
       \/ \E u \in Emails, i \in InvitationIds : StartResend(q, u, i) \/ StartRevoke(q, u, i)
       \/ \E u \in Emails, o \in Emails, e \in Emails :
            \/ StartRemove(q, u, o, e)
            \/ \E role \in Roles : StartRole(q, u, o, e, role)
SettingsStep(q) ==
  \/ CommitAccept(q) \/ FinishResend(q) \/ FinishRevoke(q) \/ FinishRole(q) \/ FinishRemove(q)

-----------------------------------------------------------------------------
(* Properties *)

(* "single-use invitation token" (settings.controller.ts): of all requests with  *)
(* one link, however they interleave with revoking and resending, one succeeds.  *)
LinkUsedOnce == \A l \in Links : links[l].uses <= 1

ReadBefore(i) == { q \in Requests : /\ requests[q].step \in {"resend", "revoke"}
                                    /\ requests[q].row = i
                                    /\ requests[q].seen.status # "accepted" }

(* "Accepted invitations cannot be revoked" or resent (settings.service.ts:299,  *)
(* :321), as far as the code ensures it: an accepted invitation stays as it is   *)
(* unless a request that read it before its acceptance is about to write it.     *)
AcceptanceStands ==
  [][\A i \in InvitationIds :
       invitations[i].status = "accepted" /\ ReadBefore(i) = {} =>
         invitations'[i] = invitations[i]]_vars

=============================================================================
