------------------------------ MODULE Accounts ------------------------------
(* Accounts, sessions, members and invitations together: a sign-in reads the *)
(* memberships that invitations create and removals end, an administrator's  *)
(* request needs a session, and an acceptance may create an account.         *)
EXTENDS Sessions, Invitations

Next ==
  \/ AuthRequest \/ SettingsRequest
  \/ \E q \in Requests : AuthStep(q) \/ SettingsStep(q) \/ StatementFails(q)
  \/ Crash
Spec == Init /\ [][Next]_vars

(* The rows have their types, and a member has an account and an organization. *)
TypeOK ==
  /\ users \subseteq Emails /\ resets \in [Emails -> Nat]
  /\ members \in [Emails -> [Emails -> Membership]]
  /\ tokens \in [TokenIds -> RefreshToken]
  /\ resetTokens \in [ResetIds -> ResetToken]
  /\ invitations \in [InvitationIds -> Invitation]
  /\ links \in [Links -> [sent : BOOLEAN, uses : Nat]]
  /\ requests \in [Requests -> Request]
  /\ budget \in [Kinds -> Nat]
  /\ \A o, e \in Emails : members[o][e].state # "none" => {o, e} \subseteq users
=============================================================================
