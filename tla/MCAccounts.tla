----------------------------- MODULE MCAccounts -----------------------------
(* What the clients of Accounts send, in three scenarios. *)
EXTENDS Accounts, TLC

Nothing == [k \in Kinds |-> 0]

(* One invitation is accepted, revoked and resent at the same time. *)
Inviting == [Nothing EXCEPT !["signup"] = 1, !["invite"] = 1, !["accept"] = 2,
                            !["resend"] = 2, !["revoke"] = 1, !["fault"] = 1]
(* Members come, change and go while they sign in. *)
Joining == [Nothing EXCEPT !["signup"] = 2, !["invite"] = 2, !["accept"] = 2,
                           !["role"] = 1, !["remove"] = 1, !["refresh"] = 1]
(* Sessions are refreshed and ended while passwords are reset. *)
Resetting == [Nothing EXCEPT !["signup"] = 1, !["login"] = 1, !["refresh"] = 2, !["logout"] = 1,
                             !["forgot"] = 2, !["reset"] = 2, !["fault"] = 1]

Scenarios == {Inviting, Joining, Resetting}
Symmetric == Permutations(Requests) \cup Permutations(Emails)
=============================================================================
