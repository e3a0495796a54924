----------------------------- MODULE MCSessions -----------------------------
(***************************************************************************)
(* Sessions for TLC without forgotten passwords, so that three sessions    *)
(* fit: logins, refreshes, logouts, owner recoveries and failures.         *)
(* MCAccounts runs the resets by mail.                                     *)
(***************************************************************************)
EXTENDS Sessions

\* The steps of Receive and Serve that happen when no token was ever mailed.
Rotation(r) ==
  \/ Login(r) \/ LogoutAll(r) \/ OwnerRecovery(r)
  \/ \E t \in Ids : Refresh(r, t) \/ Logout(r, t)
  \/ LoginStep(r) \/ RefreshStep(r)
  \/ WritePassword(r) \/ EndSessions(r) \/ EndTokens(r) \/ ResetCommit(r)
  \/ Abort(r)

RotationNext ==
  \/ \E r \in Requests : Rotation(r)
  \/ \E s \in Ids : Expire(s)
  \/ SetActive

\* The fairness of SessionsFair.
RotationFair ==
  /\ SessionsInit /\ [][RotationNext]_vars
  /\ \A r \in Requests : SF_vars(Serve(r)) /\ WF_vars(DeadlockVictim(r))
=============================================================================
