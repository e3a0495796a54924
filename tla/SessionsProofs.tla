--------------------------- MODULE SessionsProofs ---------------------------
(***************************************************************************)
(* Proofs about Sessions for any number of requests, sessions and reset    *)
(* tokens. What the results rest on are the row locks: two transactions    *)
(* never hold the same row, and the row a rotation or a reset has claimed  *)
(* stays as it was claimed until that transaction ends.                    *)
(***************************************************************************)
EXTENDS Sessions, TLAPS

\* No row is locked by two open transactions.
LocksExclusive ==
  \A q, r \in Requests : q # r => Locks(req[q].holds) \cap Locks(req[r].holds) = {}

\* A rotation holds the live session it claimed.
RotationHolds ==
  \A r \in Requests : req[r].pc = "rotate" =>
    /\ req[r].wants = {}
    /\ req[r].token \in live
    /\ Sess(req[r].token) \in req[r].holds

\* A rotation that has not claimed its session yet waits for just that row.
ClaimWants ==
  \A r \in Requests : req[r].pc = "claim" => req[r].wants = {Sess(req[r].token)}

\* A family is named by a session that exists.
FamiliesExist == \A s \in 1..stored : family[s] \in 1..stored

RotationInv ==
  /\ SessionsTypeOK
  /\ LocksExclusive
  /\ ClaimWants
  /\ RotationHolds
  /\ FamiliesExist
  /\ OneLivePerFamily

----------------------------------------------------------------------------
(* Types *)

\* What a request wants are rows of the tables: the names of sessions and of
\* reset tokens that exist, and the user (the updateMany calls of AuthService).
LEMMA WantedRows ==
  ASSUME SessionsTypeOK
  PROVE  /\ \A S \in SUBSET live : {Sess(s) : s \in S} \in SUBSET Rows
         /\ {Note(s) : s \in {s \in 1..stored : s \in expired \/ s \notin live}} \in SUBSET Rows
         /\ \A K \in SUBSET (1..issued) : {Reset(k) : k \in K} \in SUBSET Rows
         /\ {User} \in SUBSET Rows
         /\ live \subseteq Ids
  BY SessionsAssumption DEF SessionsTypeOK, Rows, Ids, ResetIds

\* A request that goes on, keeping what it wrote or not, or ends, is still a
\* request (the local variables of the methods of AuthService).
LEMMA RequestTypes ==
  ASSUME SessionsTypeOK, NEW r \in Requests
  PROVE  /\ \A pc \in PCs, W \in SUBSET Rows :
              Goto(r, pc, W) \/ Keep(r, pc, W) => req' \in [Requests -> RequestState]
         /\ \A pc \in PCs, W \in SUBSET Rows, t \in Nat :
              req' = [req EXCEPT ![r].pc = pc, ![r].token = t, ![r].wants = W]
                => req' \in [Requests -> RequestState]
         /\ req' = [req EXCEPT ![r] = Idle] => req' \in [Requests -> RequestState]
<1>1. Idle \in RequestState
  BY DEF Idle, RequestState, PCs
<1>2. req \in [Requests -> RequestState] /\ req[r].wants \in SUBSET Rows
  BY DEF SessionsTypeOK, RequestState
<1>3. ASSUME NEW pc \in PCs, NEW W \in SUBSET Rows, Goto(r, pc, W)
      PROVE  req' \in [Requests -> RequestState]
  BY <1>2, <1>3 DEF RequestState, Goto
<1>4. ASSUME NEW pc \in PCs, NEW W \in SUBSET Rows, Keep(r, pc, W)
      PROVE  req' \in [Requests -> RequestState]
  BY <1>2, <1>4 DEF RequestState, Keep
<1>5. ASSUME NEW pc \in PCs, NEW W \in SUBSET Rows, NEW t \in Nat,
             req' = [req EXCEPT ![r].pc = pc, ![r].token = t, ![r].wants = W]
      PROVE  req' \in [Requests -> RequestState]
  BY <1>2, <1>5 DEF RequestState
<1> QED BY <1>1, <1>2, <1>3, <1>4, <1>5

\* Every step keeps the types: whoever locks, revokes or inserts, the tables
\* hold sessions and tokens that were inserted (AuthService).
LEMMA TypesKept ==
  ASSUME SessionsTypeOK, RotationHolds, FamiliesExist, [SessionsNext]_vars
  PROVE  SessionsTypeOK'
<1> USE SessionsAssumption
<1>0. CASE UNCHANGED vars
  BY <1>0 DEF SessionsTypeOK, vars
<1>1. ASSUME NEW r \in Requests, Receive(r)
      PROVE  SessionsTypeOK'
  <2>1. UNCHANGED tables
    BY <1>1 DEF Receive, Login, LogoutAll, Forgot, OwnerRecovery, Refresh, Logout, ResetPassword
  <2>0. /\ {} \in SUBSET Rows
        /\ \A pc \in {"login", "replay", "revoke", "claim", "forgot", "reset", "claimed"} : pc \in PCs
    BY DEF PCs
  <2>2. req' \in [Requests -> RequestState]
    <3> USE <2>0
    <3>1. CASE Login(r) \/ Forgot(r)
      BY <3>1, RequestTypes DEF Login, Forgot
    <3>2. CASE LogoutAll(r)
      <4>1. {Sess(s) : s \in live} \in SUBSET Rows
        BY WantedRows
      <4> QED BY <3>2, <4>1, RequestTypes DEF LogoutAll
    <3>3. CASE OwnerRecovery(r)
      BY <3>3, RequestTypes, WantedRows DEF OwnerRecovery
    <3>4. ASSUME NEW t \in Ids, Refresh(r, t) \/ Logout(r, t)
          PROVE  req' \in [Requests -> RequestState]
      <4>1. {Sess(t)} \in SUBSET Rows /\ {} \in SUBSET Rows /\ t \in Nat
        BY DEF Rows, Ids
      <4>2. CASE Refresh(r, t)
        <5> DEFINE pc == IF t \notin live THEN "replay"
                         ELSE IF t \in expired \/ ~active THEN "revoke" ELSE "claim"
        <5> DEFINE W == IF t \in live THEN {Sess(t)} ELSE {}
        <5>1. pc \in PCs /\ W \in SUBSET Rows
          BY <4>1
        <5>2. req' = [req EXCEPT ![r].pc = pc, ![r].token = t, ![r].wants = W]
          BY <4>2 DEF Refresh
        <5> HIDE DEF pc, W
        <5> QED BY <5>1, <5>2, <4>1, RequestTypes
      <4>3. CASE Logout(r, t)
        BY <4>3, <4>1, RequestTypes DEF Logout
      <4> QED BY <3>4, <4>2, <4>3
    <3>5. ASSUME NEW k \in ResetIds, ResetPassword(r, k)
          PROVE  req' \in [Requests -> RequestState]
      <4>1. {Reset(k)} \in SUBSET Rows /\ k \in Nat /\ "reset" \in PCs
        BY DEF Rows, ResetIds, PCs
      <4> QED BY <3>5, <4>1, RequestTypes DEF ResetPassword
    <3> QED BY <1>1, <3>1, <3>2, <3>3, <3>4, <3>5 DEF Receive
  <2> QED BY <2>1, <2>2 DEF SessionsTypeOK, tables
<1>2. ASSUME NEW r \in Requests, LoginCreate(r) \/ RefreshRotate(r)
      PROVE  SessionsTypeOK'
  <2>1. /\ stored + 1 \in 0..MaxSessions
        /\ stored' = stored + 1
        /\ Commit(r, {stored + 1}, {})
        /\ UNCHANGED <<expired, issued, recent, active, changes>>
    BY <1>2 DEF LoginCreate, RefreshRotate, Insert, SessionsTypeOK
  <2>2. family' \in [Ids -> 0..MaxSessions]
    <3>1. CASE LoginCreate(r)
      BY <3>1, <2>1 DEF LoginCreate, Insert, SessionsTypeOK
    <3>2. CASE RefreshRotate(r)
      <4>1. req[r].token \in live
        BY <3>2 DEF RefreshRotate, RotationHolds
      <4>2. req[r].token \in Ids /\ family \in [Ids -> 0..MaxSessions]
        <5>1. live \subseteq 1..stored /\ stored \in 0..MaxSessions
          BY DEF SessionsTypeOK
        <5>2. \A s \in 1..stored : s \in Ids
          BY <5>1 DEF Ids
        <5>3. req[r].token \in 1..stored
          BY <4>1, <5>1
        <5> QED BY <5>2, <5>3 DEF SessionsTypeOK
      <4>3. family[req[r].token] \in 0..MaxSessions
        BY <4>2
      <4> QED BY <3>2, <4>2, <4>3 DEF RefreshRotate, Insert
    <3> QED BY <1>2, <3>1, <3>2
  <2>3. live' \subseteq 1..stored' /\ expired' \subseteq 1..stored'
    <3>1. live \subseteq 1..stored /\ expired \subseteq 1..stored /\ stored \in Nat
      BY DEF SessionsTypeOK
    <3>2. live' \subseteq live \cup {stored + 1} /\ expired' = expired
      BY <2>1 DEF Commit
    <3> QED BY <3>1, <3>2, <2>1
  <2>4. usable' \subseteq 1..issued'
    BY <2>1 DEF Commit, SessionsTypeOK
  <2>5. req' \in [Requests -> RequestState]
    BY <2>1, RequestTypes DEF Commit
  <2> QED BY <2>1, <2>2, <2>3, <2>4, <2>5 DEF SessionsTypeOK
<1>3. ASSUME NEW r \in Requests, Revoke(r) \/ ForgotCreate(r) \/ ResetCommit(r)
      PROVE  SessionsTypeOK'
  <2>1. req' \in [Requests -> RequestState]
    <3>1. req' = [req EXCEPT ![r] = Idle]
      BY <1>3 DEF Revoke, ForgotCreate, ResetCommit, Commit
    <3> QED BY <3>1, RequestTypes
  <2>2. changes' \in [ResetIds -> Nat]
    BY <1>3 DEF Revoke, ForgotCreate, ResetCommit, SessionsTypeOK
  <2>3. CASE Revoke(r)
    BY <2>3, <2>1, <2>2 DEF Revoke, Commit, SessionsTypeOK
  <2>4. CASE ForgotCreate(r)
    <3>1. usable \subseteq 1..issued /\ issued \in 0..MaxResets
      BY DEF SessionsTypeOK
    <3>2. /\ usable' \subseteq usable \cup {issued + 1}
          /\ live' \subseteq live
          /\ issued < MaxResets /\ issued' = issued + 1
          /\ recent' = TRUE
          /\ UNCHANGED <<stored, family, expired, active, changes>>
      BY <2>4 DEF ForgotCreate, Commit
    <3>3. usable' \subseteq 1..issued' /\ issued' \in 0..MaxResets
      BY <3>1, <3>2
    <3> QED BY <3>2, <3>3, <2>1 DEF SessionsTypeOK
  <2>5. CASE ResetCommit(r)
    BY <2>5, <2>1, <2>2 DEF ResetCommit, Commit, SessionsTypeOK
  <2> QED BY <1>3, <2>3, <2>4, <2>5
<1>4. ASSUME NEW r \in Requests,
             \/ LoginNote(r) \/ LoginCount(r) \/ LoginCap(r) \/ RefreshClaim(r) \/ RefreshLoses(r) \/ EndFamily(r)
             \/ ForgotDelete(r) \/ ResetClaim(r) \/ WritePassword(r) \/ EndSessions(r) \/ EndTokens(r)
             \/ Abort(r)
      PROVE  SessionsTypeOK'
  <2>1. UNCHANGED tables
    BY <1>4 DEF LoginNote, LoginCount, LoginCap, RefreshClaim, RefreshLoses, EndFamily, ForgotDelete,
                ResetClaim, WritePassword, EndSessions, EndTokens, Abort
  <2>2. /\ {} \in SUBSET Rows
        /\ \A pc \in {"note", "cap", "create", "rotate", "replay", "revoke", "mail", "claimed", "owner",
                      "end", "purge"} : pc \in PCs
    BY DEF PCs
  <2>3. \A pc \in PCs, W \in SUBSET Rows :
          Goto(r, pc, W) \/ Keep(r, pc, W) => req' \in [Requests -> RequestState]
    BY RequestTypes
  <2>4. CASE LoginCount(r)
    <3>1. Beyond(live \ expired, Cap - 1) \in SUBSET live
      BY DEF Beyond
    <3>2. {Sess(s) : s \in Beyond(live \ expired, Cap - 1)} \in SUBSET Rows
      BY <3>1, WantedRows
    <3>3. Keep(r, "cap", {Sess(s) : s \in Beyond(live \ expired, Cap - 1)})
      BY <2>4 DEF LoginCount
    <3> QED BY <3>2, <3>3, <2>1, <2>2, <2>3 DEF SessionsTypeOK, tables
  <2>5. CASE LoginCap(r) \/ ResetClaim(r)
    <3>1. req' \in [Requests -> RequestState]
      BY <2>5, <2>2, <2>3, RequestTypes, WantedRows DEF LoginCap, ResetClaim
    <3> QED BY <3>1, <2>1 DEF SessionsTypeOK, tables
  <2>6. CASE RefreshClaim(r) \/ RefreshLoses(r) \/ WritePassword(r) \/ Abort(r)
    <3>1. req' \in [Requests -> RequestState]
      BY <2>6, <2>2, <2>3, RequestTypes DEF RefreshClaim, RefreshLoses, WritePassword, Abort
    <3> QED BY <3>1, <2>1 DEF SessionsTypeOK, tables
  <2>7. CASE EndFamily(r)
    <3>1. {s \in live : family[s] = family[req[r].token]} \in SUBSET live
      OBVIOUS
    <3>2. {Sess(s) : s \in {s \in live : family[s] = family[req[r].token]}} \in SUBSET Rows
      BY <3>1, WantedRows
    <3>3. Goto(r, "revoke", {Sess(s) : s \in {s \in live : family[s] = family[req[r].token]}})
      BY <2>7 DEF EndFamily
    <3> QED BY <3>2, <3>3, <2>1, <2>2, <2>3 DEF SessionsTypeOK, tables
  <2>8. CASE ForgotDelete(r)
    <3>0. Unused \in SUBSET (1..issued)
      BY DEF Unused
    <3>1. {Reset(k) : k \in Unused} \in SUBSET Rows
      BY <3>0, WantedRows
    <3>2. Goto(r, "mail", {Reset(k) : k \in Unused})
      BY <2>8 DEF ForgotDelete
    <3> QED BY <3>1, <3>2, <2>1, <2>2, <2>3 DEF SessionsTypeOK, tables
  <2>9. CASE EndSessions(r)
    <3>1. {Sess(s) : s \in live} \in SUBSET Rows
      BY WantedRows
    <3>2. Goto(r, "end", {Sess(s) : s \in live})
      BY <2>9 DEF EndSessions
    <3> QED BY <3>1, <3>2, <2>1, <2>2, <2>3 DEF SessionsTypeOK, tables
  <2>10. CASE EndTokens(r)
    <3>1. (1..issued) \ {req[r].token} \in SUBSET (1..issued)
      OBVIOUS
    <3>2. {Reset(k) : k \in (1..issued) \ {req[r].token}} \in SUBSET Rows
      BY <3>1, WantedRows
    <3>3. Keep(r, "purge", {Reset(k) : k \in (1..issued) \ {req[r].token}})
      BY <2>10 DEF EndTokens
    <3> QED BY <3>2, <3>3, <2>1, <2>2, <2>3 DEF SessionsTypeOK, tables
  <2>11. CASE LoginNote(r)
    <3>1. {Note(s) : s \in {s \in 1..stored : s \in expired \/ s \notin live}} \in SUBSET Rows
      BY WantedRows
    <3>2. Goto(r, "note", {Note(s) : s \in {s \in 1..stored : s \in expired \/ s \notin live}})
      BY <2>11 DEF LoginNote
    <3> QED BY <3>1, <3>2, <2>1, <2>2, <2>3 DEF SessionsTypeOK, tables
  <2> QED BY <1>4, <2>11, <2>4, <2>5, <2>6, <2>7, <2>8, <2>9, <2>10
<1>5. CASE World
  BY <1>5 DEF World, Expire, ExpireReset, MinutePasses, SetActive, SessionsTypeOK
<1> QED BY <1>0, <1>1, <1>2, <1>3, <1>4, <1>5
        DEF SessionsNext, Serve, LoginStep, RefreshStep, PasswordStep

----------------------------------------------------------------------------
(* One live session per family *)

\* A transaction locks the rows of each write it makes (RefreshSession rows).
LEMMA LocksOfWrites ==
  /\ \A V, W : Locks(V \cup W) = Locks(V) \cup Locks(W)
  /\ \A V, W : V \subseteq W => Locks(V) \subseteq Locks(W)
  /\ \A W : W \subseteq Locks(W)
BY DEF Locks

\* A request takes no row that another one holds, so rows have one writer at
\* a time (the row locks the updateMany calls of AuthService rely on).
LEMMA LocksKept ==
  ASSUME SessionsTypeOK, LocksExclusive, [SessionsNext]_vars
  PROVE  LocksExclusive'
<1>1. CASE UNCHANGED req
  BY <1>1 DEF LocksExclusive
<1>2. ASSUME NEW r \in Requests,
             \A q \in Requests : q # r => req'[q] = req[q],
             req'[r].holds \subseteq req[r].holds
      PROVE  LocksExclusive'
  <2>1. Locks(req'[r].holds) \subseteq Locks(req[r].holds)
    BY <1>2, LocksOfWrites
  <2> QED BY <1>2, <2>1 DEF LocksExclusive
<1>3. ASSUME NEW r \in Requests, Granted(r),
             \A q \in Requests : q # r => req'[q] = req[q],
             req'[r].holds = req[r].holds \cup req[r].wants
      PROVE  LocksExclusive'
  <2>1. Locks(req'[r].holds) = Locks(req[r].holds) \cup Locks(req[r].wants)
    BY <1>3, LocksOfWrites
  <2>2. \A q \in Requests : q # r => Locks(req[q].holds) \cap Locks(req[r].wants) = {}
    BY <1>3 DEF Granted, Blockers
  <2> QED BY <1>3, <2>1, <2>2 DEF LocksExclusive
<1>4. ASSUME NEW r \in Requests, NEW pc, NEW W, Keep(r, pc, W)
      PROVE  /\ \A q \in Requests : q # r => req'[q] = req[q]
             /\ req'[r].holds = req[r].holds \cup req[r].wants
  BY <1>4 DEF Keep, SessionsTypeOK, RequestState
<1>5. ASSUME NEW r \in Requests, NEW pc, NEW W, Goto(r, pc, W)
      PROVE  /\ \A q \in Requests : q # r => req'[q] = req[q]
             /\ req'[r].holds = req[r].holds
  BY <1>5 DEF Goto, SessionsTypeOK, RequestState
<1>6. ASSUME NEW r \in Requests, req' = [req EXCEPT ![r] = Idle]
      PROVE  /\ \A q \in Requests : q # r => req'[q] = req[q]
             /\ req'[r].holds \subseteq req[r].holds
  BY <1>6 DEF Idle, SessionsTypeOK, RequestState
<1>7. ASSUME NEW r \in Requests, NEW pc, NEW t, NEW W,
             req' = [req EXCEPT ![r].pc = pc, ![r].token = t, ![r].wants = W]
      PROVE  /\ \A q \in Requests : q # r => req'[q] = req[q]
             /\ req'[r].holds = req[r].holds
  BY <1>7 DEF SessionsTypeOK, RequestState
<1>8. ASSUME NEW r \in Requests, Receive(r)
      PROVE  LocksExclusive'
  <2>1. CASE Login(r) \/ LogoutAll(r) \/ Forgot(r) \/ OwnerRecovery(r) \/ \E t \in Ids : Logout(r, t)
    <3>1. CASE Login(r)
      BY <3>1, <1>2, <1>5 DEF Login
    <3>2. CASE LogoutAll(r)
      BY <3>2, <1>2, <1>5 DEF LogoutAll
    <3>3. CASE Forgot(r)
      BY <3>3, <1>2, <1>5 DEF Forgot
    <3>4. CASE OwnerRecovery(r)
      BY <3>4, <1>2, <1>5 DEF OwnerRecovery
    <3>5. ASSUME NEW t \in Ids, Logout(r, t)
          PROVE  LocksExclusive'
      BY <3>5, <1>2, <1>5 DEF Logout
    <3> QED BY <2>1, <3>1, <3>2, <3>3, <3>4, <3>5
  <2>2. ASSUME NEW t \in Ids, Refresh(r, t)
        PROVE  LocksExclusive'
    <3> DEFINE pc == IF t \notin live THEN "replay"
                     ELSE IF t \in expired \/ ~active THEN "revoke" ELSE "claim"
    <3> DEFINE W == IF t \in live THEN {Sess(t)} ELSE {}
    <3>1. req' = [req EXCEPT ![r].pc = pc, ![r].token = t, ![r].wants = W]
      BY <2>2 DEF Refresh
    <3> HIDE DEF pc, W
    <3> QED BY <3>1, <1>2, <1>7
  <2>3. CASE \E k \in ResetIds : ResetPassword(r, k)
    BY <2>3, <1>2, <1>7 DEF ResetPassword
  <2> QED BY <1>8, <2>1, <2>2, <2>3 DEF Receive
<1>9. ASSUME NEW r \in Requests, Serve(r) \/ Abort(r)
      PROVE  LocksExclusive'
  <2>1. CASE LoginNote(r) \/ RefreshLoses(r) \/ EndFamily(r) \/ ForgotDelete(r) \/ EndSessions(r)
    BY <2>1, <1>2, <1>5 DEF LoginNote, RefreshLoses, EndFamily, ForgotDelete, EndSessions
  <2>2. CASE LoginCount(r) \/ LoginCap(r) \/ RefreshClaim(r) \/ WritePassword(r) \/ EndTokens(r)
    BY <2>2, <1>3, <1>4 DEF LoginCount, LoginCap, RefreshClaim, WritePassword, EndTokens
  <2>3. CASE LoginCreate(r) \/ RefreshRotate(r) \/ Revoke(r) \/ ForgotCreate(r) \/ ResetCommit(r) \/ Abort(r)
    <3>1. req' = [req EXCEPT ![r] = Idle]
      BY <2>3 DEF LoginCreate, RefreshRotate, Revoke, ForgotCreate, ResetCommit, Abort, Commit
    <3> QED BY <3>1, <1>2, <1>6
  <2>4. CASE ResetClaim(r)
    <3>1. Granted(r) /\ (Keep(r, "claimed", {User}) \/ req' = [req EXCEPT ![r] = Idle])
      BY <2>4 DEF ResetClaim
    <3> QED BY <3>1, <1>2, <1>3, <1>4, <1>6
  <2> QED BY <1>9, <2>1, <2>2, <2>3, <2>4 DEF Serve, LoginStep, RefreshStep, PasswordStep
<1>10. CASE World
  BY <1>10, <1>1 DEF World, Expire, ExpireReset, MinutePasses, SetActive
<1> QED BY <1>1, <1>8, <1>9, <1>10 DEF SessionsNext, vars

\* What a rotation has claimed stays live and held until it commits: every
\* other update of that session waits (auth.service.ts:202-210).
LEMMA RotationKept ==
  ASSUME RotationInv, [SessionsNext]_vars
  PROVE  ClaimWants' /\ RotationHolds'
<1> USE DEF RotationInv
<1>1. ASSUME UNCHANGED <<live, req>>
      PROVE  ClaimWants' /\ RotationHolds'
  BY <1>1 DEF ClaimWants, RotationHolds
<1>2. ASSUME NEW r \in Requests, UNCHANGED live,
             \A q \in Requests : q # r => req'[q] = req[q],
             req'[r].pc \notin {"claim", "rotate"}
      PROVE  ClaimWants' /\ RotationHolds'
  BY <1>2 DEF ClaimWants, RotationHolds
<1>3. ASSUME NEW r \in Requests, NEW N, NEW K, Commit(r, N, K),
             Granted(r) \/ req[r].wants = {}
      PROVE  ClaimWants' /\ RotationHolds'
  <2>1. req'[r] = Idle /\ \A q \in Requests : q # r => req'[q] = req[q]
    BY <1>3 DEF Commit, SessionsTypeOK
  <2>2. ClaimWants'
    BY <2>1 DEF ClaimWants, Idle
  <2>3. ASSUME NEW q \in Requests, q # r, req[q].pc = "rotate"
        PROVE  req[q].token \in live'
    <3>1. req[q].token \in live /\ Sess(req[q].token) \in req[q].holds
      BY <2>3 DEF RotationHolds
    <3>2. Sess(req[q].token) \notin req[r].holds
      BY <2>3, <3>1, LocksOfWrites DEF LocksExclusive
    <3>3. Sess(req[q].token) \notin req[r].wants
      <4>1. CASE req[r].wants = {}
        BY <4>1
      <4>2. CASE Granted(r)
        <5>1. Locks(req[q].holds) \cap Locks(req[r].wants) = {}
          BY <2>3, <4>2 DEF Granted, Blockers
        <5> QED BY <3>1, <5>1, LocksOfWrites
      <4> QED BY <1>3, <4>1, <4>2
    <3>4. req[q].token \notin Revoked(r)
      BY <3>2, <3>3 DEF Revoked, Written
    <3> QED BY <1>3, <3>1, <3>4 DEF Commit
  <2>4. RotationHolds'
    BY <2>1, <2>3 DEF RotationHolds, Idle
  <2> QED BY <2>2, <2>4
<1>4. ASSUME NEW r \in Requests, NEW pc \in PCs \ {"claim", "rotate"}, NEW W,
             Goto(r, pc, W) \/ Keep(r, pc, W)
      PROVE  /\ \A q \in Requests : q # r => req'[q] = req[q]
             /\ req'[r].pc \notin {"claim", "rotate"}
  BY <1>4 DEF Goto, Keep, SessionsTypeOK, RequestState
<1>5. ASSUME NEW r \in Requests, req' = [req EXCEPT ![r] = Idle]
      PROVE  /\ \A q \in Requests : q # r => req'[q] = req[q]
             /\ req'[r].pc \notin {"claim", "rotate"}
  BY <1>5 DEF Idle, SessionsTypeOK
<1>0. {"idle", "login", "note", "cap", "create", "replay", "revoke", "forgot", "mail", "reset",
       "claimed", "owner", "end", "purge"} = PCs \ {"claim", "rotate"}
  BY DEF PCs
<1>6. ASSUME NEW r \in Requests, Receive(r)
      PROVE  ClaimWants' /\ RotationHolds'
  <2> USE <1>0
  <2>1. CASE Login(r)
    BY <2>1, <1>2, <1>4 DEF Login, tables
  <2>2. CASE LogoutAll(r)
    BY <2>2, <1>2, <1>4 DEF LogoutAll, tables
  <2>3. CASE Forgot(r)
    BY <2>3, <1>2, <1>4 DEF Forgot, tables
  <2>4. CASE OwnerRecovery(r)
    BY <2>4, <1>2, <1>4 DEF OwnerRecovery, tables
  <2>5. ASSUME NEW t \in Ids, Logout(r, t)
        PROVE  ClaimWants' /\ RotationHolds'
    BY <2>5, <1>2, <1>4 DEF Logout, tables
  <2>6. ASSUME NEW t \in Ids, Refresh(r, t)
        PROVE  ClaimWants' /\ RotationHolds'
    <3>1. live' = live /\ \A q \in Requests : q # r => req'[q] = req[q]
      BY <2>6 DEF Refresh, tables, SessionsTypeOK
    <3>2. req'[r].pc # "rotate"
      BY <2>6 DEF Refresh, SessionsTypeOK, RequestState
    <3>3. req'[r].pc = "claim" => req'[r].wants = {Sess(req'[r].token)}
      BY <2>6 DEF Refresh, SessionsTypeOK, RequestState
    <3> QED BY <3>1, <3>2, <3>3 DEF ClaimWants, RotationHolds
  <2>7. ASSUME NEW k \in ResetIds, ResetPassword(r, k)
        PROVE  ClaimWants' /\ RotationHolds'
    <3>1. /\ live' = live
          /\ \A q \in Requests : q # r => req'[q] = req[q]
          /\ req'[r].pc = "reset"
      BY <2>7 DEF ResetPassword, tables, SessionsTypeOK, RequestState
    <3> QED BY <3>1, <1>2
  <2> QED BY <1>6, <2>1, <2>2, <2>3, <2>4, <2>5, <2>6, <2>7 DEF Receive
<1>7. ASSUME NEW r \in Requests, Serve(r) \/ Abort(r)
      PROVE  ClaimWants' /\ RotationHolds'
  <2> USE <1>0
  <2>1. CASE LoginCount(r)
    BY <2>1, <1>2, <1>4 DEF LoginCount, tables
  <2>2. CASE LoginCap(r)
    BY <2>2, <1>2, <1>4 DEF LoginCap, tables
  <2>17. CASE LoginNote(r)
    BY <2>17, <1>2, <1>4 DEF LoginNote, tables
  <2>3. CASE RefreshLoses(r)
    BY <2>3, <1>2, <1>4 DEF RefreshLoses, tables
  <2>4. CASE EndFamily(r)
    BY <2>4, <1>2, <1>4 DEF EndFamily, tables
  <2>5. CASE ForgotDelete(r)
    BY <2>5, <1>2, <1>4 DEF ForgotDelete, tables
  <2>6. CASE ResetClaim(r)
    <3>1. live' = live /\ (Keep(r, "claimed", {User}) \/ req' = [req EXCEPT ![r] = Idle])
      BY <2>6 DEF ResetClaim, tables
    <3> QED BY <3>1, <1>2, <1>4, <1>5
  <2>7. CASE WritePassword(r)
    BY <2>7, <1>2, <1>4 DEF WritePassword, tables
  <2>8. CASE EndSessions(r)
    BY <2>8, <1>2, <1>4 DEF EndSessions, tables
  <2>9. CASE EndTokens(r)
    BY <2>9, <1>2, <1>4 DEF EndTokens, tables
  <2>10. CASE Abort(r)
    BY <2>10, <1>2, <1>5 DEF Abort, tables
  <2>11. CASE RefreshClaim(r)
    <3>1. /\ live' = live
          /\ \A q \in Requests : q # r => req'[q] = req[q]
          /\ req'[r].pc = "rotate" /\ req'[r].wants = {} /\ req'[r].token = req[r].token
          /\ req'[r].holds = req[r].holds \cup req[r].wants
      BY <2>11 DEF RefreshClaim, Keep, tables, SessionsTypeOK, RequestState
    <3>2. req[r].token \in live /\ Sess(req[r].token) \in req[r].wants
      BY <2>11 DEF RefreshClaim, ClaimWants
    <3> QED BY <3>1, <3>2 DEF ClaimWants, RotationHolds
  <2>12. CASE LoginCreate(r)
    BY <2>12, <1>3 DEF LoginCreate
  <2>13. CASE RefreshRotate(r)
    <3>1. req[r].wants = {}
      BY <2>13 DEF RefreshRotate, RotationHolds
    <3> QED BY <2>13, <3>1, <1>3 DEF RefreshRotate
  <2>14. CASE Revoke(r)
    BY <2>14, <1>3 DEF Revoke
  <2>15. CASE ForgotCreate(r)
    BY <2>15, <1>3 DEF ForgotCreate
  <2>16. CASE ResetCommit(r)
    BY <2>16, <1>3 DEF ResetCommit
  <2> QED BY <1>7, <2>1, <2>2, <2>3, <2>4, <2>5, <2>6, <2>7, <2>8, <2>9, <2>10, <2>11, <2>12,
             <2>13, <2>14, <2>15, <2>16, <2>17 DEF Serve, LoginStep, RefreshStep, PasswordStep
<1>8. CASE World
  BY <1>8, <1>1 DEF World, Expire, ExpireReset, MinutePasses, SetActive
<1> QED BY <1>1, <1>6, <1>7, <1>8 DEF SessionsNext, vars

\* Sessions are inserted with their family, and a rotation ends the session it
\* extends in the same transaction (auth.service.ts:145-153, 212-222).
LEMMA FamiliesKept ==
  ASSUME RotationInv, [SessionsNext]_vars
  PROVE  FamiliesExist' /\ OneLivePerFamily'
<1> USE SessionsAssumption DEF RotationInv
<1>1. ASSUME UNCHANGED <<stored, family>>, live' \subseteq live
      PROVE  FamiliesExist' /\ OneLivePerFamily'
  BY <1>1 DEF FamiliesExist, OneLivePerFamily
<1>2. ASSUME NEW r \in Requests, NEW f \in 1..(stored + 1), Insert(f),
             Commit(r, {stored + 1}, {}),
             \A s \in live \ Revoked(r) : family[s] # f
      PROVE  FamiliesExist' /\ OneLivePerFamily'
  <2>1. /\ stored \in Nat /\ stored + 1 \in Ids
        /\ stored' = stored + 1
        /\ \A s \in 1..stored : s \in Ids /\ s # stored + 1
        /\ live \subseteq 1..stored
    BY <1>2 DEF Insert, SessionsTypeOK, Ids
  <2>2. /\ family'[stored + 1] = f
        /\ \A s \in 1..stored : family'[s] = family[s]
    BY <1>2, <2>1 DEF Insert, SessionsTypeOK
  <2>3. live' = (live \ Revoked(r)) \cup {stored + 1}
    BY <1>2 DEF Commit
  <2>4. FamiliesExist'
    <3>1. \A s \in 1..stored : family'[s] \in 1..(stored + 1)
      BY <2>1, <2>2 DEF FamiliesExist
    <3>2. \A s \in 1..(stored + 1) : s \in 1..stored \/ s = stored + 1
      BY <2>1
    <3> QED BY <2>1, <2>2, <3>1, <3>2 DEF FamiliesExist
  <2>5. ASSUME NEW s \in live', NEW t \in live', family'[s] = family'[t]
        PROVE  s = t
    <3>1. CASE s = stored + 1 /\ t # stored + 1
      BY <3>1, <2>1, <2>2, <2>3, <2>5, <1>2
    <3>2. CASE t = stored + 1 /\ s # stored + 1
      BY <3>2, <2>1, <2>2, <2>3, <2>5, <1>2
    <3>3. CASE s # stored + 1 /\ t # stored + 1
      BY <3>3, <2>1, <2>2, <2>3, <2>5 DEF OneLivePerFamily
    <3> QED BY <3>1, <3>2, <3>3
  <2> QED BY <2>4, <2>5 DEF OneLivePerFamily
<1>3. ASSUME NEW r \in Requests, LoginCreate(r)
      PROVE  FamiliesExist' /\ OneLivePerFamily'
  <2>1. stored + 1 \in 1..(stored + 1) /\ \A s \in live : family[s] # stored + 1
    BY DEF SessionsTypeOK, FamiliesExist
  <2> QED BY <1>2, <1>3, <2>1 DEF LoginCreate
<1>4. ASSUME NEW r \in Requests, RefreshRotate(r)
      PROVE  FamiliesExist' /\ OneLivePerFamily'
  <2> DEFINE t == req[r].token
  <2>1. t \in live /\ Sess(t) \in req[r].holds
    BY <1>4 DEF RefreshRotate, RotationHolds
  <2>2. t \in 1..stored /\ stored \in 0..MaxSessions
    BY <2>1 DEF SessionsTypeOK
  <2>3. t \in Ids
    BY <2>2 DEF Ids
  <2>4. family[t] \in 1..(stored + 1)
    BY <2>2 DEF FamiliesExist
  <2>5. t \in Revoked(r)
    BY <2>1, <2>3 DEF Revoked, Written
  <2>6. \A s \in live \ Revoked(r) : family[s] # family[t]
    BY <2>1, <2>5 DEF OneLivePerFamily
  <2> QED BY <1>2, <1>4, <2>4, <2>6 DEF RefreshRotate
<1>5. ASSUME NEW r \in Requests, Revoke(r) \/ ForgotCreate(r) \/ ResetCommit(r)
      PROVE  FamiliesExist' /\ OneLivePerFamily'
  <2>1. UNCHANGED <<stored, family>> /\ live' \subseteq live
    BY <1>5 DEF Revoke, ForgotCreate, ResetCommit, Commit
  <2> QED BY <2>1, <1>1
<1>6. ASSUME NEW r \in Requests,
             \/ Receive(r) \/ Abort(r)
             \/ LoginNote(r) \/ LoginCount(r) \/ LoginCap(r) \/ RefreshClaim(r) \/ RefreshLoses(r) \/ EndFamily(r)
             \/ ForgotDelete(r) \/ ResetClaim(r) \/ WritePassword(r) \/ EndSessions(r) \/ EndTokens(r)
      PROVE  FamiliesExist' /\ OneLivePerFamily'
  <2>1. UNCHANGED tables
    BY <1>6 DEF Receive, Login, LogoutAll, Forgot, OwnerRecovery, Refresh, Logout, ResetPassword,
                LoginNote, LoginCount, LoginCap, RefreshClaim, RefreshLoses, EndFamily, ForgotDelete,
                ResetClaim, WritePassword, EndSessions, EndTokens, Abort
  <2> QED BY <2>1, <1>1 DEF tables
<1>7. CASE World
  BY <1>7, <1>1 DEF World, Expire, ExpireReset, MinutePasses, SetActive
<1> QED BY <1>1, <1>3, <1>4, <1>5, <1>6, <1>7
        DEF SessionsNext, Serve, LoginStep, RefreshStep, PasswordStep, vars

\* The invariant of the rotation holds in every reachable state.
THEOREM RotationsAreSafe == SessionsSpec => []RotationInv
<1>1. SessionsInit => RotationInv
  <2> SUFFICES ASSUME SessionsInit PROVE RotationInv
    OBVIOUS
  <2>1. SessionsTypeOK
    <3>1. Idle \in RequestState
      BY DEF Idle, RequestState, PCs
    <3>2. req \in [Requests -> RequestState]
      BY <3>1 DEF SessionsInit
    <3>3. family \in [Ids -> 0..MaxSessions] /\ changes \in [ResetIds -> Nat]
      BY SessionsAssumption DEF SessionsInit
    <3>4. stored \in 0..MaxSessions /\ issued \in 0..MaxResets
      BY SessionsAssumption DEF SessionsInit
    <3>5. live = {} /\ expired = {} /\ usable = {} /\ recent \in BOOLEAN /\ active \in BOOLEAN
      BY DEF SessionsInit
    <3>6. live \subseteq 1..stored /\ expired \subseteq 1..stored /\ usable \subseteq 1..issued
      BY <3>5
    <3> QED BY <3>2, <3>3, <3>4, <3>5, <3>6 DEF SessionsTypeOK
  <2>2. \A r \in Requests : req[r] = Idle
    BY DEF SessionsInit
  <2>3. LocksExclusive /\ ClaimWants /\ RotationHolds
    <3>1. Locks({}) = {}
      BY DEF Locks
    <3> QED BY <2>2, <3>1 DEF LocksExclusive, ClaimWants, RotationHolds, Idle
  <2>4. FamiliesExist /\ OneLivePerFamily
    BY DEF SessionsInit, FamiliesExist, OneLivePerFamily
  <2> QED BY <2>1, <2>3, <2>4 DEF RotationInv
<1>2. RotationInv /\ [SessionsNext]_vars => RotationInv'
  BY TypesKept, LocksKept, RotationKept, FamiliesKept DEF RotationInv
<1> QED BY <1>1, <1>2, PTL DEF SessionsSpec

\* The tables and the requests keep their types.
THEOREM SessionsAreTyped == SessionsSpec => []SessionsTypeOK
BY RotationsAreSafe, PTL DEF RotationInv

\* A family never has two live sessions, for any number of requests at once:
\* of two refreshes with one token, one extends the family (AuthService.refresh).
THEOREM OneTokenPerFamily == SessionsSpec => []OneLivePerFamily
BY RotationsAreSafe, PTL DEF RotationInv

----------------------------------------------------------------------------
(* A reset token changes the password once *)

Resetting == {"claimed", "owner", "end", "purge"}

\* A token that can still be used, or is being used, has changed nothing yet;
\* the reset that uses it holds its row.
ResetHolds ==
  /\ \A k \in ResetIds : changes[k] \in {0, 1}
  /\ \A k \in ResetIds : k \in usable \/ k > issued => changes[k] = 0
  /\ \A r \in Requests : req[r].pc = "idle" => req[r].token = 0
  /\ \A r \in Requests : req[r].pc = "reset" =>
       req[r].wants = {Reset(req[r].token)} /\ req[r].token \in ResetIds
  /\ \A r \in Requests : req[r].pc \in Resetting /\ req[r].token # 0 =>
       /\ req[r].token \in ResetIds
       /\ req[r].token <= issued
       /\ changes[req[r].token] = 0
       /\ Reset(req[r].token) \in req[r].holds

ResetInv == RotationInv /\ ResetHolds

\* No step uses a token that changed the password already: the update that
\* claims a token tests it again (auth.service.ts:326-330).
LEMMA ResetsKept ==
  ASSUME ResetInv, [SessionsNext]_vars
  PROVE  ResetHolds'
<1> USE SessionsAssumption DEF ResetInv, RotationInv
<1>0. /\ {"idle", "login", "note", "cap", "create", "claim", "rotate", "replay", "revoke", "forgot", "mail"}
            = PCs \ (Resetting \cup {"reset"})
      /\ Resetting \subseteq PCs
      /\ "idle" \notin Resetting /\ "reset" \notin Resetting
  BY DEF PCs, Resetting
<1>1. ASSUME usable' \subseteq usable, UNCHANGED <<issued, changes, req>>
      PROVE  ResetHolds'
  BY <1>1 DEF ResetHolds
<1>2. ASSUME NEW r \in Requests, usable' \subseteq usable, UNCHANGED <<issued, changes>>,
             \A q \in Requests : q # r => req'[q] = req[q],
             \/ req'[r].pc \notin Resetting \cup {"reset", "idle"}
             \/ req'[r] = Idle
             \/ /\ req[r].pc \in Resetting /\ req'[r].pc \in Resetting
                /\ req'[r].token = req[r].token
                /\ req[r].holds \subseteq req'[r].holds
      PROVE  ResetHolds'
  <2>1. /\ \A k \in ResetIds : changes'[k] \in {0, 1}
        /\ \A k \in ResetIds : k \in usable' \/ k > issued' => changes'[k] = 0
    BY <1>2 DEF ResetHolds
  <2>2. /\ req'[r].pc = "idle" => req'[r].token = 0
        /\ req'[r].pc # "reset"
        /\ req'[r].pc \in Resetting /\ req'[r].token # 0 =>
             /\ req'[r].token \in ResetIds
             /\ req'[r].token <= issued
             /\ changes[req'[r].token] = 0
             /\ Reset(req'[r].token) \in req'[r].holds
    BY <1>0, <1>2 DEF ResetHolds, Idle
  <2> QED BY <1>2, <2>1, <2>2 DEF ResetHolds
<1>3. ASSUME NEW r \in Requests, NEW pc \in PCs, NEW W, Goto(r, pc, W) \/ Keep(r, pc, W)
      PROVE  /\ \A q \in Requests : q # r => req'[q] = req[q]
             /\ req'[r].pc = pc /\ req'[r].token = req[r].token
             /\ req[r].holds \subseteq req'[r].holds
  BY <1>3 DEF Goto, Keep, SessionsTypeOK, RequestState
<1>4. ASSUME NEW r \in Requests, req' = [req EXCEPT ![r] = Idle]
      PROVE  req'[r] = Idle /\ \A q \in Requests : q # r => req'[q] = req[q]
  BY <1>4 DEF SessionsTypeOK
<1>5. ASSUME NEW r \in Requests, NEW pc \in PCs \ (Resetting \cup {"reset", "idle"}), NEW W,
             Goto(r, pc, W) \/ Keep(r, pc, W), UNCHANGED tables
      PROVE  ResetHolds'
  <2>1. /\ \A q \in Requests : q # r => req'[q] = req[q]
        /\ req'[r].pc = pc
    BY <1>5, <1>3
  <2> QED BY <1>2, <1>5, <2>1 DEF tables
<1>6. /\ {"login", "note", "cap", "create", "claim", "rotate", "replay", "revoke", "forgot", "mail"}
            = PCs \ (Resetting \cup {"reset", "idle"})
      /\ Resetting = {"claimed", "owner", "end", "purge"}
      /\ Resetting \subseteq PCs
  BY DEF PCs, Resetting
<1>7. ASSUME NEW r \in Requests, Receive(r)
      PROVE  ResetHolds'
  <2> USE <1>6
  <2>1. CASE Login(r)
    BY <2>1, <1>5 DEF Login
  <2>2. CASE LogoutAll(r)
    BY <2>2, <1>5 DEF LogoutAll
  <2>3. CASE Forgot(r)
    BY <2>3, <1>5 DEF Forgot
  <2>4. ASSUME NEW t \in Ids, Logout(r, t)
        PROVE  ResetHolds'
    BY <2>4, <1>5 DEF Logout
  <2>5. ASSUME NEW t \in Ids, Refresh(r, t)
        PROVE  ResetHolds'
    <3>1. /\ UNCHANGED tables
          /\ \A q \in Requests : q # r => req'[q] = req[q]
      BY <2>5 DEF Refresh, SessionsTypeOK
    <3>2. req'[r].pc \in {"replay", "revoke", "claim"}
      BY <2>5 DEF Refresh, SessionsTypeOK, RequestState
    <3> QED BY <3>1, <3>2, <1>2 DEF tables
  <2>6. CASE OwnerRecovery(r)
    <3>1. /\ UNCHANGED tables
          /\ req[r].pc = "idle"
          /\ Goto(r, "claimed", {User})
      BY <2>6 DEF OwnerRecovery
    <3>2. /\ \A q \in Requests : q # r => req'[q] = req[q]
          /\ req'[r].pc = "claimed" /\ req'[r].token = 0
      BY <3>1, <1>3 DEF ResetHolds
    <3> QED BY <3>1, <3>2 DEF ResetHolds, tables
  <2>7. ASSUME NEW k \in ResetIds, ResetPassword(r, k)
        PROVE  ResetHolds'
    <3>1. /\ UNCHANGED tables
          /\ \A q \in Requests : q # r => req'[q] = req[q]
      BY <2>7 DEF ResetPassword, SessionsTypeOK
    <3>2. req'[r].pc = "reset" /\ req'[r].token = k /\ req'[r].wants = {Reset(k)}
      BY <2>7 DEF ResetPassword, SessionsTypeOK, RequestState
    <3> QED BY <3>1, <3>2 DEF ResetHolds, tables
  <2> QED BY <1>7, <2>1, <2>2, <2>3, <2>4, <2>5, <2>6, <2>7 DEF Receive
<1>8. ASSUME NEW r \in Requests, LoginStep(r) \/ RefreshStep(r) \/ Abort(r)
      PROVE  ResetHolds'
  <2> USE <1>6
  <2>0. ASSUME NEW N, Commit(r, N, {}), UNCHANGED <<issued, changes>>
        PROVE  ResetHolds'
    <3>1. usable' \subseteq usable /\ req' = [req EXCEPT ![r] = Idle]
      BY <2>0 DEF Commit
    <3> QED BY <2>0, <3>1, <1>2, <1>4
  <2>10. CASE LoginNote(r)
    BY <2>10, <1>5 DEF LoginNote
  <2>1. CASE LoginCount(r)
    BY <2>1, <1>5 DEF LoginCount
  <2>2. CASE LoginCap(r)
    BY <2>2, <1>5 DEF LoginCap
  <2>3. CASE LoginCreate(r)
    BY <2>3, <2>0 DEF LoginCreate
  <2>4. CASE RefreshClaim(r)
    BY <2>4, <1>5 DEF RefreshClaim
  <2>5. CASE RefreshLoses(r)
    BY <2>5, <1>5 DEF RefreshLoses
  <2>6. CASE EndFamily(r)
    BY <2>6, <1>5 DEF EndFamily
  <2>7. CASE RefreshRotate(r)
    BY <2>7, <2>0 DEF RefreshRotate
  <2>8. CASE Revoke(r)
    BY <2>8, <2>0 DEF Revoke
  <2>9. CASE Abort(r)
    BY <2>9, <1>2, <1>4 DEF Abort, tables
  <2> QED BY <1>8, <2>1, <2>2, <2>3, <2>4, <2>5, <2>6, <2>7, <2>8, <2>9, <2>10
        DEF LoginStep, RefreshStep
<1>9. ASSUME NEW r \in Requests, PasswordStep(r)
      PROVE  ResetHolds'
  <2> USE <1>6
  <2>1. CASE ForgotDelete(r)
    BY <2>1, <1>5 DEF ForgotDelete
  <2>2. CASE ForgotCreate(r)
    <3>1. /\ usable' \subseteq usable \cup {issued + 1}
          /\ issued \in Nat /\ issued' = issued + 1
          /\ req' = [req EXCEPT ![r] = Idle]
          /\ changes' = changes
      BY <2>2 DEF ForgotCreate, Commit, SessionsTypeOK
    <3>2. \A k \in ResetIds : k \in Nat
      BY DEF ResetIds
    <3>3. ASSUME NEW k \in ResetIds, k \in usable' \/ k > issued'
          PROVE  changes'[k] = 0
      BY <3>1, <3>2, <3>3 DEF ResetHolds
    <3>4. req'[r] = Idle /\ \A q \in Requests : q # r => req'[q] = req[q]
      BY <3>1, <1>4
    <3>5. ASSUME NEW q \in Requests, req'[q].pc \in Resetting, req'[q].token # 0
          PROVE  /\ req'[q].token \in ResetIds
                 /\ req'[q].token <= issued'
                 /\ changes'[req'[q].token] = 0
                 /\ Reset(req'[q].token) \in req'[q].holds
      <4>1. q # r
        BY <3>4, <3>5 DEF Idle
      <4>2. req'[q] = req[q]
        BY <3>4, <4>1
      <4>3. /\ req[q].token \in ResetIds
            /\ req[q].token <= issued
            /\ changes[req[q].token] = 0
            /\ Reset(req[q].token) \in req[q].holds
        BY <3>5, <4>2 DEF ResetHolds
      <4>4. req[q].token <= issued + 1
        BY <4>3, <3>1, <3>2
      <4> QED BY <4>2, <4>3, <4>4, <3>1
    <3>6. ASSUME NEW q \in Requests
          PROVE  /\ req'[q].pc = "idle" => req'[q].token = 0
                 /\ req'[q].pc = "reset" =>
                      req'[q].wants = {Reset(req'[q].token)} /\ req'[q].token \in ResetIds
      BY <3>4 DEF ResetHolds, Idle
    <3>7. \A k \in ResetIds : changes'[k] \in {0, 1}
      BY <3>1 DEF ResetHolds
    <3> QED BY <3>3, <3>5, <3>6, <3>7 DEF ResetHolds
  <2>3. CASE ResetClaim(r)
    <3> DEFINE k == req[r].token
    <3>1. UNCHANGED tables /\ req[r].pc = "reset"
      BY <2>3 DEF ResetClaim
    <3>2. CASE k \notin usable
      BY <2>3, <3>1, <3>2, <1>2, <1>4 DEF ResetClaim, tables
    <3>3. CASE k \in usable
      <4>1. Keep(r, "claimed", {User})
        BY <2>3, <3>3 DEF ResetClaim
      <4>2. /\ \A q \in Requests : q # r => req'[q] = req[q]
            /\ req'[r].pc = "claimed" /\ req'[r].token = k
            /\ req'[r].holds = req[r].holds \cup req[r].wants
        BY <4>1 DEF Keep, SessionsTypeOK, RequestState
      <4>3. /\ k \in ResetIds
            /\ changes[k] = 0
            /\ Reset(k) \in req[r].wants
        BY <3>1, <3>3 DEF ResetHolds
      <4>4. k <= issued
        <5>1. usable \subseteq 1..issued /\ issued \in 0..MaxResets
          BY DEF SessionsTypeOK
        <5>2. k \in 1..issued
          BY <3>3, <5>1
        <5> QED BY <5>1, <5>2
      <4>5. /\ issued' = issued /\ usable' = usable /\ changes' = changes
            /\ k # 0 => /\ k <= issued' /\ changes'[k] = 0
                        /\ Reset(k) \in req'[r].holds
        BY <3>1, <4>2, <4>3, <4>4 DEF tables
      <4>6. /\ \A j \in ResetIds : changes'[j] \in {0, 1}
            /\ \A j \in ResetIds : j \in usable' \/ j > issued' => changes'[j] = 0
        BY <4>5 DEF ResetHolds
      <4>7. ASSUME NEW q \in Requests
            PROVE  /\ req'[q].pc = "idle" => req'[q].token = 0
                   /\ req'[q].pc = "reset" =>
                        req'[q].wants = {Reset(req'[q].token)} /\ req'[q].token \in ResetIds
                   /\ req'[q].pc \in Resetting /\ req'[q].token # 0 =>
                        /\ req'[q].token \in ResetIds
                        /\ req'[q].token <= issued'
                        /\ changes'[req'[q].token] = 0
                        /\ Reset(req'[q].token) \in req'[q].holds
        <5>1. CASE q = r
          BY <5>1, <4>2, <4>3, <4>5
        <5>2. CASE q # r
          BY <5>2, <4>2, <4>5 DEF ResetHolds
        <5> QED BY <5>1, <5>2
      <4> QED BY <4>6, <4>7 DEF ResetHolds
    <3> QED BY <3>2, <3>3
  <2>4. CASE WritePassword(r)
    BY <2>4, <1>2, <1>3 DEF WritePassword, tables
  <2>5. CASE EndSessions(r)
    BY <2>5, <1>2, <1>3 DEF EndSessions, tables
  <2>6. CASE EndTokens(r)
    BY <2>6, <1>2, <1>3 DEF EndTokens, tables
  <2>7. CASE ResetCommit(r)
    <3> DEFINE k == req[r].token
    <3>1. /\ usable' = usable \ Spent(r)
          /\ issued' = issued
          /\ req[r].pc = "purge"
          /\ changes' = [j \in ResetIds |-> IF j = k THEN changes[j] + 1 ELSE changes[j]]
          /\ req' = [req EXCEPT ![r] = Idle]
      BY <2>7 DEF ResetCommit, Commit
    <3>2. req'[r] = Idle /\ \A q \in Requests : q # r => req'[q] = req[q]
      BY <3>1, <1>4
    <3>3. \A j \in ResetIds : j # k => changes'[j] = changes[j]
      BY <3>1
    <3>4. \A j \in ResetIds : j # 0
      BY DEF ResetIds
    <3>5. k \in ResetIds =>
            /\ k <= issued /\ changes[k] = 0
            /\ Reset(k) \in req[r].holds
      BY <3>1, <3>4 DEF ResetHolds
    <3>6. k \in ResetIds => changes'[k] = 1 /\ k \notin usable' /\ ~(k > issued')
      <4>1. k \in ResetIds => k \in Nat /\ issued \in Nat
        BY DEF ResetIds, SessionsTypeOK
      <4>2. k \in ResetIds => k \in Spent(r)
        BY <3>5 DEF Spent, Written
      <4> QED BY <3>1, <3>5, <4>1, <4>2
    <3>7. \A j \in ResetIds : changes'[j] \in {0, 1}
      BY <3>3, <3>6 DEF ResetHolds
    <3>8. \A j \in ResetIds : j \in usable' \/ j > issued' => changes'[j] = 0
      BY <3>1, <3>3, <3>6 DEF ResetHolds
    <3>9. ASSUME NEW q \in Requests, q # r, req[q].pc \in Resetting, req[q].token # 0
          PROVE  changes'[req[q].token] = 0
      <4>1. /\ req[q].token \in ResetIds /\ changes[req[q].token] = 0
            /\ Reset(req[q].token) \in req[q].holds
        BY <3>9 DEF ResetHolds
      <4>2. req[q].token # k
        <5>1. Locks(req[q].holds) \cap Locks(req[r].holds) = {}
          BY <3>9 DEF LocksExclusive
        <5>2. Reset(req[q].token) \in Locks(req[q].holds)
          BY <4>1, LocksOfWrites
        <5>3. k \in ResetIds => Reset(k) \in Locks(req[r].holds)
          BY <3>5, LocksOfWrites
        <5> QED BY <4>1, <5>1, <5>2, <5>3
      <4> QED BY <3>3, <4>1, <4>2
    <3>10. ASSUME NEW q \in Requests
           PROVE  /\ req'[q].pc = "idle" => req'[q].token = 0
                  /\ req'[q].pc = "reset" =>
                       req'[q].wants = {Reset(req'[q].token)} /\ req'[q].token \in ResetIds
                  /\ req'[q].pc \in Resetting /\ req'[q].token # 0 =>
                       /\ req'[q].token \in ResetIds
                       /\ req'[q].token <= issued'
                       /\ changes'[req'[q].token] = 0
                       /\ Reset(req'[q].token) \in req'[q].holds
      <4>1. CASE q = r
        BY <4>1, <3>2 DEF Idle
      <4>2. CASE q # r
        BY <4>2, <3>1, <3>2, <3>9 DEF ResetHolds
      <4> QED BY <4>1, <4>2
    <3> QED BY <3>7, <3>8, <3>10 DEF ResetHolds
  <2> QED BY <1>9, <2>1, <2>2, <2>3, <2>4, <2>5, <2>6, <2>7 DEF PasswordStep
<1>10. CASE World
  BY <1>10, <1>1 DEF World, Expire, ExpireReset, MinutePasses, SetActive
<1>11. CASE UNCHANGED vars
  BY <1>11, <1>1 DEF vars
<1> QED BY <1>7, <1>8, <1>9, <1>10, <1>11 DEF SessionsNext, Serve

\* A reset token changes the password at most once, whatever overlaps
\* (AuthService.resetPassword).
THEOREM ResetsWorkOnce == SessionsSpec => []ResetOnce
<1>1. SessionsInit => ResetHolds
  <2> SUFFICES ASSUME SessionsInit PROVE ResetHolds
    OBVIOUS
  <2>1. \A r \in Requests : req[r].pc = "idle" /\ req[r].token = 0
    BY DEF SessionsInit, Idle
  <2> QED BY <2>1 DEF SessionsInit, ResetHolds, Resetting
<1>2. RotationInv /\ ResetHolds /\ [SessionsNext]_vars => ResetHolds'
  BY ResetsKept DEF ResetInv
<1>3. ResetHolds => ResetOnce
  BY DEF ResetHolds, ResetOnce
<1> QED BY <1>1, <1>2, <1>3, RotationsAreSafe, PTL DEF SessionsSpec

----------------------------------------------------------------------------
(* The sessions are chains of tokens *)
(* A transaction revokes every session it wrote. That a rotation replaces  *)
(* the current token of one family, and ends no other family on its way,   *)
(* holds because the row it claimed is the only one it has written.        *)

\* A request that has claimed nothing has written nothing, and a rotation has
\* written the session it claimed.
WritesOnlyItsSession ==
  \A r \in Requests :
    /\ req[r].pc \in {"idle", "claim"} => req[r].holds = {}
    /\ req[r].pc = "rotate" => req[r].holds = {Sess(req[r].token)}

ChainInv == RotationInv /\ WritesOnlyItsSession

\* The sessions of a set that are the newest of their family, by family.
Heads(S, fam) == [f \in Ids |-> IF \E s \in S : fam[s] = f
                                THEN CHOOSE s \in S : fam[s] = f ELSE 0]

\* With one live session per family, Current is that session (the test
\* revokedAt IS NULL of AuthService.refresh finds one row at most).
LEMMA OneHead ==
  ASSUME NEW S, NEW fam, \A s, t \in S : fam[s] = fam[t] => s = t
  PROVE  /\ \A s \in S : fam[s] \in Ids => Heads(S, fam)[fam[s]] = s
         /\ \A f \in Ids : (\A s \in S : fam[s] # f) => Heads(S, fam)[f] = 0
<1>1. ASSUME NEW s \in S, fam[s] \in Ids
      PROVE  Heads(S, fam)[fam[s]] = s
  <2>1. \E u \in S : fam[u] = fam[s]
    OBVIOUS
  <2> DEFINE u == CHOOSE u \in S : fam[u] = fam[s]
  <2>2. u \in S /\ fam[u] = fam[s]
    BY <2>1
  <2>3. u = s
    BY <2>2
  <2> QED BY <1>1, <2>1, <2>3 DEF Heads
<1>2. ASSUME NEW f \in Ids, \A s \in S : fam[s] # f
      PROVE  Heads(S, fam)[f] = 0
  BY <1>2 DEF Heads
<1> QED BY <1>1, <1>2

\* The abstract state, in terms of these (RefreshSession.familyId).
LEMMA ChainState ==
  /\ Current = Heads(live, family) /\ Current' = Heads(live', family')
BY DEF Current, Heads

\* Sessions are numbered as they are inserted, and so are their families.
LEMMA LiveFamilies ==
  ASSUME RotationInv
  PROVE  /\ stored \in Nat /\ live \subseteq 1..stored
         /\ \A n \in 1..stored : n \in Ids /\ family[n] \in 1..stored /\ family[n] \in Ids
         /\ \A s, t \in live : family[s] = family[t] => s = t
<1>1. stored \in 0..MaxSessions /\ live \subseteq 1..stored
  BY DEF RotationInv, SessionsTypeOK
<1>2. \A n \in 1..stored : n \in Ids
  BY <1>1, SessionsAssumption DEF Ids
<1> QED BY <1>1, <1>2, SessionsAssumption DEF RotationInv, FamiliesExist, OneLivePerFamily

\* Idle requests and rotations hold what they held (AuthService.refresh).
LEMMA WritesKept ==
  ASSUME ChainInv, [SessionsNext]_vars
  PROVE  WritesOnlyItsSession'
<1> USE DEF ChainInv, RotationInv
<1>1. CASE UNCHANGED req
  BY <1>1 DEF WritesOnlyItsSession
<1>2. ASSUME NEW r \in Requests, \A q \in Requests : q # r => req'[q] = req[q],
             \/ req'[r].pc \notin {"idle", "claim", "rotate"}
             \/ req'[r].pc \in {"idle", "claim"} /\ req'[r].holds = {}
             \/ req'[r].pc = "rotate" /\ req'[r].holds = {Sess(req'[r].token)}
      PROVE  WritesOnlyItsSession'
  BY <1>2 DEF WritesOnlyItsSession
<1>3. ASSUME NEW r \in Requests, NEW pc, NEW W, Goto(r, pc, W) \/ Keep(r, pc, W),
             pc \notin {"idle", "claim", "rotate"}
      PROVE  WritesOnlyItsSession'
  <2>1. req'[r].pc = pc /\ \A q \in Requests : q # r => req'[q] = req[q]
    BY <1>3 DEF Goto, Keep, SessionsTypeOK, RequestState
  <2> QED BY <1>2, <1>3, <2>1
<1>4. ASSUME NEW r \in Requests, req' = [req EXCEPT ![r] = Idle]
      PROVE  WritesOnlyItsSession'
  <2>1. req'[r] = Idle /\ \A q \in Requests : q # r => req'[q] = req[q]
    BY <1>4 DEF SessionsTypeOK
  <2> QED BY <1>2, <2>1 DEF Idle
<1>5. ASSUME NEW r \in Requests, req[r].pc = "idle", NEW pc, NEW t, NEW W, pc # "rotate",
             req' = [req EXCEPT ![r].pc = pc, ![r].token = t, ![r].wants = W]
      PROVE  WritesOnlyItsSession'
  <2>1. /\ \A q \in Requests : q # r => req'[q] = req[q]
        /\ req'[r].pc = pc /\ req'[r].holds = req[r].holds
    BY <1>5 DEF SessionsTypeOK, RequestState
  <2>2. req[r].holds = {}
    BY <1>5 DEF WritesOnlyItsSession
  <2> QED BY <1>2, <1>5, <2>1, <2>2
<1>6. ASSUME NEW r \in Requests, Receive(r) PROVE WritesOnlyItsSession'
  <2>1. CASE Login(r) BY <2>1, <1>3 DEF Login
  <2>2. CASE LogoutAll(r) BY <2>2, <1>3 DEF LogoutAll
  <2>3. CASE Forgot(r) BY <2>3, <1>3 DEF Forgot
  <2>4. CASE OwnerRecovery(r) BY <2>4, <1>3 DEF OwnerRecovery
  <2>5. ASSUME NEW t \in Ids, Logout(r, t) PROVE WritesOnlyItsSession'
    BY <2>5, <1>3 DEF Logout
  <2>6. ASSUME NEW t \in Ids, Refresh(r, t) PROVE WritesOnlyItsSession'
    <3> DEFINE pc == IF t \notin live THEN "replay"
                     ELSE IF t \in expired \/ ~active THEN "revoke" ELSE "claim"
    <3> DEFINE W == IF t \in live THEN {Sess(t)} ELSE {}
    <3>1. req[r].pc = "idle" /\ pc # "rotate"
      BY <2>6 DEF Refresh
    <3>2. req' = [req EXCEPT ![r].pc = pc, ![r].token = t, ![r].wants = W]
      BY <2>6 DEF Refresh
    <3> HIDE DEF pc, W
    <3> QED BY <3>1, <3>2, <1>5
  <2>7. ASSUME NEW k \in ResetIds, ResetPassword(r, k) PROVE WritesOnlyItsSession'
    BY <2>7, <1>5 DEF ResetPassword
  <2> QED BY <1>6, <2>1, <2>2, <2>3, <2>4, <2>5, <2>6, <2>7 DEF Receive
<1>7. ASSUME NEW r \in Requests, Serve(r) \/ Abort(r) PROVE WritesOnlyItsSession'
  <2>1. CASE RefreshClaim(r)
    <3>1. /\ \A q \in Requests : q # r => req'[q] = req[q]
          /\ req'[r].pc = "rotate" /\ req'[r].token = req[r].token
          /\ req'[r].holds = req[r].holds \cup req[r].wants
      BY <2>1 DEF RefreshClaim, Keep, SessionsTypeOK, RequestState
    <3>2. req[r].holds = {} /\ req[r].wants = {Sess(req[r].token)}
      BY <2>1 DEF RefreshClaim, ClaimWants, WritesOnlyItsSession
    <3>3. req'[r].holds = {Sess(req'[r].token)}
      BY <3>1, <3>2
    <3> QED BY <3>1, <3>3, <1>2
  <2>2. CASE LoginNote(r) BY <2>2, <1>3 DEF LoginNote
  <2>3. CASE LoginCount(r) BY <2>3, <1>3 DEF LoginCount
  <2>4. CASE LoginCap(r) BY <2>4, <1>3 DEF LoginCap
  <2>5. CASE RefreshLoses(r) BY <2>5, <1>3 DEF RefreshLoses
  <2>6. CASE EndFamily(r) BY <2>6, <1>3 DEF EndFamily
  <2>7. CASE ForgotDelete(r) BY <2>7, <1>3 DEF ForgotDelete
  <2>8. CASE WritePassword(r) BY <2>8, <1>3 DEF WritePassword
  <2>9. CASE EndSessions(r) BY <2>9, <1>3 DEF EndSessions
  <2>10. CASE EndTokens(r) BY <2>10, <1>3 DEF EndTokens
  <2>11. CASE ResetClaim(r)
    <3>1. Keep(r, "claimed", {User}) \/ req' = [req EXCEPT ![r] = Idle]
      BY <2>11 DEF ResetClaim
    <3> QED BY <3>1, <1>3, <1>4
  <2>12. CASE LoginCreate(r) \/ RefreshRotate(r) \/ Revoke(r) \/ ForgotCreate(r) \/ ResetCommit(r) \/ Abort(r)
    <3>1. req' = [req EXCEPT ![r] = Idle]
      BY <2>12 DEF LoginCreate, RefreshRotate, Revoke, ForgotCreate, ResetCommit, Abort, Commit
    <3> QED BY <3>1, <1>4
  <2> QED BY <1>7, <2>1, <2>2, <2>3, <2>4, <2>5, <2>6, <2>7, <2>8, <2>9, <2>10, <2>11, <2>12
          DEF Serve, LoginStep, RefreshStep, PasswordStep
<1>8. CASE World
  BY <1>8, <1>1 DEF World, Expire, ExpireReset, MinutePasses, SetActive
<1> QED BY <1>1, <1>6, <1>7, <1>8 DEF SessionsNext, vars

\* A transaction that revokes closes the families of what it revoked (the
\* updateMany calls of revokeFamily, logout, logoutAll and resetPassword).
LEMMA RevokingCloses ==
  ASSUME RotationInv, RotationInv', UNCHANGED <<stored, family>>, NEW R, live' = live \ R
  PROVE  \E closed \in SUBSET {family[s] : s \in 1..stored} : Chain!Close(closed)
<1> DEFINE closed == {family[s] : s \in live \cap R}
<1>1. closed \in SUBSET {family[s] : s \in 1..stored}
  BY LiveFamilies
<1>2. \A s, t \in live' : family'[s] = family'[t] => s = t
  BY DEF RotationInv, OneLivePerFamily
<1>3. \A g \in Ids : Heads(live', family')[g] = IF g \in closed THEN 0 ELSE Heads(live, family)[g]
  <2> TAKE g \in Ids
  <2>1. CASE g \in closed
    <3>1. \A s \in live' : family'[s] # g
      BY <2>1, LiveFamilies
    <3> QED BY <2>1, <3>1, <1>2, OneHead
  <2>2. CASE g \notin closed /\ \E s \in live : family[s] = g
    <3>1. PICK s \in live : family[s] = g
      BY <2>2
    <3>2. s \in live' /\ family'[s] = g
      BY <2>2, <3>1
    <3>3. Heads(live', family')[g] = s
      BY <3>2, <1>2, OneHead
    <3>4. Heads(live, family)[g] = s
      BY <3>1, LiveFamilies, OneHead
    <3> QED BY <2>2, <3>3, <3>4
  <2>3. CASE g \notin closed /\ \A s \in live : family[s] # g
    <3>1. \A s \in live' : family'[s] # g
      BY <2>3
    <3>2. Heads(live', family')[g] = 0
      BY <3>1, <1>2, OneHead
    <3>3. Heads(live, family)[g] = 0
      BY <2>3, LiveFamilies, OneHead
    <3> QED BY <2>3, <3>2, <3>3
  <2> QED BY <2>1, <2>2, <2>3
<1>4. Heads(live', family') = [g \in Ids |-> IF g \in closed THEN 0 ELSE Heads(live, family)[g]]
  <2>1. Heads(live', family') = [g \in Ids |-> Heads(live', family')[g]]
    BY DEF Heads
  <2> HIDE DEF closed
  <2> QED BY <1>3, <2>1
<1>5. Chain!Close(closed)
  <2> HIDE DEF closed
  <2> QED BY <1>4, ChainState DEF Chain!Close
<1> QED BY <1>1, <1>5

\* A sign-in opens the family of the session it inserts and closes those the
\* cap revoked (auth.service.ts, issueSession).
LEMMA LoginOpens ==
  ASSUME RotationInv, RotationInv', NEW R, Insert(stored + 1),
         live' = (live \ R) \cup {stored + 1}
  PROVE  \E f \in Ids : Chain!Open(f)
<1>10. PICK f \in Ids : f = stored + 1
  BY LiveFamilies, SessionsAssumption DEF Insert, Ids
<1> DEFINE closed == {family[s] : s \in live \cap R}
<1> DEFINE old == {family[s] : s \in 1..stored}
<1>0. /\ f \in Ids /\ stored' = f /\ stored \in Nat
      /\ \A s \in 1..stored : s # f
      /\ 1..f = 1..stored \cup {f}
  BY <1>10, LiveFamilies, SessionsAssumption DEF Insert, Ids
<1>1. /\ family'[f] = f
      /\ \A s \in 1..stored : family'[s] = family[s] /\ family[s] # f
  <2>1. family' = [family EXCEPT ![f] = f] /\ family \in [Ids -> 0..MaxSessions]
    BY <1>10 DEF Insert, RotationInv, SessionsTypeOK
  <2> QED BY <2>1, <1>0, LiveFamilies
<1>2. f \notin old
  BY <1>1
<1>3. {family'[s] : s \in 1..stored'} = old \cup {f}
  <2>1. \A s \in 1..stored' : s \in 1..stored \/ s = f
    BY <1>0
  <2>2. f \in 1..stored' /\ \A s \in 1..stored : s \in 1..stored'
    BY <1>0
  <2>3. {family'[s] : s \in 1..stored'} \subseteq old \cup {f}
    BY <2>1, <1>1
  <2>4. old \cup {f} \subseteq {family'[s] : s \in 1..stored'}
    BY <2>2, <1>1
  <2> QED BY <2>3, <2>4
<1>4. closed \in SUBSET old
  BY LiveFamilies
<1>5. \A s, t \in live' : family'[s] = family'[t] => s = t
  <2>1. OneLivePerFamily'
    BY DEF RotationInv
  <2> QED BY <2>1 DEF OneLivePerFamily
<1>6. \A s \in live' : s = f \/ (s \in live /\ s \notin R /\ s \in 1..stored)
  BY <1>10, LiveFamilies
<1>7. \A g \in Ids : Heads(live', family')[g] =
        IF g = f THEN f ELSE IF g \in closed THEN 0 ELSE Heads(live, family)[g]
  <2> TAKE g \in Ids
  <2>1. CASE g = f
    <3>1. f \in live' /\ family'[f] \in Ids
      BY <1>10, <1>0, <1>1
    <3> QED BY <2>1, <3>1, <1>1, <1>5, OneHead
  <2>2. CASE g # f /\ g \in closed
    <3>1. \A s \in live' : family'[s] # g
      BY <2>2, <1>1, <1>6, LiveFamilies
    <3>2. Heads(live', family')[g] = 0
      BY <3>1, <1>5, OneHead
    <3> QED BY <2>2, <3>2
  <2>3. CASE g # f /\ g \notin closed /\ \E s \in live : family[s] = g
    <3>1. PICK s \in live : family[s] = g
      BY <2>3
    <3>2. s \in live' /\ family'[s] = g
      BY <2>3, <3>1, <1>1, LiveFamilies
    <3>3. Heads(live', family')[g] = s
      BY <3>2, <1>5, OneHead
    <3>4. Heads(live, family)[g] = s
      BY <3>1, LiveFamilies, OneHead
    <3> QED BY <2>3, <3>3, <3>4
  <2>4. CASE g # f /\ g \notin closed /\ \A s \in live : family[s] # g
    <3>1. \A s \in live' : family'[s] # g
      BY <2>4, <1>1, <1>6
    <3>2. Heads(live', family')[g] = 0
      BY <3>1, <1>5, OneHead
    <3>3. Heads(live, family)[g] = 0
      BY <2>4, LiveFamilies, OneHead
    <3> QED BY <2>4, <3>2, <3>3
  <2> QED BY <2>1, <2>2, <2>3, <2>4
<1>8. Heads(live', family') =
        [g \in Ids |-> IF g = f THEN f ELSE IF g \in closed THEN 0 ELSE Heads(live, family)[g]]
  <2>1. Heads(live', family') = [g \in Ids |-> Heads(live', family')[g]]
    BY DEF Heads
  <2> HIDE DEF closed
  <2> QED BY <1>7, <2>1
<1>9. Chain!Open(f)
  <2>1. f \notin {family[s] : s \in 1..stored}
    BY <1>2
  <2>2. {family'[s] : s \in 1..stored'} = {family[s] : s \in 1..stored} \cup {f}
    BY <1>3
  <2>3. closed \in SUBSET {family[s] : s \in 1..stored}
    BY <1>4
  <2> HIDE DEF closed, old
  <2>4. \E C \in SUBSET {family[s] : s \in 1..stored} : Current' =
          [g \in Ids |-> IF g = f THEN f ELSE IF g \in C THEN 0 ELSE Current[g]]
    BY <2>3, <1>8, ChainState
  <2> QED BY <2>1, <2>2, <2>4 DEF Chain!Open
<1> QED BY <1>0, <1>9

\* A rotation replaces the current token of its family by a newer one, and
\* leaves every other family alone (auth.service.ts:202-222).
LEMMA RotationExtends ==
  ASSUME RotationInv, RotationInv', NEW t \in live, Insert(family[t]),
         live' = (live \ {t}) \cup {stored + 1}
  PROVE  \E f, u \in Ids : Chain!Rotate(f, u)
<1> DEFINE f == family[t]
<1> DEFINE u == stored + 1
<1>0. /\ u \in Ids /\ stored' = u /\ stored \in Nat /\ t \in 1..stored
      /\ f \in Ids /\ u > t /\ t # 0
      /\ \A s \in 1..stored : s # u
  BY LiveFamilies, SessionsAssumption DEF Insert, Ids
<1>1. family'[u] = f /\ \A s \in 1..stored : family'[s] = family[s]
  <2>1. family' = [family EXCEPT ![u] = f] /\ family \in [Ids -> 0..MaxSessions]
    BY DEF Insert, RotationInv, SessionsTypeOK
  <2> QED BY <2>1, <1>0, LiveFamilies
<1>2. {family'[s] : s \in 1..stored'} = {family[s] : s \in 1..stored}
  <2>1. \A s \in 1..stored' : s \in 1..stored \/ s = u
    BY <1>0
  <2>2. \A s \in 1..stored : s \in 1..stored'
    BY <1>0
  <2>3. {family'[s] : s \in 1..stored'} \subseteq {family[s] : s \in 1..stored}
    BY <2>1, <1>0, <1>1
  <2>4. {family[s] : s \in 1..stored} \subseteq {family'[s] : s \in 1..stored'}
    BY <2>2, <1>1
  <2> QED BY <2>3, <2>4
<1>3. \A s, v \in live' : family'[s] = family'[v] => s = v
  BY DEF RotationInv, OneLivePerFamily
<1>4. Heads(live, family)[f] = t
  BY <1>0, LiveFamilies, OneHead
<1>5. Heads(live', family')[f] = u
  <2>1. u \in live' /\ family'[u] = f /\ f \in Ids
    BY <1>0, <1>1
  <2> HIDE DEF f, u
  <2> QED BY <2>1, <1>3, OneHead
<1>6. ASSUME NEW g \in Ids, g # f PROVE Heads(live', family')[g] = Heads(live, family)[g]
  <2>1. CASE \E s \in live : family[s] = g
    <3>1. PICK s \in live : family[s] = g
      BY <2>1
    <3>2. s \in live' /\ family'[s] = g
      BY <1>6, <3>1, <1>1, LiveFamilies
    <3>3. Heads(live', family')[g] = s
      BY <3>2, <1>3, OneHead
    <3>4. Heads(live, family)[g] = s
      BY <3>1, LiveFamilies, OneHead
    <3> QED BY <3>3, <3>4
  <2>2. CASE \A s \in live : family[s] # g
    <3>1. \A s \in live' : family'[s] # g
      BY <1>6, <2>2, <1>1, LiveFamilies
    <3>2. Heads(live', family')[g] = 0
      BY <3>1, <1>3, OneHead
    <3>3. Heads(live, family)[g] = 0
      BY <2>2, LiveFamilies, OneHead
    <3> QED BY <3>2, <3>3
  <2> QED BY <2>1, <2>2
<1>7. Heads(live', family') = [Heads(live, family) EXCEPT ![f] = u]
  <2>1. /\ Heads(live', family') = [g \in Ids |-> Heads(live', family')[g]]
        /\ Heads(live, family) = [g \in Ids |-> Heads(live, family)[g]]
    BY DEF Heads
  <2> HIDE DEF f, u
  <2> QED BY <1>5, <1>6, <2>1
<1>8. Chain!Rotate(f, u)
  <2> HIDE DEF f, u
  <2> QED BY <1>0, <1>2, <1>4, <1>7, ChainState DEF Chain!Rotate
<1> QED BY <1>0, <1>8

\* Every step of a request is a step of the chains, or changes none of them.
LEMMA ChainSteps ==
  ASSUME ChainInv, RotationInv', [SessionsNext]_vars
  PROVE  [Chain!ChainNext]_(Chain!chain)
<1> USE DEF ChainInv
<1>1. ASSUME UNCHANGED <<stored, family, live>> PROVE [Chain!ChainNext]_(Chain!chain)
  BY <1>1, ChainState DEF Chain!chain
<1>2. ASSUME NEW r \in Requests, LoginCreate(r) PROVE [Chain!ChainNext]_(Chain!chain)
  <2>1. Insert(stored + 1) /\ live' = (live \ Revoked(r)) \cup {stored + 1}
    BY <1>2 DEF LoginCreate, Commit
  <2> QED BY <2>1, LoginOpens DEF Chain!ChainNext
<1>3. ASSUME NEW r \in Requests, RefreshRotate(r) PROVE [Chain!ChainNext]_(Chain!chain)
  <2> DEFINE t == req[r].token
  <2>1. t \in live /\ req[r].wants = {} /\ req[r].holds = {Sess(t)}
    BY <1>3 DEF RefreshRotate, RotationInv, RotationHolds, WritesOnlyItsSession
  <2>2. Revoked(r) = {t}
    <3>1. Written(r) = {Sess(t)} /\ t \in Ids
      BY <2>1, LiveFamilies DEF Written
    <3>2. \A s \in Ids : Sess(s) = Sess(t) <=> s = t
      BY DEF Sess
    <3> QED BY <3>1, <3>2 DEF Revoked
  <2>3. Insert(family[t]) /\ live' = (live \ {t}) \cup {stored + 1}
    BY <1>3, <2>2 DEF RefreshRotate, Commit
  <2> QED BY <2>1, <2>3, RotationExtends DEF Chain!ChainNext
<1>4. ASSUME NEW r \in Requests, Revoke(r) \/ ForgotCreate(r) \/ ResetCommit(r)
      PROVE  [Chain!ChainNext]_(Chain!chain)
  <2>1. UNCHANGED <<stored, family>> /\ live' = live \ Revoked(r)
    BY <1>4 DEF Revoke, ForgotCreate, ResetCommit, Commit
  <2> QED BY <2>1, RevokingCloses DEF Chain!ChainNext
<1>5. ASSUME NEW r \in Requests,
             \/ Receive(r) \/ Abort(r)
             \/ LoginNote(r) \/ LoginCount(r) \/ LoginCap(r) \/ RefreshClaim(r) \/ RefreshLoses(r) \/ EndFamily(r)
             \/ ForgotDelete(r) \/ ResetClaim(r) \/ WritePassword(r) \/ EndSessions(r) \/ EndTokens(r)
      PROVE  [Chain!ChainNext]_(Chain!chain)
  <2>1. UNCHANGED tables
    BY <1>5 DEF Receive, Login, LogoutAll, Forgot, OwnerRecovery, Refresh, Logout, ResetPassword,
                LoginNote, LoginCount, LoginCap, RefreshClaim, RefreshLoses, EndFamily, ForgotDelete,
                ResetClaim, WritePassword, EndSessions, EndTokens, Abort
  <2> QED BY <2>1, <1>1 DEF tables
<1>6. CASE World
  BY <1>6, <1>1 DEF World, Expire, ExpireReset, MinutePasses, SetActive
<1>7. CASE UNCHANGED vars
  BY <1>7, <1>1 DEF vars
<1> QED BY <1>2, <1>3, <1>4, <1>5, <1>6, <1>7
        DEF SessionsNext, Serve, LoginStep, RefreshStep, PasswordStep

\* The refresh sessions of an account are chains of tokens, for any number of
\* requests and sessions: a family that ended never gets a token again
\* (KeepsChain; AuthService refines TokenFamilies).
THEOREM SessionsAreChains == SessionsSpec => KeepsChain
<1>1. SessionsInit => Chain!ChainInit /\ WritesOnlyItsSession
  <2> SUFFICES ASSUME SessionsInit PROVE Chain!ChainInit /\ WritesOnlyItsSession
    OBVIOUS
  <2>1. {family[s] : s \in 1..stored} = {} /\ Current = [f \in Ids |-> 0]
    BY DEF SessionsInit, Current
  <2>2. WritesOnlyItsSession
    BY DEF SessionsInit, WritesOnlyItsSession, Idle
  <2> QED BY <2>1, <2>2 DEF Chain!ChainInit
<1>2. ChainInv /\ RotationInv' /\ [SessionsNext]_vars => WritesOnlyItsSession'
  BY WritesKept
<1>3. ChainInv /\ RotationInv' /\ [SessionsNext]_vars => [Chain!ChainNext]_(Chain!chain)
  BY ChainSteps
<1> QED BY <1>1, <1>2, <1>3, RotationsAreSafe, PTL
        DEF SessionsSpec, KeepsChain, Chain!ChainSpec, ChainInv
=============================================================================
