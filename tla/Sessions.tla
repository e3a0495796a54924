------------------------------ MODULE Sessions ------------------------------
(***************************************************************************)
(* The refresh sessions of one account: AuthService of                     *)
(* apps/api/src/modules/auth/auth.service.ts over the tables               *)
(* RefreshSession and PasswordResetToken. Requests run at the same time in *)
(* READ COMMITTED transactions, so every action is one statement:          *)
(*  - a statement sees what was committed when it began;                   *)
(*  - a row that an open transaction has written is waited for;            *)
(*  - a conditional update tests its condition again on the row it waited  *)
(*    for, but never sees a row that was inserted meanwhile.               *)
(* Sessions are numbered as they are inserted; the number also stands for  *)
(* the token, whose hash is unique. Passwords, devices and the throttling  *)
(* of failed logins are left out.                                          *)
(***************************************************************************)
EXTENDS Naturals, FiniteSets

CONSTANTS
  Requests,                 \* requests that are served at the same time
  MaxSessions,              \* bound: sessions that are ever inserted
  MaxResets,                \* bound: reset tokens that are ever inserted
  Cap                       \* live sessions a login leaves (20 in the code)

ASSUME SessionsAssumption ==
  /\ MaxSessions \in Nat
  /\ MaxResets \in Nat
  /\ Cap \in Nat \ {0}

VARIABLES
  stored,                   \* how many sessions were inserted
  family,                   \* family[s]: the session that began s's family
  live,                     \* sessions with revokedAt = null
  expired,                  \* sessions past their expiresAt
  issued,                   \* how many reset tokens were inserted
  usable,                   \* reset tokens that exist, are unused and unexpired
  recent,                   \* a reset token was created in the last minute
  active,                   \* the user is active and so is its tenant
  changes,                  \* changes[k]: password changes made with reset token k
  req                       \* the local state of each request

vars == <<stored, family, live, expired, issued, usable, recent, active, changes, req>>
tables == <<stored, family, live, expired, issued, usable, recent, active, changes>>

Ids == 1..MaxSessions
ResetIds == 1..MaxResets

\* What a statement writes: it revokes a session, notes why a session ended,
\* uses or deletes a reset token, or updates the user. The first two lock the
\* same row.
Sess(s) == <<"session", s>>
Note(s) == <<"note", s>>
Reset(k) == <<"reset", k>>
User == <<"user", 0>>
Rows == {Sess(s) : s \in Ids} \cup {Note(s) : s \in Ids}
          \cup {Reset(k) : k \in ResetIds} \cup {User}

PCs == {"idle", "login", "note", "cap", "create", "claim", "rotate", "replay", "revoke",
        "forgot", "mail", "reset", "claimed", "owner", "end", "purge"}

\* A request: the token it works on, the rows its next statement writes
\* and the rows its open transaction has written.
RequestState == [pc : PCs, token : Nat, wants : SUBSET Rows, holds : SUBSET Rows]
Idle == [pc |-> "idle", token |-> 0, wants |-> {}, holds |-> {}]

SessionsInit ==
  /\ stored = 0
  /\ family = [s \in Ids |-> 0]
  /\ live = {}
  /\ expired = {}
  /\ issued = 0
  /\ usable = {}
  /\ recent = FALSE
  /\ active = TRUE
  /\ changes = [k \in ResetIds |-> 0]
  /\ req = [r \in Requests |-> Idle]

----------------------------------------------------------------------------
(* Statements and transactions *)

Locks(W) == W \cup {Sess(s) : s \in {s \in Ids : Note(s) \in W}}
Blockers(r) ==
  {q \in Requests \ {r} : Locks(req[q].holds) \cap Locks(req[r].wants) # {}}
Granted(r) == Blockers(r) = {}

Goto(r, pc, wants) == req' = [req EXCEPT ![r].pc = pc, ![r].wants = wants]

\* The statement has its rows: the transaction goes on and keeps them.
Keep(r, pc, wants) ==
  req' = [req EXCEPT ![r].pc = pc, ![r].wants = wants, ![r].holds = @ \cup req[r].wants]

Written(r) == req[r].holds \cup req[r].wants
Revoked(r) == {s \in Ids : Sess(s) \in Written(r)}
Spent(r) == {k \in ResetIds : Reset(k) \in Written(r)}

\* A variant that leaves the sessions it wrote as they were.
CommitKeepsOld(r, newSession, newReset) ==
  /\ live' = live \cup newSession
  /\ usable' = (usable \ Spent(r)) \cup newReset
  /\ req' = [req EXCEPT ![r] = Idle]

\* Commit: the sessions written are revoked, the reset tokens used or deleted.
Commit(r, newSession, newReset) ==
  /\ live' = (live \ Revoked(r)) \cup newSession
  /\ usable' = (usable \ Spent(r)) \cup newReset
  /\ req' = [req EXCEPT ![r] = Idle]

\* A new row for a session, in family f.
Insert(f) ==
  /\ stored < MaxSessions
  /\ stored' = stored + 1
  /\ family' = [family EXCEPT ![stored + 1] = f]

Creators == {r \in Requests : req[r].pc \in {"login", "note", "cap", "create", "claim", "rotate"}}
Room == stored + Cardinality(Creators) < MaxSessions

----------------------------------------------------------------------------
(* login *)

\* The credentials are right; the hash comparison is slow.
Login(r) ==
  /\ req[r].pc = "idle"
  /\ active
  /\ Room
  /\ Goto(r, "login", {})
  /\ UNCHANGED tables

\* All but the newest n of a set of sessions.
Beyond(S, n) == {s \in S : Cardinality({t \in S : t > s}) >= n}

\* The reason is noted on the sessions that have expired or were revoked.
LoginNote(r) ==
  /\ req[r].pc = "login"
  /\ Goto(r, "note", {Note(s) : s \in {s \in 1..stored : s \in expired \/ s \notin live}})
  /\ UNCHANGED tables

LoginCount(r) ==
  /\ req[r].pc = "note"
  /\ Granted(r)
  /\ Keep(r, "cap", {Sess(s) : s \in Beyond(live \ expired, Cap - 1)})
  /\ UNCHANGED tables

LoginCap(r) ==
  /\ req[r].pc = "cap"
  /\ Granted(r)
  /\ Keep(r, "create", {User})
  /\ UNCHANGED tables

LoginCreate(r) ==
  /\ req[r].pc = "create"
  /\ Granted(r)
  /\ Insert(stored + 1)
  /\ Commit(r, {stored + 1}, {})
  /\ UNCHANGED <<expired, issued, recent, active, changes>>

----------------------------------------------------------------------------
(* refresh and logout *)

\* The session is found by its token: reuse, refusal or rotation.
Refresh(r, t) ==
  /\ req[r].pc = "idle"
  /\ t <= stored
  /\ req' = [req EXCEPT
       ![r].pc = IF t \notin live THEN "replay"
                 ELSE IF t \in expired \/ ~active THEN "revoke" ELSE "claim",
       ![r].token = t,
       ![r].wants = IF t \in live THEN {Sess(t)} ELSE {}]
  /\ (t \in live /\ t \notin expired /\ active) => Room
  /\ UNCHANGED tables

\* A variant that rotates whatever session it found.
ClaimAnyway(r) ==
  /\ req[r].pc = "claim"
  /\ Granted(r)
  /\ Keep(r, "rotate", {})
  /\ UNCHANGED tables

\* The conditional update of the rotation wins the session ...
RefreshClaim(r) ==
  /\ req[r].pc = "claim"
  /\ Granted(r)
  /\ req[r].token \in live
  /\ Keep(r, "rotate", {})
  /\ UNCHANGED tables

\* A variant in which the loser tries again.
ClaimAgain(r) ==
  /\ req[r].pc = "claim"
  /\ Granted(r)
  /\ req[r].token \notin live
  /\ Goto(r, "claim", {Sess(req[r].token)})
  /\ UNCHANGED tables

\* ... or finds it rotated or revoked, and rolls back.
RefreshLoses(r) ==
  /\ req[r].pc = "claim"
  /\ Granted(r)
  /\ req[r].token \notin live
  /\ Goto(r, "replay", {})
  /\ UNCHANGED tables

RefreshRotate(r) ==
  /\ req[r].pc = "rotate"
  /\ Insert(family[req[r].token])
  /\ Commit(r, {stored + 1}, {})
  /\ UNCHANGED <<expired, issued, recent, active, changes>>

\* The update that ends a family begins: these are the rows it sees.
EndFamily(r) ==
  /\ req[r].pc = "replay"
  /\ Goto(r, "revoke", {Sess(s) : s \in {s \in live : family[s] = family[req[r].token]}})
  /\ UNCHANGED tables

Logout(r, t) ==
  /\ req[r].pc = "idle"
  /\ t \in live
  /\ Goto(r, "revoke", {Sess(t)})
  /\ UNCHANGED tables

LogoutAll(r) ==
  /\ req[r].pc = "idle"
  /\ active
  /\ Goto(r, "revoke", {Sess(s) : s \in live})
  /\ UNCHANGED tables

Revoke(r) ==
  /\ req[r].pc = "revoke"
  /\ Granted(r)
  /\ Commit(r, {}, {})
  /\ UNCHANGED <<stored, family, expired, issued, recent, active, changes>>

----------------------------------------------------------------------------
(* forgotPassword, resetPassword, ownerRecovery *)

Forgot(r) ==
  /\ req[r].pc = "idle"
  /\ active
  /\ ~recent
  /\ issued + Cardinality({q \in Requests : req[q].pc \in {"forgot", "mail"}}) < MaxResets
  /\ Goto(r, "forgot", {})
  /\ UNCHANGED tables

\* Tokens that no reset used; those that were deleted are in nobody's way.
Unused == {k \in 1..issued : changes[k] = 0}

ForgotDelete(r) ==
  /\ req[r].pc = "forgot"
  /\ Goto(r, "mail", {Reset(k) : k \in Unused})
  /\ UNCHANGED tables

ForgotCreate(r) ==
  /\ req[r].pc = "mail"
  /\ Granted(r)
  /\ issued < MaxResets
  /\ issued' = issued + 1
  /\ recent' = TRUE
  /\ Commit(r, {}, {issued + 1})
  /\ UNCHANGED <<stored, family, expired, active, changes>>

\* The token is found usable; hashing the new password is slow.
ResetPassword(r, k) ==
  /\ req[r].pc = "idle"
  /\ active
  /\ k \in usable
  /\ req' = [req EXCEPT ![r].pc = "reset", ![r].token = k, ![r].wants = {Reset(k)}]
  /\ UNCHANGED tables

\* A variant that trusts what it read before the hashing.
ResetUnchecked(r) ==
  /\ req[r].pc = "reset"
  /\ Granted(r)
  /\ Keep(r, "claimed", {User})
  /\ UNCHANGED tables

ResetClaim(r) ==
  /\ req[r].pc = "reset"
  /\ Granted(r)
  /\ IF req[r].token \in usable
     THEN Keep(r, "claimed", {User})
     ELSE req' = [req EXCEPT ![r] = Idle]
  /\ UNCHANGED tables

\* Owner recovery is authorised by the operator's code, not by a token.
OwnerRecovery(r) ==
  /\ req[r].pc = "idle"
  /\ active
  /\ Goto(r, "claimed", {User})
  /\ UNCHANGED tables

\* The password is written: the row of the user is locked.
WritePassword(r) ==
  /\ req[r].pc = "claimed"
  /\ Granted(r)
  /\ Keep(r, "owner", {})
  /\ UNCHANGED tables

\* The update that ends the sessions begins ...
EndSessions(r) ==
  /\ req[r].pc = "owner"
  /\ Goto(r, "end", {Sess(s) : s \in live})
  /\ UNCHANGED tables

\* ... is done, and the one that deletes the other tokens begins.
EndTokens(r) ==
  /\ req[r].pc = "end"
  /\ Granted(r)
  /\ Keep(r, "purge", {Reset(k) : k \in (1..issued) \ {req[r].token}})
  /\ UNCHANGED tables

ResetCommit(r) ==
  /\ req[r].pc = "purge"
  /\ Granted(r)
  /\ Commit(r, {}, {})
  /\ changes' = [k \in ResetIds |-> IF k = req[r].token THEN changes[k] + 1 ELSE changes[k]]
  /\ UNCHANGED <<stored, family, expired, issued, recent, active>>

----------------------------------------------------------------------------
(* What happens around the requests *)

\* A statement fails, the transaction times out or the process dies: rollback.
Abort(r) ==
  /\ req[r].pc # "idle"
  /\ req' = [req EXCEPT ![r] = Idle]
  /\ UNCHANGED tables

\* Requests that wait for each other in a circle: the database ends one.
Stuck(r) ==
  \E S \in SUBSET Requests :
    /\ r \in S
    /\ \A q \in S : Blockers(q) \cap S # {} /\ \E p \in S : q \in Blockers(p)

DeadlockVictim(r) == Stuck(r) /\ Abort(r)

Expire(s) ==
  /\ s \in live \ expired
  /\ expired' = expired \cup {s}
  /\ UNCHANGED <<stored, family, live, issued, usable, recent, active, changes, req>>

ExpireReset(k) ==
  /\ k \in usable
  /\ usable' = usable \ {k}
  /\ UNCHANGED <<stored, family, live, expired, issued, recent, active, changes, req>>

MinutePasses ==
  /\ recent
  /\ recent' = FALSE
  /\ UNCHANGED <<stored, family, live, expired, issued, usable, active, changes, req>>

\* A tenant is suspended or activated again.
SetActive ==
  /\ active' = ~active
  /\ UNCHANGED <<stored, family, live, expired, issued, usable, recent, changes, req>>

LoginStep(r) == LoginNote(r) \/ LoginCount(r) \/ LoginCap(r) \/ LoginCreate(r)
RefreshStep(r) ==
  RefreshClaim(r) \/ RefreshLoses(r) \/ RefreshRotate(r) \/ EndFamily(r) \/ Revoke(r)
PasswordStep(r) ==
  \/ ForgotDelete(r) \/ ForgotCreate(r) \/ ResetClaim(r) \/ WritePassword(r)
  \/ EndSessions(r) \/ EndTokens(r) \/ ResetCommit(r)

Serve(r) == LoginStep(r) \/ RefreshStep(r) \/ PasswordStep(r)

Receive(r) ==
  \/ Login(r) \/ LogoutAll(r) \/ Forgot(r) \/ OwnerRecovery(r)
  \/ \E t \in Ids : Refresh(r, t) \/ Logout(r, t)
  \/ \E k \in ResetIds : ResetPassword(r, k)

World ==
  \/ \E s \in Ids : Expire(s)
  \/ \E k \in ResetIds : ExpireReset(k)
  \/ MinutePasses
  \/ SetActive

SessionsNext ==
  \/ \E r \in Requests : Receive(r) \/ Serve(r) \/ Abort(r)
  \/ World

SessionsSpec == SessionsInit /\ [][SessionsNext]_vars

\* A request in progress goes on, and the database breaks circles. Strong
\* fairness: who waits for a row stands in a queue and gets it in its turn.
SessionsFair ==
  /\ SessionsSpec
  /\ \A r \in Requests : SF_vars(Serve(r)) /\ WF_vars(DeadlockVictim(r))

----------------------------------------------------------------------------
(* Properties *)

\* The tables and the requests keep their types.
SessionsTypeOK ==
  /\ stored \in 0..MaxSessions
  /\ family \in [Ids -> 0..MaxSessions]
  /\ live \subseteq 1..stored
  /\ expired \subseteq 1..stored
  /\ issued \in 0..MaxResets
  /\ usable \subseteq 1..issued
  /\ recent \in BOOLEAN
  /\ active \in BOOLEAN
  /\ changes \in [ResetIds -> Nat]
  /\ req \in [Requests -> RequestState]

\* However refreshes, logins, logouts and resets overlap, a family has at
\* most one live session: of two refreshes with one token only one extends it
\* (auth.service.ts:202-212).
OneLivePerFamily ==
  \A s, t \in live : family[s] = family[t] => s = t

\* A reset token changes the password once, whatever else uses, deletes or
\* re-issues tokens meanwhile (auth.service.ts:325-330).
ResetOnce ==
  \A k \in ResetIds : changes[k] <= 1

Current == [f \in Ids |-> IF \E s \in live : family[s] = f
                          THEN CHOOSE s \in live : family[s] = f ELSE 0]

Chain == INSTANCE TokenFamilies WITH
  Tokens <- Ids, opened <- {family[s] : s \in 1..stored}, current <- Current

\* The sessions are chains of tokens: a family that was ended, by reuse, a
\* logout, the cap or a reset, never gets a token again.
KeepsChain == Chain!ChainSpec

\* No request waits for ever: two resets, or a login at its cap and a reset,
\* lock rows in opposite orders, and nothing else keeps a request waiting.
RequestsFinish ==
  \A r \in Requests : req[r].pc # "idle" ~> req[r].pc = "idle"
=============================================================================
