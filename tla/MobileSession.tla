---------------------------- MODULE MobileSession ----------------------------
(***************************************************************************)
(* The session of the mobile application: apps/mobile/src/lib/api.ts and   *)
(* session.tsx, against a server that rotates refresh tokens and ends a    *)
(* family when one of its old tokens comes back (Sessions). Requests of    *)
(* the screens run at the same time; each step ends where the code awaits. *)
(* Answers may be lost and the application may be killed at any time; what *)
(* it stored is kept.                                                      *)
(***************************************************************************)
EXTENDS Naturals, FiniteSets

CONSTANTS
  Callers,                  \* calls of api that run at the same time
  Start,                    \* restoreSession, which also waits for a refresh
  Nobody,                   \* no call
  MaxTokens,                \* bound: refresh tokens that are ever issued
  MaxKills                  \* bound: how often the application is killed

ASSUME MobileAssumption ==
  /\ MaxTokens \in Nat \ {0}
  /\ MaxKills \in Nat
  /\ Start \notin Callers /\ Nobody \notin Callers \cup {Start}

VARIABLES
  access,                   \* accessToken in memory
  kept,                     \* the refresh token in the storage, 0 when none
  screen,                   \* state.status of the session provider
  call,                     \* the calls, and restoreSession
  refreshing,               \* whose refresh is shared, Nobody when none runs
  flight,                   \* the refresh of each call: its step and its token
  sign,                     \* signIn or signOut: its step and its token
  server,                   \* tokens issued, their families, the current tokens
  kills,                    \* how often the application was killed
  lost,                     \* history: a granted token never reached the storage
  replayed                  \* history: an old token came back to the server

mobileVars == <<access, kept, screen, call, refreshing, flight, sign, server,
                kills, lost, replayed>>

Waiters == Callers \cup {Start}
Tokens == 1..MaxTokens
Access == {"none", "valid", "expired"}
CallPCs == {"idle", "sent", "waiting", "resent"}
FlightPCs == {"none", "read", "sent", "granted", "store", "rejected", "remove", "failed"}

NoFlight == [pc |-> "none", token |-> 0]
NoCall == [pc |-> "idle", valid |-> FALSE, for |-> Nobody]

MobileInit ==
  /\ access = "none"
  /\ kept = 0
  /\ screen = "loading"
  /\ call = [c \in Waiters |-> NoCall]
  /\ refreshing = Nobody
  /\ flight = [c \in Waiters |-> NoFlight]
  /\ sign = [pc |-> "idle", token |-> 0]
  /\ server = [issued |-> 0, family |-> [t \in Tokens |-> 0], current |-> {}]
  /\ kills = 0
  /\ lost = FALSE
  /\ replayed = FALSE

FlightAt(c, pc) == flight[c].pc = pc
FlightGoto(c, pc) == flight' = [flight EXCEPT ![c].pc = pc]

----------------------------------------------------------------------------
(* The server *)

Issue(f, ended) ==
  /\ server.issued < MaxTokens
  /\ LET t == server.issued + 1
     IN  server' = [issued |-> t,
                    family |-> [server.family EXCEPT ![t] = IF f = 0 THEN t ELSE f],
                    current |-> (server.current \ ended) \cup {t}]

Kin(t) == {s \in server.current : server.family[s] = server.family[t]}

\* A refresh rotates a current token; an old one ends what is left of its family.
ServeRefresh(c) ==
  /\ FlightAt(c, "sent")
  /\ LET t == flight[c].token IN
       IF t \in server.current
       THEN /\ Issue(server.family[t], {t})
            /\ flight' = [flight EXCEPT ![c] = [pc |-> "granted", token |-> server.issued + 1]]
            /\ UNCHANGED replayed
       ELSE /\ replayed' = (replayed \/ Kin(t) # {})
            /\ server' = [server EXCEPT !.current = @ \ Kin(t)]
            /\ FlightGoto(c, "rejected")
  /\ UNCHANGED <<access, kept, screen, call, refreshing, sign, kills, lost>>

\* The session is revoked elsewhere, or expires.
EndSession(t) ==
  /\ t \in server.current
  /\ server' = [server EXCEPT !.current = @ \ {t}]
  /\ UNCHANGED <<access, kept, screen, call, refreshing, flight, sign, kills, lost, replayed>>

AccessExpires ==
  /\ access = "valid"
  /\ access' = "expired"
  /\ UNCHANGED <<kept, screen, call, refreshing, flight, sign, server, kills, lost, replayed>>

----------------------------------------------------------------------------
(* refresh *)

\* A variant without the shared promise.
OwnFlight(c) ==
  /\ refreshing' = c
  /\ flight' = [flight EXCEPT ![c] = [pc |-> "read", token |-> 0]]
  /\ call' = [call EXCEPT ![c] = [pc |-> "waiting", valid |-> FALSE, for |-> c]]

\* refreshing ??= ...: the first caller starts the refresh, the others wait for it.
JoinRefresh(c) ==
  IF refreshing = Nobody
  THEN OwnFlight(c)
  ELSE /\ call' = [call EXCEPT ![c] = [pc |-> "waiting", valid |-> FALSE, for |-> refreshing]]
       /\ UNCHANGED <<refreshing, flight>>

Released(c, result) == IF refreshing = c THEN Nobody ELSE refreshing

\* The promise settles: those who wait for it go on. TRUE: they send again with
\* the new access token; FALSE: the handler shows the login; an error: they fail.
Settle(c, result, now) ==
  /\ refreshing' = Released(c, result)
  /\ flight' = [flight EXCEPT ![c] = NoFlight]
  /\ LET waiting == {d \in Waiters : call[d].pc = "waiting" /\ call[d].for = c} IN
       /\ call' = [d \in Waiters |->
                     IF d \notin waiting THEN call[d]
                     ELSE IF result = "true" /\ d # Start
                          THEN [pc |-> "resent", valid |-> now = "valid", for |-> Nobody]
                          ELSE NoCall]
       /\ screen' = CASE Start \in waiting -> IF result = "true" THEN "in" ELSE "out"
                      [] Start \notin waiting /\ waiting # {} /\ result = "false" -> "out"
                      [] OTHER -> screen

ReadToken(c) ==
  /\ FlightAt(c, "read")
  /\ IF kept = 0
     THEN Settle(c, "false", access)
     ELSE /\ flight' = [flight EXCEPT ![c] = [pc |-> "sent", token |-> kept]]
          /\ UNCHANGED <<screen, call, refreshing>>
  /\ UNCHANGED <<access, kept, sign, server, kills, lost, replayed>>

\* remember: the access token first, then the refresh token.
RememberAccess(c) ==
  /\ FlightAt(c, "granted")
  /\ access' = "valid"
  /\ FlightGoto(c, "store")
  /\ UNCHANGED <<kept, screen, call, refreshing, sign, server, kills, lost, replayed>>

StoreToken(c) ==
  /\ FlightAt(c, "store")
  /\ kept' = flight[c].token
  /\ Settle(c, "true", access)
  /\ UNCHANGED <<access, sign, server, kills, lost, replayed>>

\* clearSession after a rejection.
ForgetAccess(c) ==
  /\ FlightAt(c, "rejected")
  /\ access' = "none"
  /\ FlightGoto(c, "remove")
  /\ UNCHANGED <<kept, screen, call, refreshing, sign, server, kills, lost, replayed>>

RemoveToken(c) ==
  /\ FlightAt(c, "remove")
  /\ kept' = 0
  /\ Settle(c, "false", access)
  /\ UNCHANGED <<access, sign, server, kills, lost, replayed>>

\* Offline or server down, before or after the server served the request.
LoseAnswer(c) ==
  /\ flight[c].pc \in {"sent", "granted", "rejected"}
  /\ FlightGoto(c, "failed")
  /\ lost' = (lost \/ FlightAt(c, "granted"))
  /\ UNCHANGED <<access, kept, screen, call, refreshing, sign, server, kills, replayed>>

\* The stored token is kept.
RefreshFails(c) ==
  /\ FlightAt(c, "failed")
  /\ Settle(c, "error", access)
  /\ UNCHANGED <<access, kept, sign, server, kills, lost, replayed>>

StepOfRefresh(c) ==
  \/ ReadToken(c) \/ ServeRefresh(c) \/ RememberAccess(c) \/ StoreToken(c)
  \/ ForgetAccess(c) \/ RemoveToken(c) \/ RefreshFails(c)

----------------------------------------------------------------------------
(* api, restoreSession, signIn, signOut *)

Restore ==
  /\ screen = "loading" /\ call[Start].pc = "idle"
  /\ IF kept = 0
     THEN screen' = "out" /\ UNCHANGED <<call, refreshing, flight>>
     ELSE JoinRefresh(Start) /\ UNCHANGED screen
  /\ UNCHANGED <<access, kept, sign, server, kills, lost, replayed>>

Call(c) ==
  /\ screen = "in" /\ call[c].pc = "idle"
  /\ call' = [call EXCEPT ![c] = [pc |-> "sent", valid |-> access = "valid", for |-> Nobody]]
  /\ UNCHANGED <<access, kept, screen, refreshing, flight, sign, server, kills, lost, replayed>>

\* The answer, or a failure of the network; a 401 asks for a refresh.
AnswerCall(c) ==
  /\ call[c].pc = "sent"
  /\ \/ call' = [call EXCEPT ![c] = NoCall] /\ UNCHANGED <<refreshing, flight>>
     \/ ~call[c].valid /\ JoinRefresh(c)
  /\ UNCHANGED <<access, kept, screen, sign, server, kills, lost, replayed>>

\* Sent again: another 401 shows the login and keeps the stored token.
AnswerAgain(c) ==
  /\ call[c].pc = "resent"
  /\ call' = [call EXCEPT ![c] = NoCall]
  /\ screen' \in IF call[c].valid THEN {screen} ELSE {screen, "out"}
  /\ UNCHANGED <<access, kept, refreshing, flight, sign, server, kills, lost, replayed>>

SignIn ==
  /\ screen = "out" /\ sign.pc = "idle"
  /\ Issue(0, {})
  /\ sign' = [pc |-> "in", token |-> server.issued + 1]
  /\ UNCHANGED <<access, kept, screen, call, refreshing, flight, kills, lost, replayed>>

SignedIn ==
  /\ sign.pc = "in"
  /\ access' = "valid"
  /\ kept' = sign.token
  /\ screen' = "in"
  /\ sign' = [pc |-> "idle", token |-> 0]
  /\ UNCHANGED <<call, refreshing, flight, server, kills, lost, replayed>>

\* signOut reads the token, clears the session and tells the server.
SignOut ==
  /\ screen = "in" /\ sign.pc = "idle"
  /\ sign' = [pc |-> "clear", token |-> kept]
  /\ UNCHANGED <<access, kept, screen, call, refreshing, flight, server, kills, lost, replayed>>

ClearSession ==
  /\ sign.pc = "clear"
  /\ access' = "none"
  /\ kept' = 0
  /\ sign' = [sign EXCEPT !.pc = "logout"]
  /\ UNCHANGED <<screen, call, refreshing, flight, server, kills, lost, replayed>>

\* The server may not hear of it; the login is shown all the same.
SignedOut ==
  /\ sign.pc = "logout"
  /\ \/ server' = [server EXCEPT !.current = @ \ {sign.token}]
     \/ UNCHANGED server
  /\ screen' = "out"
  /\ sign' = [pc |-> "idle", token |-> 0]
  /\ UNCHANGED <<access, kept, call, refreshing, flight, kills, lost, replayed>>

\* Everything but the storage is gone; a request on its way may yet be served.
Kill ==
  /\ kills < MaxKills
  /\ kills' = kills + 1
  /\ lost' = (lost \/ \E c \in Waiters : flight[c].pc \in {"sent", "granted", "store"})
  /\ access' = "none"
  /\ screen' = "loading"
  /\ call' = [c \in Waiters |-> NoCall]
  /\ refreshing' = Nobody
  /\ flight' = [c \in Waiters |-> NoFlight]
  /\ sign' = [pc |-> "idle", token |-> 0]
  /\ UNCHANGED <<kept, server, replayed>>

MobileNext ==
  \/ \E c \in Waiters : StepOfRefresh(c) \/ LoseAnswer(c)
  \/ \E c \in Callers : Call(c) \/ AnswerCall(c) \/ AnswerAgain(c)
  \/ \E t \in Tokens : EndSession(t)
  \/ AccessExpires \/ Restore \/ SignIn \/ SignedIn \/ SignOut \/ ClearSession \/ SignedOut \/ Kill

MobileSpec == MobileInit /\ [][MobileNext]_mobileVars

----------------------------------------------------------------------------
(* Properties *)

MobileTypeOK ==
  /\ access \in Access
  /\ kept \in 0..server.issued
  /\ screen \in {"loading", "in", "out"}
  /\ call \in [Waiters -> [pc : CallPCs, valid : BOOLEAN, for : Waiters \cup {Nobody}]]
  /\ refreshing \in Waiters \cup {Nobody}
  /\ flight \in [Waiters -> [pc : FlightPCs, token : 0..server.issued]]
  /\ sign \in [pc : {"idle", "in", "clear", "logout"}, token : 0..server.issued]
  /\ server \in [issued : 0..MaxTokens, family : [Tokens -> 0..MaxTokens],
                 current : SUBSET Tokens]
  /\ kills \in 0..MaxKills
  /\ lost \in BOOLEAN /\ replayed \in BOOLEAN

\* "a token is single-use, so concurrent 401s must share one refresh call"
\* (api.ts:63): the application never sends a refresh token twice, so it never
\* ends its own session, unless an answer was lost or it was killed.
NeverReplays == replayed => lost
=============================================================================
