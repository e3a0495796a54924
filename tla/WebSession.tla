------------------------------ MODULE WebSession ------------------------------
(***************************************************************************)
(* The session of the web application in one tab: lib/api.ts, the guard of *)
(* components/auth-runtime-guard.tsx, the shell of the pages under /app    *)
(* and the login page. The refresh token travels in a cookie, the access   *)
(* token lives in the memory of the tab, and several parts of the page     *)
(* ask for a refresh on their own. What they do when a promise settles is  *)
(* one step; a navigation is a later one.                                  *)
(***************************************************************************)
EXTENDS Naturals

CONSTANTS
  MaxLogins,                \* bound: logins
  MaxExpiries,              \* bound: how often an access token expires
  MaxLosses                 \* bound: requests that fail on the way, and reloads

VARIABLES
  cookie,                   \* klyvero_refresh in the browser
  alive,                    \* the logins whose session has not ended
  logins,                   \* logins so far
  tab,                      \* what the page shows and keeps in memory
  rotation,                 \* refreshPromise: its step and the cookie it carries
  waiters,                  \* parts of the page that wait for the refresh
  fetch,                    \* requests to the API: of the shell, of a screen
  form,                     \* the login form: is a login on its way (busy)
  leaving,                  \* a logout on its way and the cookie it carries
  expiries, losses,         \* history, bounded
  signed                    \* history: logged in, and nothing failed since (a
                            \* request, a logout, or a token that expired at once)

webVars == <<cookie, alive, logins, tab, rotation, waiters, fetch, form, leaving,
             expiries, losses, signed>>

Families == 1..MaxLogins    \* the tokens of a login are a family
Parts == {"login", "guard", "shell"}
Fetches == {"branding", "screen"}
NoCookie == [family |-> 0, newest |-> FALSE]
Newest(f) == [family |-> f, newest |-> TRUE]

\* A copy of a token when its family has been rotated.
Aged(c, f) == IF c.family = f THEN [c EXCEPT !.newest = FALSE] ELSE c
NoRotation == [pc |-> "none", cookie |-> NoCookie]
NoRequest == [pc |-> "idle", good |-> FALSE]
NoLeave == [pc |-> "idle", cookie |-> NoCookie]

\* A document that was just loaded at an address.
FreshTab(address) ==
  [page |-> "blank", going |-> address, token |-> "none", shell |-> "off",
   verified |-> FALSE, checking |-> FALSE]

\* A browser with the cookie of an earlier login, live or not, or without one.
WebInit ==
  /\ \/ cookie = NoCookie /\ logins = 0
     \/ cookie = Newest(1) /\ logins = 1
  /\ alive \in SUBSET (1..logins)
  /\ \E address \in {"login", "app"} : tab = FreshTab(address)
  /\ rotation = NoRotation /\ waiters = {}
  /\ fetch = [r \in Fetches |-> NoRequest]
  /\ form = "idle" /\ leaving = NoLeave
  /\ expiries = 0 /\ losses = 0
  /\ signed = FALSE

Lose == losses < MaxLosses /\ losses' = losses + 1 /\ signed' = FALSE

----------------------------------------------------------------------------
(* Navigation: what the effects of a page do when it is mounted *)

\* refreshAccessToken: a refresh starts unless one runs.
Joined == IF rotation.pc = "none" THEN [pc |-> "sent", cookie |-> cookie] ELSE rotation

\* The guard has nothing to verify when there is a token, or was.
Trusts == tab.token # "none" \/ tab.verified

Arrive(address) ==
  /\ tab.going = address
  /\ IF tab.page = address
     THEN tab' = [tab EXCEPT !.going = "none"] /\ UNCHANGED <<rotation, waiters, form>>
     ELSE IF address = "login"
     THEN /\ tab' = [tab EXCEPT !.page = "login", !.going = "none", !.shell = "off", !.checking = FALSE]
          /\ form' = IF form = "done" THEN "idle" ELSE form
          /\ waiters' = (waiters \ {"guard"}) \cup {"login"}
          /\ rotation' = Joined
     ELSE /\ tab' = [tab EXCEPT !.page = "app", !.going = "none", !.shell = "waiting",
                                !.verified = Trusts, !.checking = ~Trusts]
          /\ waiters' = waiters \cup {"shell"} \cup (IF Trusts THEN {} ELSE {"guard"})
          /\ rotation' = Joined
          /\ UNCHANGED form
  /\ UNCHANGED <<cookie, alive, logins, fetch, leaving, expiries, losses, signed>>

----------------------------------------------------------------------------
(* The refresh *)

\* The server rotates the newest token of a live family; an old one ends it.
Rotate ==
  LET c == rotation.cookie
      f == c.family
  IN  /\ rotation.pc = "sent"
      /\ IF c.newest /\ f \in alive
         THEN /\ rotation' = [pc |-> "granted", cookie |-> c]
              /\ cookie' = Aged(cookie, f)
              /\ leaving' = [leaving EXCEPT !.cookie = Aged(@, f)]
              /\ UNCHANGED <<alive, signed>>
         ELSE /\ rotation' = [pc |-> "failed", cookie |-> NoCookie]
              /\ alive' = alive \ {f}
              /\ signed' = (signed /\ cookie.family # f)
              /\ UNCHANGED <<cookie, leaving>>
      /\ UNCHANGED <<logins, tab, waiters, fetch, form, expiries, losses>>

LoseRefresh ==
  /\ rotation.pc \in {"sent", "granted"}
  /\ rotation' = [pc |-> "failed", cookie |-> NoCookie]
  /\ Lose
  /\ UNCHANGED <<cookie, alive, logins, tab, waiters, fetch, form, leaving, expiries>>

Waiting == {r \in Fetches : fetch[r].pc = "waiting"}

\* The refresh succeeded: the login page goes on to /app, the guard lets the
\* page be seen, the shell asks for its branding, requests are sent again.
RefreshGranted ==
  /\ rotation.pc = "granted"
  /\ cookie' = rotation.cookie
  /\ tab' = [tab EXCEPT
       !.token = "good",
       !.verified = @ \/ "guard" \in waiters,
       !.checking = @ /\ "guard" \notin waiters,
       !.shell = IF "shell" \in waiters /\ @ = "waiting" THEN "loading" ELSE @,
       !.going = IF "login" \in waiters THEN "app" ELSE @]
  /\ fetch' = [r \in Fetches |->
       IF r \in Waiting THEN [pc |-> "again", good |-> TRUE]
       ELSE IF r = "branding" /\ "shell" \in waiters THEN [pc |-> "sent", good |-> TRUE]
       ELSE fetch[r]]
  /\ rotation' = NoRotation /\ waiters' = {}
  /\ UNCHANGED <<alive, logins, form, leaving, expiries, losses, signed>>

\* A variant whose shell relies on the guard to leave.
GuardLeaves(W) == "guard" \in W

Leaves(W) == W \cap {"guard", "shell"} # {}

\* It failed: the guard and the shell leave for the login page, a request that
\* waited reports auth-expired, and the login page just stays.
RefreshFailed ==
  LET turnedAway == "guard" \in waiters \/ Waiting # {}
  IN  /\ rotation.pc = "failed"
      /\ tab' = [tab EXCEPT
           !.token = "none",
           !.verified = @ /\ ~turnedAway,
           !.shell = IF \/ @ = "waiting" /\ "shell" \in waiters
                        \/ @ = "loading" /\ "branding" \in Waiting
                     THEN "failed" ELSE @,
           !.going = IF Leaves(waiters) \/ Waiting # {} THEN "login" ELSE @]
      /\ fetch' = [r \in Fetches |-> IF r \in Waiting THEN NoRequest ELSE fetch[r]]
      /\ rotation' = NoRotation /\ waiters' = {}
      /\ UNCHANGED <<cookie, alive, logins, form, leaving, expiries, losses, signed>>

----------------------------------------------------------------------------
(* Requests to the API *)

CallApi ==
  /\ tab.page = "app" /\ tab.shell = "ready" /\ fetch["screen"].pc = "idle"
  /\ fetch' = [fetch EXCEPT !["screen"] = [pc |-> "sent", good |-> tab.token = "good"]]
  /\ UNCHANGED <<cookie, alive, logins, tab, rotation, waiters, form, leaving, expiries, losses, signed>>

\* Without its branding the shell leaves for the login page.
Ended(r, ok) ==
  [tab EXCEPT !.shell = IF r = "branding" /\ @ = "loading" THEN (IF ok THEN "ready" ELSE "failed") ELSE @,
              !.going = IF r = "branding" /\ ~ok THEN "login" ELSE @]

Answered(r) ==
  /\ fetch[r].pc \in {"sent", "again"} /\ fetch[r].good
  /\ fetch' = [fetch EXCEPT ![r] = NoRequest]
  /\ tab' = Ended(r, TRUE)
  /\ UNCHANGED <<cookie, alive, logins, rotation, waiters, form, leaving, expiries, losses, signed>>

\* The first 401 waits for a refresh, the second one reports auth-expired.
Unauthorized(r) ==
  /\ ~fetch[r].good
  /\ \/ /\ fetch[r].pc = "sent"
        /\ fetch' = [fetch EXCEPT ![r].pc = "waiting"]
        /\ rotation' = Joined
        /\ UNCHANGED <<tab, waiters>>
     \/ /\ fetch[r].pc = "again"
        /\ fetch' = [fetch EXCEPT ![r] = NoRequest]
        /\ tab' = [Ended(r, FALSE) EXCEPT !.token = "none", !.verified = FALSE, !.going = "login"]
        /\ UNCHANGED <<rotation, waiters>>
  /\ UNCHANGED <<cookie, alive, logins, form, leaving, expiries, losses, signed>>

LoseRequest(r) ==
  /\ fetch[r].pc \in {"sent", "again"}
  /\ fetch' = [fetch EXCEPT ![r] = NoRequest]
  /\ tab' = Ended(r, FALSE)
  /\ Lose
  /\ UNCHANGED <<cookie, alive, logins, rotation, waiters, form, leaving, expiries>>

----------------------------------------------------------------------------
(* Logging in and out *)

SubmitLogin ==
  /\ tab.page = "login" /\ form = "idle"
  /\ form' = "sent"
  /\ UNCHANGED <<cookie, alive, logins, tab, rotation, waiters, fetch, leaving, expiries, losses, signed>>

\* Work of an earlier page that is still under way: its end may take the new
\* cookie (a logout) or turn the user away before the page changes (the rest).
LeftBehind ==
  \/ leaving.pc # "idle" \/ "shell" \in waiters
  \/ \E r \in Fetches : fetch[r].pc # "idle"

\* The user is logged in when the form is still there to be answered.
LoginAnswered ==
  /\ form = "sent" /\ logins < MaxLogins
  /\ logins' = logins + 1
  /\ alive' = alive \cup {logins + 1}
  /\ cookie' = Newest(logins + 1)
  /\ tab' = [tab EXCEPT !.token = "good", !.going = "app"]
  /\ form' = "done"
  /\ signed' = (tab.page = "login" /\ ~LeftBehind)
  /\ UNCHANGED <<rotation, waiters, fetch, leaving, expiries, losses>>

LoginRefused ==
  /\ form = "sent"
  /\ form' = "idle"
  /\ UNCHANGED <<cookie, alive, logins, tab, rotation, waiters, fetch, leaving, expiries, losses, signed>>

LogOut ==
  /\ tab.page = "app" /\ tab.shell = "ready" /\ leaving.pc = "idle"
  /\ leaving' = [pc |-> "sent", cookie |-> cookie]
  /\ signed' = FALSE
  /\ UNCHANGED <<cookie, alive, logins, tab, rotation, waiters, fetch, form, expiries, losses>>

\* The session of the cookie ends if it is the newest one.
LogOutAnswered ==
  LET c == leaving.cookie
  IN  /\ leaving.pc = "sent"
      /\ alive' = IF c.newest THEN alive \ {c.family} ELSE alive
      /\ cookie' = NoCookie
      /\ tab' = [tab EXCEPT !.token = "none", !.going = "login"]
      /\ leaving' = NoLeave
      /\ UNCHANGED <<logins, rotation, waiters, fetch, form, expiries, losses, signed>>

LoseLogOut ==
  /\ leaving.pc = "sent"
  /\ tab' = [tab EXCEPT !.token = "none", !.going = "login"]
  /\ leaving' = NoLeave
  /\ Lose
  /\ UNCHANGED <<cookie, alive, logins, rotation, waiters, fetch, form, expiries>>

----------------------------------------------------------------------------
(* Around the tab *)

\* A quarter of an hour after the refresh. A token that is gone before the
\* request it was fetched for got through takes the user to the login page.
TokenExpires ==
  /\ tab.token = "good" /\ expiries < MaxExpiries
  /\ expiries' = expiries + 1
  /\ tab' = [tab EXCEPT !.token = "expired"]
  /\ fetch' = [r \in Fetches |-> [fetch[r] EXCEPT !.good = FALSE]]
  /\ signed' = (signed /\ \A r \in Fetches : fetch[r].pc # "again")
  /\ UNCHANGED <<cookie, alive, logins, rotation, waiters, form, leaving, losses>>

\* The session is revoked elsewhere.
RevokeLogin(f) ==
  /\ f \in alive
  /\ alive' = alive \ {f}
  /\ signed' = FALSE
  /\ UNCHANGED <<cookie, logins, tab, rotation, waiters, fetch, form, leaving, expiries, losses>>

Reload ==
  /\ tab.page # "blank"
  /\ Lose
  /\ tab' = FreshTab(tab.page)
  /\ rotation' = NoRotation /\ waiters' = {}
  /\ fetch' = [r \in Fetches |-> NoRequest]
  /\ form' = "idle" /\ leaving' = NoLeave
  /\ UNCHANGED <<cookie, alive, logins, expiries>>

WebNext ==
  \/ \E address \in {"login", "app"} : Arrive(address)
  \/ Rotate \/ LoseRefresh \/ RefreshGranted \/ RefreshFailed
  \/ CallApi
  \/ \E r \in Fetches : Answered(r) \/ Unauthorized(r) \/ LoseRequest(r)
  \/ SubmitLogin \/ LoginAnswered \/ LoginRefused
  \/ LogOut \/ LogOutAnswered \/ LoseLogOut
  \/ TokenExpires \/ \E f \in Families : RevokeLogin(f)
  \/ Reload

WebSpec == WebInit /\ [][WebNext]_webVars

----------------------------------------------------------------------------
CookieOK(c) == c.family \in 0..MaxLogins /\ c.newest \in BOOLEAN

WebTypeOK ==
  /\ CookieOK(cookie) /\ CookieOK(rotation.cookie) /\ CookieOK(leaving.cookie)
  /\ alive \subseteq 1..logins
  /\ logins \in 0..MaxLogins /\ expiries \in 0..MaxExpiries /\ losses \in 0..MaxLosses
  /\ tab \in [page : {"blank", "login", "app"}, going : {"none", "login", "app"},
              token : {"none", "good", "expired"}, verified : BOOLEAN, checking : BOOLEAN,
              shell : {"off", "waiting", "loading", "ready", "failed"}]
  /\ rotation.pc \in {"none", "sent", "granted", "failed"}
  /\ waiters \subseteq Parts
  /\ fetch \in [Fetches -> [pc : {"idle", "sent", "waiting", "again"}, good : BOOLEAN]]
  /\ form \in {"idle", "sent", "done"} /\ signed \in BOOLEAN
  /\ leaving.pc \in {"idle", "sent"}

\* The application is in view: its shell is ready and no overlay covers it.
InView == tab.page = "app" /\ tab.going = "none" /\ tab.shell = "ready" /\ ~tab.checking

\* Nothing is on its way, and no navigation is due.
Settled ==
  tab.going = "none" /\ rotation.pc = "none" /\ \A r \in Fetches : fetch[r].pc = "idle"

\* Who logs in gets to see the application, however the refreshes that the
\* login page, the guard and the shell have under way turn out: a failing one
\* may send the user back to the login page, which goes on with the new session
\* (login/page.tsx, app-shell.tsx, auth-runtime-guard.tsx).
LoginSticks == signed /\ Settled => InView
=============================================================================
