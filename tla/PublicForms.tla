----------------------------- MODULE PublicForms -----------------------------
(***************************************************************************)
(* The pages of who is not logged in, each with one form: app/setup,       *)
(* app/cadastro, app/reset-password, app/forgot-password and               *)
(* app/owner-recovery of apps/web, in several tabs. An answer may be lost  *)
(* while the request is carried out, and its tab may have been reloaded.   *)
(* bootstrap and bootstrapStatus of auth.service.ts are modelled whole;    *)
(* the transactions that Signup and Sessions model statement by statement  *)
(* are one step here. What is typed, and the secrets, are left out.        *)
(***************************************************************************)
EXTENDS Naturals

CONSTANTS
  Tabs,                     \* tabs of browsers
  Posts,                    \* requests to the API at the same time
  Links,                    \* links with a token that are ever made
  NoLink, NoTab            \* no token; a tab that no longer waits

ASSUME FormsAssumption == NoLink \notin Links /\ NoTab \notin Tabs

VARIABLES
  platforms,                \* how often the platform was made
  enabled,                  \* the configuration allows a bootstrap
  link,                     \* what each link is for, if it may be used
  pages,                    \* the page of each tab
  post,                     \* the requests and the handlers that serve them
  carried                   \* history: tabs whose submission was carried out

formVars == <<platforms, enabled, link, pages, post, carried>>

Kinds == {"setup", "signup", "reset", "forgot", "recovery"}
Closed == [kind |-> "none", phase |-> "closed", link |-> NoLink, busy |-> FALSE]
NoPost == [pc |-> "idle", of |-> NoTab, ask |-> "none", link |-> NoLink, answer |-> "none"]

FormsInit ==
  /\ platforms = 0 /\ enabled \in BOOLEAN
  /\ link = [l \in Links |-> "none"]
  /\ pages = [t \in Tabs |-> Closed]
  /\ post = [p \in Posts |-> NoPost]
  /\ carried = {}

\* A tab no longer waits for what it sent.
Unheard(t) ==
  [q \in Posts |-> IF post[q].of # t THEN post[q]
                   ELSE IF post[q].pc = "answered" THEN NoPost ELSE [post[q] EXCEPT !.of = NoTab]]

Sent(t, p, ask, l) ==
  [q \in Posts |->
     IF q = p THEN [NoPost EXCEPT !.pc = "sent", !.of = t, !.ask = ask, !.link = l]
     ELSE Unheard(t)[q]]

\* The handler has answered, which nobody may hear.
Reply(p, answer) ==
  post' = [post EXCEPT ![p] =
             IF @.of = NoTab THEN NoPost ELSE [@ EXCEPT !.pc = "answered", !.answer = answer]]

----------------------------------------------------------------------------
(* The pages *)

\* A page is opened from a link, without one, or again: its token was taken out
\* of the address, and a page that is reloaded has none. A tab keeps to a page.
OpenPage(t, k, l) ==
  /\ pages[t].kind \in {"none", k}
  /\ l # NoLink => k \in {"signup", "reset"} /\ link[l] # "none"
  /\ carried' = carried \ {t}
  /\ LET phase == IF k = "setup" \/ (k = "signup" /\ l # NoLink) THEN "checking"
                  ELSE IF k = "signup" THEN "invalid" ELSE "form"
     IN  /\ pages' = [pages EXCEPT ![t] = [kind |-> k, phase |-> phase, link |-> l, busy |-> FALSE]]
         /\ IF phase = "checking"
            THEN \E p \in Posts :
                   post[p].pc = "idle" /\ post' = Sent(t, p, IF k = "setup" THEN "status" ELSE "check", l)
            ELSE post' = Unheard(t)
  /\ UNCHANGED <<platforms, enabled, link>>

\* What was typed has no problem. The form of a new password needs a token.
Submit(t, p) ==
  /\ pages[t].phase = "form" /\ ~pages[t].busy
  /\ pages[t].kind = "reset" => pages[t].link # NoLink
  /\ post[p].pc = "idle"
  /\ pages' = [pages EXCEPT ![t].busy = TRUE]
  /\ post' = Sent(t, p, pages[t].kind, pages[t].link)
  /\ UNCHANGED <<platforms, enabled, link, carried>>

\* The page waits for the text 'platform_already_initialized', which the API
\* does not send: it stays where it is and shows the API's own words.
PhaseAfter(t, ask, answer) ==
  CASE ask = "status" -> IF answer = "initialized" THEN "login"
                         ELSE IF answer = "available" THEN "form" ELSE "blocked"
    [] ask = "check" -> IF answer = "ok" THEN "form" ELSE "invalid"
    [] ask = "setup" -> IF answer \in {"ok", "platform_already_initialized"} THEN "login" ELSE "form"
    [] OTHER -> IF answer = "ok" THEN "done" ELSE "form"

Told(t, ask, answer) ==
  pages' = [pages EXCEPT ![t].phase = PhaseAfter(t, ask, answer), ![t].busy = FALSE,
                     ![t].link = IF ask = "reset" /\ answer = "ok" THEN NoLink ELSE @]

FormAnswered(p) ==
  /\ post[p].pc = "answered"
  /\ Told(post[p].of, post[p].ask, post[p].answer)
  /\ post' = [post EXCEPT ![p] = NoPost]
  /\ UNCHANGED <<platforms, enabled, link, carried>>

\* The tab gives up: the request was lost, or its answer is.
LosePost(p) ==
  /\ post[p].of # NoTab
  /\ Told(post[p].of, post[p].ask, "lost")
  /\ \/ post[p].pc \in {"sent", "answered"} /\ post' = [post EXCEPT ![p] = NoPost]
     \/ post[p].pc # "answered" /\ post' = [post EXCEPT ![p].of = NoTab]
  /\ UNCHANGED <<platforms, enabled, link, carried>>

----------------------------------------------------------------------------
(* The API *)

\* bootstrapStatus counts the users; inspect looks for a pending invite.
ServeCheck(p) ==
  /\ post[p].pc = "sent"
  /\ \/ post[p].ask = "status"
        /\ Reply(p, IF platforms > 0 THEN "initialized"
                    ELSE IF enabled THEN "available" ELSE "unavailable")
     \/ post[p].ask = "check"
        /\ Reply(p, IF link[post[p].link] = "signup" THEN "ok" ELSE "refused")
  /\ UNCHANGED <<platforms, enabled, link, pages, carried>>

Carry(p) == carried' = carried \cup ({post[p].of} \cap Tabs)

\* A variant without the lock.
LockIgnored == FALSE

LockHeld == \E p \in Posts : post[p].pc \in {"locked", "counted"}

\* bootstrap: the secret is right, the password is hashed, and the transaction
\* takes its lock, unless another holds it.
TakeLock(p) ==
  /\ post[p].ask = "setup" /\ post[p].pc = "sent"
  /\ enabled /\ ~LockHeld
  /\ post' = [post EXCEPT ![p].pc = "locked"]
  /\ UNCHANGED <<platforms, enabled, link, pages, carried>>

CountUsers(p) ==
  /\ post[p].pc = "locked"
  /\ IF platforms > 0 THEN Reply(p, "Platform already initialized")
     ELSE post' = [post EXCEPT ![p].pc = "counted"]
  /\ UNCHANGED <<platforms, enabled, link, pages, carried>>

\* The tenant, its owner and its pipeline are there when the transaction ends.
MakePlatform(p) ==
  /\ post[p].pc = "counted"
  /\ platforms' = platforms + 1
  /\ Carry(p) /\ Reply(p, "ok")
  /\ UNCHANGED <<enabled, link, pages>>

EndResets == [l \in Links |-> IF link[l] = "reset" THEN "ended" ELSE link[l]]

\* register and resetPassword use the link up; a new password ends the other
\* links for one.
UseLink(p) ==
  LET k == post[p].ask
      open == k \in {"signup", "reset"} /\ link[post[p].link] = k
  IN  /\ k \in {"signup", "reset"} /\ post[p].pc = "sent"
      /\ IF open
         THEN /\ link' = IF k = "reset" THEN EndResets
                         ELSE [link EXCEPT ![post[p].link] = "ended"]
              /\ Carry(p) /\ Reply(p, "ok")
         ELSE Reply(p, "refused") /\ UNCHANGED <<link, carried>>
      /\ UNCHANGED <<platforms, enabled, pages>>

\* ownerRecovery: a new password, and no link for one is left.
Recover(p) ==
  /\ post[p].ask = "recovery" /\ post[p].pc = "sent"
  /\ link' = EndResets
  /\ Carry(p) /\ Reply(p, "ok")
  /\ UNCHANGED <<platforms, enabled, pages>>

\* forgotPassword answers alike whether it mails a link or not: there may be no
\* such account, or a link of the last minute.
Forget(p) ==
  /\ post[p].ask = "forgot" /\ post[p].pc = "sent"
  /\ \/ link' = link
     \/ \E l \in Links : link[l] = "none" /\ link' = [EndResets EXCEPT ![l] = "reset"]
  /\ Carry(p) /\ Reply(p, "ok")
  /\ UNCHANGED <<platforms, enabled, pages>>

\* A wrong secret or payload, too many requests; an error rolls back.
Refuse(p) ==
  /\ post[p].pc \in {"sent", "locked", "counted"}
  /\ Reply(p, "refused")
  /\ UNCHANGED <<platforms, enabled, link, pages, carried>>

\* The platform issues an invite; an invite is revoked, or a link runs out.
IssueLink(l) ==
  /\ link[l] = "none" /\ link' = [link EXCEPT ![l] = "signup"]
  /\ UNCHANGED <<platforms, enabled, pages, post, carried>>

EndLink(l) ==
  /\ link[l] \in {"signup", "reset"} /\ link' = [link EXCEPT ![l] = "ended"]
  /\ UNCHANGED <<platforms, enabled, pages, post, carried>>

FormsNext ==
  \/ \E t \in Tabs, k \in Kinds, l \in Links \cup {NoLink} : OpenPage(t, k, l)
  \/ \E t \in Tabs, p \in Posts : Submit(t, p)
  \/ \E p \in Posts :
       \/ FormAnswered(p) \/ LosePost(p) \/ ServeCheck(p) \/ TakeLock(p) \/ CountUsers(p)
       \/ MakePlatform(p) \/ UseLink(p) \/ Recover(p) \/ Forget(p) \/ Refuse(p)
  \/ \E l \in Links : IssueLink(l) \/ EndLink(l)

FormsSpec == FormsInit /\ [][FormsNext]_formVars

----------------------------------------------------------------------------
(* Properties *)

FormsTypeOK ==
  /\ platforms \in Nat /\ enabled \in BOOLEAN
  /\ link \in [Links -> {"none", "signup", "reset", "ended"}]
  /\ pages \in [Tabs -> [kind : Kinds \cup {"none"},
                       phase : {"closed", "checking", "invalid", "blocked", "form", "done", "login"},
                       link : Links \cup {NoLink}, busy : BOOLEAN]]
  /\ \A p \in Posts : post[p].of \in Tabs \cup {NoTab}
  /\ carried \subseteq Tabs

\* "Inicializar uma única vez" (setup/page.tsx:174): whatever tabs set the
\* platform up at the same time, and whichever answers are lost, it is made
\* once; the page leads to the login only when it is there. And a page that
\* says that something was done speaks of what its own submission did, not of
\* one from before it was reloaded.
FormsAreHonest ==
  /\ platforms <= 1
  /\ \A t \in Tabs :
       /\ pages[t].phase = "login" => platforms = 1
       /\ pages[t].phase = "done" => t \in carried
=============================================================================
