# Klyvero: TLA+ models, model checking and proofs

Klyvero is a multi-tenant sales platform: an API (NestJS, Prisma, PostgreSQL, Redis),
a web and a mobile client, and a WhatsApp bridge in Go. This directory holds a formal
model of the parts of it where the order of steps matters, what TLC finds out about it on
small instances, and what TLAPS proves of it for all. Paths are relative to the
repository; `api/` stands for `apps/api/src/`.

1. Inventory · 2. Modules · 3. Runs · 4. Findings · 5. Proofs · 6. Not modelled, and plan

## 1. Inventory

| Component | State | Operations | Hard because | Modelled in |
|---|---|---|---|---|
| Sequence scheduler (`api/modules/campaigns/sequence.scheduler.ts`) | runs (`SequenceStepRun`), enrollments, the batch in memory | tick: recover, claim, execute, record, advance, fail | several instances, a delivery cannot be rolled back, crashes | SequenceScheduler, CampaignEngine, WhatsappPacing |
| Sequence planner (`sequence.planner.ts`) | runs | nextStep, schedule | shared by scheduler and requests | CampaignStore |
| Campaign requests (`campaigns.service.ts`) | campaigns, steps, enrollments, runs | enroll, start, pause, stop, retry, add and remove a step, remove | read first, write later | CampaignRequests, CampaignPage (partly) |
| E-mail (`api/modules/email`) | messages, suppression list | send, suppress, unsubscribe, inbound | an SMTP send and its record are two steps | SequenceScheduler, CampaignRequests, Conversations (partly) |
| WhatsApp, API side (`api/modules/whatsapp`) | connections, messages | sendText, handleEvent | time-outs, events delivered at most once | the same, and WhatsappBridge (partly) |
| WhatsApp bridge (`services/whatsapp`) | sessions, pairing state | Connect, pairing, events, logout | goroutines, locks, best-effort posts | WhatsappBridge (partly) |
| Auth and sessions (`api/modules/auth`) | refresh sessions, reset tokens | login, refresh, logout, reset, recovery, bootstrap | rotation races, statements of two transactions | Sessions, PublicForms (partly) |
| Login throttling (`api/infra/security/auth-defense.service.ts`) | counters, locks | assertAllowed, recordFailure, recordSuccess | Redis or memory, windows | LoginThrottling |
| Rate limits (`api/common/*rate-limit.guard.ts`) | counters | canActivate | Redis or a bounded map | RateLimits |
| Sign-up (`api/modules/signup`) | invites, tenants, users | createInvite, revokeInvite, register | single use under concurrency | Signup |
| Usage (`api/modules/usage`) | counters | assertAndIncrement | check and increment | Usage |
| Billing (`api/modules/billing`) | subscription, event receipts | checkout, webhook | duplicated and reordered events | Billing |
| Webhooks (`api/modules/webhooks`) | deliveries, queue | dispatch, process | retries, partial failure | Webhooks |
| Calendar (`api/modules/calendar-integration`) | events, and those of Google | push, remove, sync | two copies of the data | Calendar |
| Prospecting (`api/modules/prospecting`, the search route and page of `apps/web`) | prospects, leads, quota, cache and queue of searches | import, convert, search | charged per row, one queue for all | Prospecting, PlaceSearch, LeadFinder |
| Tenants and branding (`api/modules/tenants`, `branding`, `common/feature.guard.ts`) | the tree, grants, brands | grow, govern, restyle, resolve | four walks up one tree | Tenants (partly) |
| CRM (`api/modules/crm`, `apps/web/app/app/crm`) | pipelines, deals, the board | create, move, close | answers out of order | DealBoard |
| CRUD (`api/modules/crud`, resource pages) | rows | create, update, delete, import, export | deletions that count rows | Conversations, LeadScreen, CsvExchange (partly) |
| Inbox (`api/modules/inbox`, pages and screen) | threads, messages, what is shown | list, read, reply, delete | polls, pages, drafts | InboxPage, ThreadScreen, Conversations (partly) |
| AI agents (`apps/web/app/app/ai`) | agents in the browser | create, toggle, remove, run | a run lasts minutes | AgentPage (partly) |
| Campaigns page (`apps/web/app/app/campaigns`) | the list, one dialog, what is on its way | cards, form, steps, picker, list of leads | polls replace what a dialog shows, batches | CampaignPage |
| Web application (`apps/web`) | access token, cookie, pages | refresh and retry, navigation, forms | several parts refresh at once | WebSession and the pages above (partly) |
| Mobile application (`apps/mobile`) | stored tokens, screens | refresh and retry, reads with tickets | the same, with kills and losses | MobileSession, LeadScreen, ThreadScreen (partly) |
| Database schema (`prisma`) | tables, unique keys, cascades | | | with the services that use it (partly) |
| Push notifications, analytics, API keys, health, configuration, clients, shared contracts | rows | create, read | nothing that takes two steps | not modelled |

How they interact: requests, inbound messages and the scheduler of **every** API instance
meet only in the database. The scheduler calls the e-mail and WhatsApp services, which call
SMTP and the bridge; the bridge posts events back to the API; an inbound reply or an
opt-out closes enrollments that a scheduler may be executing at that moment. Nothing but
the row locks of PostgreSQL and the status columns keeps these actors apart. The clients
keep state of their own (tokens, lists, drafts, sets of what was saved) across awaits, and
act later on what they knew then; that is where most of the hazards of the pages lie. Stripe,
Google, SMTP, WhatsApp and the geocoder may answer late, twice or never.

What makes each part correct:

- scheduler: no step twice, no lead left behind, attempts counted, a reply ends a cadence;
- sessions: one live token per family, a chain that never forks, a reset link works once;
- sign-up, billing, usage: an invite makes one workspace, a plan is entitled only by what
  Stripe said, a quota is never overshot, what was stored was charged;
- throttling and limits: counts never forget in time what they still owe;
- webhooks, calendar, bridge: the record says what happened to the other side, a quiet
  calendar is the same on both sides, a pairing on offer can still be finished;
- clients: what is shown is what is stored once everything was answered; a refresh serves
  all who wait for it; a draft stays with its thread; a company is posted once; a step that the page knew is not
  overwritten by a new one.

`PROJECT.json` lists the hazards one by one, at the lines where they bite, with the
properties that speak of them.

## 2. Modules

```
CampaignStore        tables, unique keys, planner          schema.prisma, sequence.planner.ts
  SequenceScheduler  the scheduler                         sequence.scheduler.ts
    CampaignRequests the API requests                      campaigns.service.ts, email, whatsapp
      CampaignEngine composition and properties
        CampaignInvariant    the inductive invariants
          MCCampaign         instances for TLC
            MCMessages       ... with InboxPage, ThreadScreen and LeadFinder
          CampaignProofs     types, ReplyWins (unconditional); ExclusiveWork and what follows
            CadenceProofs    the engine implements Cadence
              CalmProofs     ActiveHasWork, CountedWork, AttemptBudget
Cadence              what a lead is promised               docs/campaigns.md
WhatsappPacing       the interval, with a clock            sequence.scheduler.ts

Sessions             sessions, reset tokens                auth.service.ts
  MCSessions, SessionsProofs
TokenFamilies        what refresh tokens promise

MCAccounts           Sessions LoginThrottling Signup WebSession PublicForms RateLimits
                     MobileSession Billing Tenants
  AccountProofs      all of these but Sessions and Tenants
MCWorkspaces         Prospecting (over Usage) Calendar Conversations DealBoard LeadScreen
                     CsvExchange AgentPage CampaignPage
  WorkspaceProofs    Prospecting AgentPage LeadFinder Conversations LeadScreen DealBoard
                     InboxPage ThreadScreen Tenants
  CampaignPageProofs CampaignPage
MCIntegrations       Webhooks PlaceSearch WhatsappBridge
  IntegrationProofs  all three, and Calendar
```

Each module models one component: its columns and variables as VARIABLES, `XInit`, one
action per statement, await or handler, `XNext`, `XSpec`. The MC modules put several of them
side by side. Their parts share no rows, so an interleaving of two of them shows nothing
that each alone does not: an initial state names one part (`service`, `topic`, `part`), and
the others keep still.

**The campaign engine.** In `CampaignStore`, `campaign`, `steps`, `lead`, `suppressed`,
`status`, `position`, `run` and `attempts` are columns. A row of `SequenceEnrollment` is named
by campaign and lead (its unique key), a row of `SequenceStepRun` by enrollment and position;
`"NONE"` means there is no row. `old` stands for `startedAt < now - 10 min`. Times are
abstract: a queued run is due at any later moment. A deleted step's position is not given to
another step, so that a position always means the same step. In `SequenceScheduler` an
instance is one record of local variables: `pc`, `batch` (claimed ids), `cur`, `tries` (the
attempts `execute` read) and `next` (what `advance` read). Each action is one statement, one
transaction or one delivery, so everything else can happen where the code awaits:

| Code | Action |
|---|---|
| `recoverStuck` | `RecoverStuck`; ten minutes passing: `Age` |
| `claim` / end of `runDue` | `Claim` / `EndPass` |
| `execute`, the read of the run | `Take`, `TakeGone` |
| the fresh check, and its update | `Check`, then `Requeue` or `Cancel` |
| `deliver` up to the call that sends | `Prepare` |
| `email.send`, `whatsapp.sendText` | `Send`, `SendUnconfirmed`, `Refuse` |
| `recordSent`; `StepSkip` | `RecordSent`; `Skip` |
| `advance`: the read, the transaction | `Advance`, `Move` |
| `handleFailure` | `Defer`, `Retry`, `GiveUp` |
| the outer `catch`; the process dies | `Abandon`; `Crash` |

`inbox` counts the messages that really reached a lead; no code reads it. In
`CampaignRequests` a handler that reads, decides and writes later is two actions and keeps
what it read in `req`; a handler that is one transaction is one action. A reply is three
statements (store the message, mark the lead, close its enrollments), an opt-out two.
`Cadence` is the abstract specification: a lead joins once, steps are settled once and in
order, and what is closed stays closed; `KeepsPromise` says that the engine implements it
under the mapping `LifeOf`, `OutcomeOf`. `WhatsappPacing` gives the check and the record of
one workspace's WhatsApp interval a clock.

**Sessions** is one account: the rows of `RefreshSession` (`stored`, `family`, `live`,
`expired`), of `PasswordResetToken` (`issued`, `usable`, `recent`) and whether user and
tenant are active. Every action is one SQL statement of a READ COMMITTED transaction: a
statement chooses its rows when it begins (`wants`), waits while another open transaction
holds one of them (`Granted`), and keeps them (`holds`) until `Commit` or `Abort`, when what
it wrote becomes visible to the others. A statement takes all its rows at once (PostgreSQL
takes them one by one; deadlocks inside one pair of statements are therefore not seen, those
between statements are). `changes` counts password changes per reset token; that it is zero
stands for `usedAt = null`. `TokenFamilies` is the abstract specification, `KeepsChain` the
refinement: the current token of a family is its live session.

| Code | Actions |
|---|---|
| `login` | `Login`, `LoginNote`, `LoginCount`, `LoginCap`, `LoginCreate` |
| `refresh` | `Refresh`, `RefreshClaim` / `RefreshLoses`, `RefreshRotate`; reuse: `EndFamily`, `Revoke` |
| `logout`, `logoutAll` | `Logout`, `LogoutAll`, `Revoke` |
| `forgotPassword` | `Forgot`, `ForgotDelete`, `ForgotCreate` |
| `resetPassword` | `ResetPassword`, `ResetClaim`, `WritePassword`, `EndSessions`, `EndTokens`, `ResetCommit` |
| `ownerRecovery` | `OwnerRecovery`, then as `resetPassword` from `WritePassword` on |
| database, clock, operator | `Abort`, `DeadlockVictim`, `Expire`, `ExpireReset`, `MinutePasses`, `SetActive` |

**The other modules**, what their state is, and what the code does in them that a reader may
not expect (all of it reachable in the model):

| Module | State and steps | Worth knowing |
|---|---|---|
| LoginThrottling | counters and locks of one account and its addresses, in Redis and in each process; a login reads the lock, verifies, records | logins that are past the check when the lock closes still get through |
| RateLimits | a counter per caller and window, in Redis or in a bounded map of a process | eviction or a restart forgets a counter; `incr` without `expire` counts locally as well |
| Signup | invites, tenants and users; a registration is read, then a transaction statement by statement with unique keys | a rollback gives the invite back |
| PublicForms | the pages of who is not logged in, in several tabs, with lost answers and reloads | `setup` waits for `platform_already_initialized` while the API answers "Platform already initialized"; a reload of `cadastro` or `reset-password` loses its token |
| WebSession | cookie, live logins, page, shared refresh and who waits for it, requests, form, logout | a late answer to a logout clears the cookie of a newer login; a failed logout is followed by a login with the cookie that is still there; a late refresh overwrites a newer cookie; a token that expires before the request it was fetched for got through takes the user to the login page, which starts no refresh when it is shown already |
| MobileSession | tokens in memory and in the store, one refresh, callers, kills and losses | a refresh under way during `signOut` restores the session |
| Billing | the row, receipts, Stripe's subscriptions and events, two handlers | an event that was reserved but not processed is lost; a late update after a deletion reactivates |
| Tenants | tree, grants, brands, four walks up the tree | each walk is one read of a path that may change meanwhile |
| Usage, Prospecting | advisory lock, counter, month and limit; prospects, leads, conversions | two conversions, or a crash between their statements, leave two leads |
| Calendar | local events, Google's copies, a sync and a request, unanswered calls | a push touches `updatedAt`; two pushes of a new event insert it twice |
| Conversations | contact, thread and messages of one sender; writers and deletions statement by statement | a message stored between the count and the `deleteMany` goes with the conversation (`crud.service.ts:160`); two first messages at once make two threads, and a losing duplicate may leave an empty one |
| DealBoard | pipelines, deals, reads and changes of a page, and which read was sent last | two first reads make two default pipelines; reads carry no ticket, so an older answer that comes last stays; a failed change is not followed by a read |
| LeadScreen | the lead, reads with tickets, a status shown ahead of its answer | a lost answer rolls back what was in fact stored |
| LeadFinder | companies found, selected and saved; a bulk run and single clicks over sets of their render | a retry after a lost answer posts again; what was skipped is counted as added |
| CampaignPage | campaigns and enrollments as the page sees them; the list, the dialog, requests and the statements that serve them | an editor is closed by the answer to another step; a dialog disappears with its campaign and comes back empty, while its picker goes on sending; two steps get one position if they are added from two pages at once; an answer for another filter stays until the next poll |
| CsvExchange | a table written as text and read back, row by row | cells that open a formula come back with an apostrophe; more rows than a file may have cannot be imported again |
| AgentPage | the list in memory, in storage and in each render; a run | a run writes back the list of its render: what was created, switched or removed meanwhile is undone |
| InboxPage | lists, selection, draft, polls and deletions | polls carry no ticket; the draft stays when another conversation is chosen; one message that is already gone stops the clearing of a conversation |
| ThreadScreen | pages of messages, a reply | older pages and a repeated first page may leave a hole or repeat a message; a lost answer keeps the draft, which is sent again |
| Webhooks | delivery, job, its run statement by statement, switches; what the endpoint was sent and took, and the faults so far | a crash after the insert leaves the delivery PENDING for good; a URL that is refused, or a host that is not found, counts as an attempt without a request; an update that was stored but not confirmed counts twice and shows FAILED over DELIVERED, and the endpoint gets the event again |
| PlaceSearch | the chain of promises, cache, interval and window of a client | times are what is left of them, in ticks |
| WhatsappBridge | sessions and their goroutines, contexts, the page that polls | what the API stored may lag behind until the next poll |

## 3. Runs

| Run | Question and properties | Instance |
|---|---|---|
| `campaign_calm` | Do schedulers and requests get in each other's way without failures? `NoDoubleSend`, `ExclusiveWork`, `ActiveHasWork`, `AttemptBudget`, `CountedWork` (the inductive invariant of the proofs), the refinement `KeepsPromise`. Do the two screens that show messages stay in order? `DraftStaysPut`, `ThreadInOrder`. Does a search add its leads once? `LeadsOnce` | 2 instances, 2 leads, a step by e-mail and one by WhatsApp that may be added at any time, batches of 2, 2 attempts; 2 threads, 3 messages, pages of 1; 2 companies |
| `campaign_faults` | What does a failure cost while users edit, pause, delete, answer and opt out? `DuplicatesAreBounded`, `ReplyWins` | 2 instances, 1 lead, a step that may be added, each kind of failure once |
| `campaign_liveness` | Does everything that is queued get done in spite of a failure? `NoRunStuck`, `QueueDrains` | 2 instances, 1 lead, 2 steps, fair |
| `sessions_rotation` | Do overlapping logins, refreshes, logouts and recoveries keep the families in order, and do all of them end? `OneLivePerFamily`, the refinement `KeepsChain`, `RequestsFinish` | 2 requests, 3 sessions, at most 2 live after a login, fair |
| `accounts` | How is an account made, entered and paid for? `ResetOnce`, `AttemptsAreBounded`, `InviteMakesOne`, `OneSignupPerIdentity`, `LoginSticks`, `FormsAreHonest`, `LimitHolds`, `NeverReplays`, `EntitlementProven`, `InheritanceAgrees` | 2 of every actor, one topic per behaviour |
| `workspaces` | Is the daily work consistent? `RowsArePaid`, `QuietSyncMirrors`, `BoardAgrees`, `LeadAgrees`, `ExportComesBack`, `AgentsStay`, `EmptyThreadsGo`, `CampaignPageHonest`, `NeverOvershoots` | 2 of every actor, a page of one campaign with 2 steps and batches of 1, one service per behaviour |
| `integrations` | And the work with services outside? `RecordIsHonest`, `PairingAlive`, `UpstreamPaced`, `SearchAnswered`, `PairingNoticed` | 1 delivery with 3 attempts, 2 searches, 2 sessions of a phone, fair |
| `campaign_resume` | finding 1: violates `ExclusiveWork` | the campaign is started twice |
| `campaign_unrecorded` | finding 2: violates `NoRetryAfterDelivery` | one failing statement |
| `campaign_reply_race` | finding 3: violates `ReplyIsFinal` | two requests |
| `campaign_restart` | finding 4: violates `ActiveHasWork` | one crash |
| `whatsapp_pacing` | finding 5: violates `SendsPaced` | 2 instances |

**Bounds.** Every bound is a constant that the comment of its declaration calls one
(`MaxFaults`, `MaxStarts`, `MaxSessions`, `MaxLogins`, `MaxPauses`, ...). Two of each
interchangeable actor are enough for the conflicts of this code, which are between the
holder of a row, a lock or a promise and one other; two steps, two positions or two pages
are enough for an order; one failure already separates every pair of adjacent statements.
`Attempts` is 3 instead of 5, `LimitMax` and the limits of logins are 2 or 1: one below, at
and above are reached. `MaxExpiries` is 3, because a token has to expire three times before a
tab meets the case the premise of `LoginSticks` names. The theorems of section 5 hold for any
number; what they do not cover is named there.

`campaign_calm` starts each campaign once and serves one request at a time; what happens
otherwise is what the findings show. The prospects of `workspaces` are those of a workspace
without a limit, since the limits are exercised by the quota; `accounts` begins with Redis
answering, which may change at any time. `StaysCalm`, a state constraint of `workspaces`,
cuts a calendar's behaviours when a request has overlapped a sync, since nothing is claimed
from there on (`QuietSyncMirrors` is an implication from `calm`). `MCSessions` leaves out
forgotten passwords (`accounts` runs them), so that three sessions fit. In `workspaces` the
page of the campaigns is four parts: the cards with the form, and each of three dialogs with
the requests it makes, the polls that show it something new and the changes by others that
it can notice (`OfCards`, `OfSteps`, `OfPicker`, `OfProgress` in `MCWorkspaces`). The cards
have one request at a time, since no property relates two; the picker stays with leads one
of which can be reached, and the list of leads with three of the five filters. Cards and
steps are independent of the leads, and the picker of what becomes of its leads later.

**Symmetry.** Instances, calls, tabs, events and copies are interchangeable: the code orders
them nowhere. The sets `A` and `B` are permuted in `accounts` and `workspaces`, which check
invariants and one action property that mentions all of the permuted values alike. Runs with
a liveness property use none.

**Deadlock** is checked for the campaigns and the sessions: a scheduler can always tick again
and an idle slot can always take a request. It is not in `campaign_faults` (a deleted
campaign with nothing left to do is an end), `accounts`, `workspaces`, `integrations` and
`whatsapp_pacing`, where a browser may be closed, a job is done, or a bound is reached.

**Fairness.** `FairSpec` (campaigns): an instance that has something to do does it (Node
keeps running its continuations, `setInterval` ticks again); a request in progress goes on;
time passes (`Age`). Claims are strongly fair per run, because `claim` takes the oldest due
run first. `Send` is strongly fair: the code relies on refusals that "clear up on their own"
(`sequence.scheduler.ts:258`); a provider that refuses for ever is not covered.
`RotationFair`: a request in progress is served (strongly fair, because who waits for a row
lock stands in a queue), and PostgreSQL ends one of the transactions that wait for each other
in a circle. `MCIntegrations`: a search whose step is due takes it (its client sends the body or goes away) and time passes; Connect,
its answer, the poll of a dialog and the answers to it come. No user action, failure, crash
or message from outside is ever assumed to happen.

**Mutants.** Each property of a passing run has one change of a mapped definition, the kind a
bug in that code would be, under which TLC finds it violated (`PROJECT.json`, "mutants"; the
mutated operators stand in front of the definitions they change).

## 4. Findings

1. **Resuming a campaign** (`planner.ts:31`) puts a run that is being sent back in the
   queue; a second instance may send it again, although "duas instâncias nunca pegam o
   mesmo passo".
2. **Failed bookkeeping** (`scheduler.ts:162`) leaves a delivered run RUNNING, and
   `recoverStuck` turns that into the retry that the comment above it rules out.
3. **A reply during a start** (`campaigns.service.ts:153-170`) is overwritten: the answered
   cadence becomes ACTIVE again.
4. **A restart between `recordSent` and `advance`** (`scheduler.ts:162-163`) leaves an
   ACTIVE enrollment without any run: the rest of the cadence is lost until somebody starts
   the campaign again.
5. **The WhatsApp interval** (`scheduler.ts:221`) is checked against recorded sends: two
   instances that check before either has recorded send within it.

TLC also finds that two `retryEnrollment` requests at once break `ExclusiveWork`
(`campaigns.service.ts:216`); no run is kept for it.

## 5. Proofs

Every theorem below holds for every value of the constants that satisfies the named
assumption of its module (numbers are numbers, a bound is at least one, a marker for "none"
is no member). The bounds of the models (`MaxFaults`, `MaxLogins`, ...) are constants as
well, so the theorems hold for any number of failures, logins or retries. Each
inductive invariant was checked by TLC before it was proved, but for the one of the tree of
tenants, which speaks of every function that solves an equation.

### Campaigns

Without further hypotheses (`CampaignProofs`): `TypeCorrect`, through `HandsAreTyped` (what
an instance can hold at each `pc`); `SentLeadsAreContacted`: a lead with a sent step is not
NEW; `RepliesWin`: a step of a scheduler never changes a closed enrollment.

For every **orderly** use of the engine: `WorkIsExclusive`, `RunsAreSequential`,
`FailuresCostOneMessage` and, without failures, `NothingSentTwice` (`CampaignProofs`), and
`EngineKeepsPromise`, the refinement of `Cadence` (`CadenceProofs`). `Orderly` means: no batch
takes ten minutes, no campaign is started twice, no step or campaign is deleted, requests
come one at a time. Crashes, failing statements and unconfirmed sends are all allowed. The
first, second and last are needed (TLC has counterexamples, two of them are findings). That
rows are not deleted is needed by `EngineKeepsPromise`, since what `Cadence` remembers of a
lead goes with its row; for the others it only keeps the proof smaller: TLC finds no
counterexample with deletions.

The argument. `ExclusiveWork` is not inductive: a claim takes a run that is QUEUED, and one
must know that no instance holds a QUEUED run. `HeldRuns` says that the runs in an
instance's hands are RUNNING and not old. To keep it, nothing may queue a run that is in
somebody's hands: a retry queues the step that failed, an advance the next one, a start the
next one. `LastRow` says that a run which may still be executed is the last row of its
enrollment, so the next step has no row yet; `NextIsLater`, `RowsBelong`, `BeforeStart` and
`RequestKnows` say the same of what `advance` and the requests have read. `InboxBounded`
counts: a run that may still be sent was delivered at most once per failure. Their
conjunction with the types is `SafeWork`. The refinement needs nothing more: each step of
the engine maps to a step of `Cadence` or to a stutter, one lemma per action.

For every **calm** use, `Orderly` with no failure but unconfirmed sends: `NothingIsLeftBehind`
(`ActiveHasWork`), `WorkIsCounted` and `AttemptsKeepTheBudget` (`CalmProofs`). The hypothesis
is finding 4: a crash or a failing statement can leave an ACTIVE enrollment without a run,
or spend an attempt that was not made. The removal of a step of a paused campaign, which
`Orderly` excludes, leaves such an enrollment too, until the next start. `CalmWork` adds to `SafeWork` that rows belong to a
started campaign, that what is about to be cancelled is closed and that the next step exists;
`CountedWork` that a RUNNING run is in somebody's hands and its attempts are what that
instance knows.

### Sessions

Without hypotheses (`SessionsProofs`): `SessionsAreTyped`, `OneTokenPerFamily`,
`ResetsWorkOnce`. `OneLivePerFamily` is not inductive: a rotation inserts a session and must
know that the one it claimed is still the live one of the family. `LocksExclusive` says that
no row is locked by two open transactions, and `RotationHolds` that the claimed session is
live and locked; whoever else writes it must wait, and finds it revoked. `ResetHolds` says
the same of reset tokens: the one a reset has claimed is locked and has changed nothing yet,
nor has any token that can still be used.

`SessionsAreChains` is the refinement of `TokenFamilies`: a token of a family is followed by
one token at most, and a family that ended stays ended. What carries it is that a request
changes only the session it holds: one that has not claimed any holds none, and a rotation
holds the one it will replace. Each statement then maps to a step of one family, or to a
stutter.

### Accounts (`AccountProofs`)

| Theorem | What carries it |
|---|---|
| `EntitlementsAreProven` | a handler at work has the receipt of its event, and events never change |
| `InvitesAreSingleUse`, `IdentitiesSignUpOnce` (`SignupIsSafe`) | an invite that a transaction has claimed is locked by it, and has made nothing yet; what a transaction inserted is unique against rows and other transactions |
| `AttemptsStayBounded` | the guesses of a key are at most its failures and the logins that still owe one; a lock stands when the failures reach the limit |
| `FormsStayHonest` | a post is known by its tab only until it is reloaded; the platform is made under the unique key |
| `TokensAreUsedOnce` | unless something was lost, the token in the store, in memory and on the way are the current one of the family, and one refresh is under way |
| `LimitsAreKept` | the entry of a caller in the present window is unique and counts what it let through, unless it was forgotten; entries are never of a later window |
| `LoginsStick` | who logged in is on the way or there: each stop waits for a refresh with the browser's cookie, for the branding or for a navigation; a refresh from before the login fails only when nothing else is under way |

Two of these attempts corrected the model. `AttemptsStayBounded` showed that the history
counted the logins of other processes against a key of this one; it now counts per store.
`LoginsStick` showed a behaviour that two expiries were too few for: a token that expires
while the request it was fetched for is sent again takes the user to the login page, which
starts no refresh if it is shown already. `LoginSticks` now names that case in its premise
(the history `signed` ends with it), and `accounts` reaches it.

### Workspaces (`WorkspaceProofs`)

| Theorem | What carries it |
|---|---|
| `QuotaHolds` (`UsageIsSafe`) | between reading the counter and writing it a call holds the lock of its bucket, so what it read is still there |
| `AgentsStayPut` | the lists of storage, of the renders and of the run differ only after a disturbance |
| `LeadsAreMadeOnce` | what has a row is saved, or its call is still under way, or its answer was lost |
| `ThreadsGoWithTheirMessages` | a deletion that emptied a thread has its removal to come |
| `ScreensCatchUp` | the newest read is under way only before there is anything to show or while a change waits for it: what it saw is not overtaken by a change of this screen |
| `BoardsCatchUp` | of all reads only the newest matters: until it has seen the rows anything may change, and from then on what it has in hand, and after its answer the page, is what is stored, as long as the board stays calm (no older answer after it, no change by others, no failed change); a change of the page itself that is under way is followed by a read that becomes the newest |
| `DraftsStayPut` | messages are numbered without a gap, so a page with rows has a newest one; the effect of a render has chosen it before a text can be written |
| `ThreadsAreInOrder` | the messages of a page are a run of numbers; a press of the button carries what was shown then, and the newest page is only replaced by one that starts no earlier |
| `ProspectsArePaid` | what is stored and what paid jobs still owe is at most the sum of the counters |
| `InheritanceIsOne` | the walk of every tenant ends, and collects a path |

The last two speak of data of any size. `Prospecting` sums the counters of all months and
`Tenants` walks up a tree and folds over the path, all with recursive functions, of which
TLA+ only says that they are what solves an equation, if anything does. That something does
is proved by induction over sets of numbers (`NumbersByInduction`, from the well-foundedness
of the numbers): a fold over a finite set exists (`FoldExists`), and is made from the smaller
sets to the larger ones; a walk exists because the tree grows by one leaf at a time
(`WalksGrow`). The calls of `Prospecting` are assumed to be finitely many, for their debts
to have a sum.

### The page of the campaigns (`CampaignPageProofs`)

`CampaignPageIsHonest` says of any number of campaigns, leads, positions and requests that a
step is saved over none that the page had shown, except the one that is edited; that the
numbers of the picker add up to the leads that were selected, and no more of those are left
out than it says had no address (or were deleted since); and that the list of leads is of the
filter that is chosen. Two cases are exempt, because the code allows them: a step that was
stored after the list was read may be overwritten, and rows of another filter stay when it
was chosen while an answer was under way, or when a read failed. None of the three is inductive, for each
speaks of the end of a conversation between the page, its requests and the tables.

- Steps: rows of steps are numbered as they are stored, so that a list remembers how far it
  saw (`upto`). `ListTold` says of the list that is shown, and of each on its way, that a
  position holds nothing, what the list says, or something newer than the list; `StepFits`
  says it of the step in the editor and of each that is being saved.
- Picker: `BatchFits` says, from the reads of a batch to its answer, that its counts add up to
  its leads and that no more of them are missing than were without an address; `PickerFits`
  adds those of the batches before, of which `OneLoop` allows one at a time.
- Leads: `FilterInv` says that what was served is of the filter it was asked for, and, until
  the rows are mixed, that every request under way was asked for the filter that is shown.

Each action is proved to keep the families it touches; of the others it only has to be
known what it leaves of the requests (`StepAsks`, `BatchAsks`, `RowAsks`), of the page
(`PageKept`) and of the tables (`StoredKept`). `CampaignPageInv` was checked by TLC before.

### Integrations (`IntegrationProofs`)

| Theorem | What carries it |
|---|---|
| `RecordsAreHonest`, `PostsAreBounded` | a run owes at most one record; what the row counts and what was posted, sent or refused, differ by that one and by the faults (an update not confirmed, a worker that died), and the tries and the one stall of the job bound the posts |
| `CallsAreSpaced` | the waits of the jobs in the chain follow each other by an interval, and the first one ends when the interval is over |
| `PairingsEnd` | the goroutine of a session, its context and its state change together; only the mapped session can wait for a scan |
| `CalendarsMirror` | until a request overlaps a sync, no two rows share a copy and what is to be pushed is as it was read; in a sync that was alone, what was pushed stays mirrored while Google's events are taken over one by one |

### What stays with TLC

- Liveness (`NoRunStuck`, `QueueDrains`, `RequestsFinish`, `SearchAnswered`,
  `PairingNoticed`): fairness and ENABLED are beyond this prover.
- `ExportComesBack`, which reads and writes text character by character: induction over data
  of two recursive readers, one for the text and one for its cells.

## 6. Not modelled, and plan

Left out of the campaigns: clocks (delays, `nextRunAt`; the interval is in WhatsappPacing),
texts, mailboxes, tracking, quotas as numbers (a quota is a refusal that may happen at any
time). A request that dies between its statements is `RequestDies`. Left out of the
sessions: passwords and devices, access tokens (they are not stored). How many sessions a
login leaves is not bounded by the code when others are created or rotated meanwhile, so no
bound is stated.

Left out of the clients: pages that only list and edit rows (billing, team, settings,
analytics, calendar), forms and their validation, wording, layout. Of WhatsApp and e-mail:
media, read receipts, directories, SMTP tests, tracking. Of tenants: users, domains and
their DNS check, files. Push notifications, analytics, API keys, health and configuration
have no state that takes more than one step to change.

Next: the remaining pages that act on what they knew before an await (deals' stages, team,
calendar); `SafeWork` with deleted rows; `ExportComesBack` as a theorem,
for which its readers would have to be stated as relations.
