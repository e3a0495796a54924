---------------------------- MODULE CampaignStore ----------------------------
(***************************************************************************)
(* The campaign tables of the database and the planner that queues work in *)
(* them.  "The database is the schedule": a row of SequenceStepRun with    *)
(* status QUEUED is all the scheduler needs, so everything the campaign    *)
(* engine does is a read or a write of the variables below.                *)
(*                                                                         *)
(* Time is abstract.  A QUEUED row may be claimed from any later state on  *)
(* (its scheduledAt has passed by then), and a RUNNING row is in "old" once *)
(* its startedAt is more than ten minutes in the past.                      *)
(*                                                                         *)
(* Source: apps/api/prisma/schema.prisma (the tables),                     *)
(* apps/api/src/modules/campaigns/sequence.planner.ts (NextStep, Schedule). *)
(***************************************************************************)
EXTENDS Integers, FiniteSets

CONSTANTS
    Campaigns,      \* the campaigns of one workspace
    Leads,          \* its leads
    Positions,      \* the positions a step can have
    Reachable,      \* the pairs <<lead, position>> such that the lead has the
                    \* address or number the step at that position needs
    EmailPositions, \* the positions whose step is an e-mail
    None            \* no run, no campaign, no lead

ASSUME PositionsAssumption == Positions \subseteq Nat \ {0}
ASSUME ReachableAssumption == Reachable \subseteq Leads \X Positions
ASSUME NoneAssumption ==
    /\ None \notin Campaigns
    /\ None \notin Leads
    /\ None \notin (Campaigns \X Leads) \X Positions

\* @@unique([campaignId, leadId]) and @@unique([enrollmentId, stepId]): a row
\* of SequenceEnrollment is named by campaign and lead, a row of
\* SequenceStepRun by enrollment and position.
Enrollments == Campaigns \X Leads
RunIds == Enrollments \X Positions

VARIABLES
    campaign,   \* Campaign.status, "GONE" once deleted
    steps,      \* the positions of the steps each campaign has
    removed,    \* the positions whose step was deleted
    lead,       \* Lead.status
    suppressed, \* the leads whose address is in SuppressionEntry
    status,     \* SequenceEnrollment.status, "NONE" while there is no row
    position,   \* SequenceEnrollment.currentPosition
    run,        \* SequenceStepRun.status, "NONE" while there is no row
    attempts,   \* SequenceStepRun.attempts
    old,        \* the RUNNING runs that started over ten minutes ago
    req,        \* the request handler in progress in each slot: what it read
    heard,      \* the leads whose reply is stored (unique externalId)
    starts      \* how often each campaign was started

requestVars == <<req, heard, starts>>
storeVars == <<campaign, steps, removed, lead, suppressed,
               status, position, run, attempts, old>>

CampaignStatus == {"DRAFT", "ACTIVE", "PAUSED", "GONE"}
LeadStatus == {"NEW", "CONTACTED", "REPLIED"}
EnrollmentStatus ==
    {"NONE", "ACTIVE", "PAUSED", "REPLIED", "COMPLETED", "STOPPED", "FAILED"}
RunStatus ==
    {"NONE", "QUEUED", "RUNNING", "SENT", "SKIPPED", "FAILED", "CANCELED"}

\* Enrollments a send, a reply or an opt-out may still change.
Open == {"ACTIVE", "PAUSED"}
\* campaigns.service.ts TERMINAL: what stopEnrollment leaves alone.
Terminal == {"REPLIED", "COMPLETED", "STOPPED"}

StoreTypeOK ==
    /\ campaign \in [Campaigns -> CampaignStatus]
    /\ steps \in [Campaigns -> SUBSET Positions]
    /\ removed \in [Campaigns -> SUBSET Positions]
    /\ lead \in [Leads -> LeadStatus]
    /\ suppressed \in SUBSET Leads
    /\ status \in [Enrollments -> EnrollmentStatus]
    /\ position \in [Enrollments -> Positions \cup {0}]
    /\ run \in [RunIds -> RunStatus]
    /\ attempts \in [RunIds -> Int]
    /\ old \in SUBSET RunIds

\* A workspace with draft campaigns that have steps S, and nobody enrolled.
StoreInit(S) ==
    /\ campaign = [c \in Campaigns |-> "DRAFT"]
    /\ steps = [c \in Campaigns |-> S]
    /\ removed = [c \in Campaigns |-> {}]
    /\ lead = [l \in Leads |-> "NEW"]
    /\ suppressed = {}
    /\ status = [e \in Enrollments |-> "NONE"]
    /\ position = [e \in Enrollments |-> 0]
    /\ run = [r \in RunIds |-> "NONE"]
    /\ attempts = [r \in RunIds |-> 0]
    /\ old = {}

CampaignOf(e) == e[1]
LeadOf(e) == e[2]
EnrollmentsOf(c) == {e \in Enrollments : CampaignOf(e) = c}
RunsOf(e) == {r \in RunIds : r[1] = e}

-----------------------------------------------------------------------------
\* Mutant: the position that follows, whether or not it has a step.
FollowingPosition(S, after) == after + 1

\* nextStep: the lowest of the positions S above "after", 0 when there is none.
NextIn(S, after) ==
    IF \E p \in S : p > after
    THEN CHOOSE p \in S : p > after /\ \A q \in S : q > after => p <= q
    ELSE 0

NextStep(c, after) == NextIn(steps[c], after)

\* schedule: (re)queues the runs R with a fresh attempt count.  A row in Kept,
\* one that was already waiting, keeps its time and its attempts.
Schedule(R, Kept) ==
    /\ run' = [r \in RunIds |-> IF r \in R THEN "QUEUED" ELSE run[r]]
    /\ attempts' = [r \in RunIds |-> IF r \in R \ Kept THEN 0 ELSE attempts[r]]
    /\ old' = old \ R

\* Sets the status of one run.
Mark(r, s) ==
    /\ run' = [run EXCEPT ![r] = s]
    /\ old' = old \ {r}

\* Mutant: update without the status filter.
CloseAny(E, s) ==
    status' = [e \in Enrollments |-> IF e \in E THEN s ELSE status[e]]

\* updateMany of the enrollments E that are still ACTIVE or PAUSED.
CloseOpen(E, s) ==
    status' = [e \in Enrollments |->
                 IF e \in E /\ status[e] \in Open THEN s ELSE status[e]]
=============================================================================
