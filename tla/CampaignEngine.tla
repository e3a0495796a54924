--------------------------- MODULE CampaignEngine ---------------------------
(***************************************************************************)
(* The campaign engine as it runs: the scheduler of every API instance and *)
(* the API requests, over one database.                                    *)
(***************************************************************************)
EXTENDS CampaignRequests

CONSTANT InitialSteps   \* the steps every campaign starts out with

ASSUME InitialStepsAssumption == InitialSteps \subseteq Positions

Init ==
    /\ StoreInit(InitialSteps)
    /\ SchedInit
    /\ RequestInit

Next ==
    \/ \E i \in Instances : SchedulerStep(i)
    \/ \E r \in RunIds : Age(r)
    \/ \E q \in Requests : BeginRequest(q) \/ CommitRequest(q) \/ RequestDies(q)
    \/ \E c \in Campaigns : AtomicRequest(c)

Spec == Init /\ [][Next]_vars

\* Fairness.  An instance that has something to do does it and ticks again; a
\* request that has begun goes on; time passes.  claim takes the oldest due run
\* first, so a run that is due again and again is claimed (strong fairness), and
\* "quota or subscription problems clear up on their own"
\* (sequence.scheduler.ts:258), so a step that is tried again and again is not
\* refused forever.  No user, failure or crash is ever forced to happen.
Proceed(i) ==
    \/ RecoverStuck(i)
    \/ \E r \in batch[i] : TakeGone(i, r) \/ Take(i, r)
    \/ Check(i) \/ Requeue(i) \/ Cancel(i) \/ Prepare(i) \/ Refuse(i) \/ Send(i)
    \/ RecordSent(i) \/ Skip(i) \/ Advance(i) \/ Move(i)
    \/ Defer(i) \/ Retry(i) \/ GiveUp(i)

ClaimRun(i, r) == Claim(i) /\ r \in batch'[i]

Fairness ==
    /\ \A i \in Instances :
         /\ WF_vars(Proceed(i))
         /\ WF_vars(EndPass(i))
         /\ SF_vars(Send(i))
         /\ \A r \in RunIds : SF_vars(ClaimRun(i, r))
    /\ \A r \in RunIds : WF_vars(Age(r))
    /\ \A q \in Requests : WF_vars(CommitRequest(q))

FairSpec == Spec /\ Fairness

-----------------------------------------------------------------------------
\* Every variable keeps its type.
TypeOK == StoreTypeOK /\ SchedTypeOK /\ RequestTypeOK

\* No lead gets the same step twice (sequence.scheduler.ts:160, "it would send
\* twice"; testing/e2e.ts runs two schedulers at once to look for it).
NoDoubleSend == \A r \in RunIds : inbox[r] <= 1

\* No two instances ever have the same step in hand: "duas instancias nunca
\* pegam o mesmo passo" (docs/campaigns.md:7).
ExclusiveWork ==
    \A i, j \in Instances : i # j => \A r \in RunIds : ~(Holds(i, r) /\ Holds(j, r))

\* A lead walks the sequence one step at a time: at most one run of an
\* enrollment is waiting or being worked on.
Live(r) == run[r] \in {"QUEUED", "RUNNING"}
OneLiveRun ==
    \A e \in Enrollments : \A p, q \in Positions :
        Live(<<e, p>>) /\ Live(<<e, q>>) => p = q

\* An enrollment shown as running has something that will move it on: a run in
\* the table, or an instance about to advance it.  "The database is the schedule
\* [...] nothing is lost when a cache is flushed or the process restarts"
\* (sequence.planner.ts:8).
Advancing(i, e) == pc[i] \in {"advance", "move"} /\ cur[i] \in RunsOf(e)
ActiveHasWork ==
    \A e \in Enrollments : status[e] = "ACTIVE" =>
        \/ \E r \in RunsOf(e) : Live(r)
        \/ \E i \in Instances : Advancing(i, e)

\* A waiting run has used fewer attempts than allowed and never a negative
\* number of them: deferrals and pauses give back exactly the attempt the claim
\* took, errors do not (docs/campaigns.md:30-31).
AttemptBudget ==
    \A r \in RunIds : run[r] = "QUEUED" =>
        attempts[r] >= 0 /\ (attempts[r] < MaxAttempts \/ attempts[r] = 0)

\* A lead is never moved backwards in its sequence.
PositionMonotone ==
    [][\A e \in Enrollments :
         status'[e] # "NONE" => position'[e] >= position[e]]_vars

\* A cadence that was answered, finished or stopped stays so.
ClosedStaysClosed ==
    [][\A e \in Enrollments :
         status[e] \in Terminal => status'[e] \in Terminal]_vars

\* "A reply that arrived meanwhile wins" (sequence.scheduler.ts:235): whatever the
\* scheduler believed, it never changes an enrollment that was closed meanwhile.
ReplyWins ==
    [][\A e \in Enrollments :
         status[e] \in Terminal /\ status'[e] # status[e] => req' # req]_vars

\* A sent step and its lead's status are written together: no lead with a sent
\* step still counts as NEW.
SentMeansContacted ==
    \A r \in RunIds : run[r] = "SENT" => lead[LeadOf(r[1])] # "NEW"

\* What a delivered message left behind: a run whose message went out is not
\* waiting to be sent again ("from here on a failure must never turn into a
\* retry", sequence.scheduler.ts:160).
NoRetryAfterDelivery == \A r \in RunIds : inbox[r] > 0 => run[r] # "QUEUED"

\* "REPLIED: o lead respondeu. A cadencia para" (docs/campaigns.md:21): an answered
\* cadence does not run again.
ReplyIsFinal ==
    [][\A e \in Enrollments :
         status[e] = "REPLIED" => status'[e] \notin Open]_vars

\* Failures cost at most one repeated message each: without resuming a campaign,
\* a step reaches its lead at most once more than the number of failures so far.
DuplicatesAreBounded == \A r \in RunIds : inbox[r] <= 1 + faults

\* A run that an instance claimed does not stay RUNNING for ever, even when that
\* instance died or lost the database ("passos presos em RUNNING [...] voltam
\* para a fila", docs/campaigns.md:13).
NoRunStuck == \A r \in RunIds : run[r] = "RUNNING" ~> run[r] # "RUNNING"

\* "Os envios atrasam, mas nao se perdem" (docs/campaigns.md:12): a queued step
\* is eventually finished, unless its cadence is paused or closed.
Finished == {"SENT", "SKIPPED", "FAILED", "CANCELED", "NONE"}
QueueDrains ==
    \A r \in RunIds :
        run[r] = "QUEUED" ~> \/ run[r] \in Finished
                             \/ status[r[1]] # "ACTIVE"
                             \/ campaign[CampaignIn(r)] # "ACTIVE"

-----------------------------------------------------------------------------
\* What a lead sees of the engine, as a Cadence.
LifeOf(e) == CASE status[e] = "NONE" -> "out"
               [] status[e] \in Terminal -> "closed"
               [] OTHER -> "open"
OutcomeOf(r) == IF inbox[r] > 0 THEN "sent"
                ELSE IF run[r] = "SKIPPED" THEN "skipped" ELSE "none"

Promise == INSTANCE Cadence
             WITH life <- [e \in Enrollments |-> LifeOf(e)],
                  outcome <- [r \in RunIds |-> OutcomeOf(r)]

\* The engine keeps the promise of Cadence.
KeepsPromise == Promise!Spec
=============================================================================
