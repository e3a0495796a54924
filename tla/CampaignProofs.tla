--------------------------- MODULE CampaignProofs ---------------------------
(***************************************************************************)
(* What holds of CampaignEngine for every number of campaigns, leads,      *)
(* steps and instances: its types, and that a reply wins, of every use;    *)
(* then SafeWork, an invariant of every Orderly use.                       *)
(***************************************************************************)
EXTENDS CampaignInvariant, WellFoundedInduction, TLAPS

-----------------------------------------------------------------------------
\* The parts of a run's name.
LEMMA RunIdParts ==
    ASSUME NEW r \in RunIds
    PROVE  /\ r = <<r[1], r[2]>>
           /\ r[1] \in Enrollments
           /\ r[2] \in Positions
           /\ r[2] \in Nat \ {0}
           /\ CampaignIn(r) \in Campaigns
           /\ LeadOf(r[1]) \in Leads
           /\ r # None
BY PositionsAssumption, NoneAssumption
   DEF RunIds, Enrollments, CampaignIn, CampaignOf, LeadOf

\* nextStep finds the lowest position above "after", if there is any.
LEMMA NextInIsLeast ==
    ASSUME NEW S \in SUBSET Positions, NEW after \in Nat
    PROVE  \/ (\A p \in S : ~(p > after)) /\ NextIn(S, after) = 0
           \/ /\ NextIn(S, after) \in S
              /\ NextIn(S, after) > after
              /\ \A q \in S : q > after => NextIn(S, after) <= q
<1> DEFINE T == {p \in S : p > after}
<1>0. T \subseteq Nat /\ S \subseteq Nat
  BY PositionsAssumption
<1>1. CASE T = {}
  BY <1>1 DEF NextIn
<1>2. CASE T # {}
  <2>1. \E p \in T : \A q \in T : <<q, p>> \notin OpToRel(<, Nat)
    BY <1>0, <1>2, NatLessThanWellFounded, WFMin
  <2>2. PICK p \in T : \A q \in T : ~(q < p)
    BY <1>0, <2>1 DEF OpToRel
  <2>3. p \in S /\ p > after /\ \A q \in S : q > after => p <= q
    BY <1>0, <2>2
  <2> HIDE DEF T
  <2> DEFINE Least(x) == x > after /\ \A q \in S : q > after => x <= q
  <2>4. NextIn(S, after) = CHOOSE x \in S : Least(x)
    BY <2>3 DEF NextIn
  <2>5. (CHOOSE x \in S : Least(x)) \in S /\ Least(CHOOSE x \in S : Least(x))
    <3>1. \E x \in S : Least(x)
      BY <2>3
    <3> HIDE DEF Least
    <3> QED BY <3>1, Zenon
  <2> QED BY <2>4, <2>5
<1> QED BY <1>1, <1>2

LEMMA NextInType ==
    ASSUME NEW S \in SUBSET Positions, NEW after \in Positions \cup {0}
    PROVE  NextIn(S, after) \in Positions \cup {0}
BY NextInIsLeast, PositionsAssumption

-----------------------------------------------------------------------------
\* Marking a run, and scheduling runs, keep the tables typed.
LEMMA MarkType ==
    ASSUME StoreTypeOK, NEW r \in RunIds, NEW s \in RunStatus, Mark(r, s)
    PROVE  run' \in [RunIds -> RunStatus] /\ old' \in SUBSET RunIds
BY DEF StoreTypeOK, Mark

LEMMA ScheduleType ==
    ASSUME StoreTypeOK, NEW R \in SUBSET RunIds, NEW K, Schedule(R, K)
    PROVE  /\ run' \in [RunIds -> RunStatus]
           /\ attempts' \in [RunIds -> Int]
           /\ old' \in SUBSET RunIds
BY DEF StoreTypeOK, Schedule, RunStatus

\* Where an instance may go when it executes nothing, and when it does.
LEMMA ReleaseHands ==
    ASSUME SchedTypeOK, HandsOK, NEW i \in Instances, Release(i)
    PROVE  /\ pc' \in [Instances -> PcValue]
           /\ batch' \in [Instances -> SUBSET RunIds]
           /\ cur' \in [Instances -> RunIds \cup {None}]
           /\ tries' \in [Instances -> Int]
           /\ next' \in [Instances -> Positions \cup {0}]
           /\ HandsOK'
BY NoneAssumption DEF SchedTypeOK, HandsOK, Release, PcValue, Resting, RunIds, Enrollments

\* Where a scheduler step leaves the requests.
LEMMA RequestsStay ==
    ASSUME RequestsOK, UNCHANGED requestVars
    PROVE  RequestsOK'
BY DEF RequestsOK, RequestTypeOK, RequestTargets, requestVars

LEMMA SchedulerTyped ==
    ASSUME TypedHands, NEW i \in Instances, SchedulerStep(i)
    PROVE  TypedHands'
<1> USE DEF TypedHands
<1>0. UNCHANGED requestVars => RequestsOK'
  BY RequestsStay
<1>1. CASE RecoverStuck(i)
  BY <1>0, <1>1 DEF RecoverStuck, StoreTypeOK, SchedTypeOK, HandsOK,
     workVars, At, Goto, PcValue, Resting, RunStatus
<1>2. CASE Claim(i)
  <2>1. PICK S \in SUBSET Due :
          /\ run' = [r \in RunIds |-> IF r \in S THEN "RUNNING" ELSE run[r]]
          /\ attempts' = [r \in RunIds |->
                            IF r \in S THEN attempts[r] + 1 ELSE attempts[r]]
          /\ batch' = [batch EXCEPT ![i] = S]
    BY <1>2 DEF Claim
  <2>2. S \subseteq RunIds
    BY DEF Due
  <2>3. StoreTypeOK'
    BY <1>2, <2>1 DEF Claim, StoreTypeOK, RunStatus
  <2>4. SchedTypeOK'
    BY <1>2, <2>1, <2>2 DEF Claim, SchedTypeOK, Goto, PcValue
  <2>5. HandsOK'
    BY <1>2, <2>1, <2>2, NoneAssumption
       DEF Claim, SchedTypeOK, HandsOK, At, Goto, Resting, RunIds, Enrollments
  <2> QED BY <1>0, <1>2, <2>3, <2>4, <2>5 DEF Claim
<1>3. CASE EndPass(i)
  BY <1>0, <1>3 DEF EndPass, StoreTypeOK, SchedTypeOK, HandsOK,
     storeVars, workVars, At, Goto, PcValue, Resting
<1>4. ASSUME NEW r \in batch[i], TakeGone(i, r) PROVE TypedHands'
  BY <1>0, <1>4 DEF TakeGone, StoreTypeOK, SchedTypeOK, HandsOK,
     storeVars, workVars, At, Goto, PcValue, Resting
<1>5. ASSUME NEW r \in batch[i], Take(i, r) PROVE TypedHands'
  BY <1>0, <1>5 DEF Take, StoreTypeOK, SchedTypeOK, HandsOK,
     storeVars, workVars, At, Goto, PcValue, Resting
<1>6. CASE Check(i)
  BY <1>0, <1>6 DEF Check, Verdict, StoreTypeOK, SchedTypeOK, HandsOK,
     storeVars, workVars, At, Goto, PcValue, Resting
<1>7. CASE Requeue(i)
  BY <1>0, <1>7, MarkType, ReleaseHands DEF Requeue, StoreTypeOK, SchedTypeOK,
     At, RunStatus, HandsOK, Resting
<1>8. CASE Cancel(i)
  BY <1>0, <1>8, MarkType, ReleaseHands DEF Cancel, StoreTypeOK, SchedTypeOK, HandsOK,
     At, RunStatus, Resting
<1>9. CASE Prepare(i)
  BY <1>0, <1>9 DEF Prepare, StoreTypeOK, SchedTypeOK, HandsOK,
     storeVars, workVars, At, Goto, PcValue, Resting
<1>10. CASE Refuse(i)
  BY <1>0, <1>10 DEF Refuse, StoreTypeOK, SchedTypeOK, HandsOK,
     Refusals, storeVars, workVars, At, Goto, PcValue, Resting
<1>11. CASE Send(i)
  BY <1>0, <1>11 DEF Send, StoreTypeOK, SchedTypeOK, HandsOK,
     storeVars, workVars, At, Goto, PcValue, Resting
<1>12. CASE SendUnconfirmed(i)
  BY <1>0, <1>12 DEF SendUnconfirmed, StoreTypeOK, SchedTypeOK, HandsOK,
     Fault, storeVars, workVars, At, Goto, PcValue, Resting
<1>13. CASE RecordSent(i)
  BY <1>0, <1>13, MarkType DEF RecordSent, StoreTypeOK, SchedTypeOK, HandsOK,
     workVars, At, Goto, PcValue, Resting, RunStatus, LeadStatus
<1>14. CASE Skip(i)
  BY <1>0, <1>14, MarkType DEF Skip, StoreTypeOK, SchedTypeOK, HandsOK,
     workVars, At, Goto, PcValue, Resting, RunStatus
<1>15. CASE Advance(i)
  <2>1. cur[i] \in RunIds
    BY <1>15 DEF Advance, At, SchedTypeOK, HandsOK, Resting
  <2>2. /\ steps[CampaignIn(cur[i])] \in SUBSET Positions
        /\ cur[i][2] \in Positions
    BY <2>1, RunIdParts DEF StoreTypeOK
  <2>3. NextStep(CampaignIn(cur[i]), cur[i][2]) \in Positions \cup {0}
    BY <2>2, NextInType DEF NextStep
  <2> QED BY <1>0, <1>15, <2>3 DEF Advance, StoreTypeOK, SchedTypeOK,
     HandsOK, storeVars, At, Goto, PcValue, Resting
<1>16. CASE Move(i)
  <2> DEFINE e == cur[i][1]
             moved == status[e] \in Open
             R == IF moved /\ next[i] # 0 THEN {<<e, next[i]>>} ELSE {}
  <2>1. cur[i] \in RunIds
    BY <1>16 DEF Move, At, SchedTypeOK, HandsOK, Resting
  <2>2. e \in Enrollments /\ cur[i][2] \in Positions
    BY <2>1, RunIdParts
  <2>3. R \in SUBSET RunIds
    BY <2>2 DEF SchedTypeOK, RunIds
  <2>4. Schedule(R, {})
    BY <1>16 DEF Move
  <2> HIDE DEF R
  <2>5. /\ run' \in [RunIds -> RunStatus]
        /\ attempts' \in [RunIds -> Int]
        /\ old' \in SUBSET RunIds
    BY <2>3, <2>4, ScheduleType
  <2>6. /\ position' \in [Enrollments -> Positions \cup {0}]
        /\ status' \in [Enrollments -> EnrollmentStatus]
    BY <1>16, <2>2 DEF Move, StoreTypeOK, EnrollmentStatus
  <2> QED BY <1>0, <1>16, <2>5, <2>6, ReleaseHands
          DEF Move, StoreTypeOK, SchedTypeOK
<1>17. CASE Defer(i)
  BY <1>0, <1>17, MarkType, ReleaseHands DEF Defer, StoreTypeOK, SchedTypeOK, HandsOK,
     At, RunStatus, Resting
<1>18. CASE Retry(i)
  BY <1>0, <1>18, MarkType, ReleaseHands DEF Retry, StoreTypeOK, SchedTypeOK, HandsOK,
     At, RunStatus, Resting
<1>19. CASE GiveUp(i)
  BY <1>0, <1>19, MarkType, ReleaseHands DEF GiveUp, StoreTypeOK, SchedTypeOK, HandsOK,
     CloseOpen, EnrollmentStatus, At, RunStatus, Resting
<1>20. CASE Abandon(i)
  BY <1>0, <1>20, ReleaseHands DEF Abandon, StoreTypeOK, SchedTypeOK, HandsOK,
     Fault, storeVars
<1>21. CASE Crash(i)
  BY <1>0, <1>21 DEF Crash, StoreTypeOK, SchedTypeOK, HandsOK,
     Fault, storeVars, workVars, At, Goto, PcValue, Resting
<1> QED
  BY <1>1, <1>2, <1>3, <1>4, <1>5, <1>6, <1>7, <1>8, <1>9, <1>10, <1>11, <1>12,
     <1>13, <1>14, <1>15, <1>16, <1>17, <1>18, <1>19, <1>20, <1>21
     DEF SchedulerStep, Execute

LEMMA AgeTyped ==
    ASSUME TypedHands, NEW r \in RunIds, Age(r)
    PROVE  TypedHands'
BY RequestsStay
   DEF TypedHands, Age, Fault, StoreTypeOK, SchedTypeOK, HandsOK, workVars

-----------------------------------------------------------------------------
\* A handler that has nothing to do, and one that has begun, is a Request.
LEMMA NoRequestType == NoRequest \in Request
BY DEF NoRequest, Request

\* What the requests leave alone.
LEMMA RequestFrame ==
    ASSUME TypedHands, UNCHANGED schedVars, StoreTypeOK', RequestsOK'
    PROVE  TypedHands'
BY DEF TypedHands, SchedTypeOK, HandsOK, schedVars

LEMMA StoreFrame ==
    ASSUME StoreTypeOK, UNCHANGED storeVars
    PROVE  StoreTypeOK'
BY DEF StoreTypeOK, storeVars

LEMMA FinishType ==
    ASSUME RequestsOK, NEW q \in Requests, Finish(q), UNCHANGED <<heard, starts>>
    PROVE  RequestsOK'
BY NoRequestType DEF RequestsOK, RequestTypeOK, RequestTargets, Finish, NoRequest

LEMMA BeginTyped ==
    ASSUME TypedHands, NEW q \in Requests, BeginRequest(q)
    PROVE  TypedHands'
<1> USE DEF TypedHands, RequestsOK, RequestTypeOK, RequestTargets, NoRequest
<1>1. ASSUME NEW c \in Campaigns, NEW L \in SUBSET Leads, EnrollBegin(q, c, L)
      PROVE  TypedHands'
  <2> DEFINE p == NextStep(c, 0)
             who == {c} \X L
             going == campaign[c] = "ACTIVE"
  <2>1. p \in Positions \cup {0}
    BY NextInType DEF NextStep, StoreTypeOK
  <2>2. who \in SUBSET Enrollments /\ going \in BOOLEAN
    BY DEF Enrollments
  <2>3. req' = [req EXCEPT ![q] = [NoRequest EXCEPT !.op = "enroll", !.c = c, !.who = who,
                                                    !.p = p, !.active = going]]
    BY <1>1 DEF EnrollBegin
  <2> HIDE DEF p, who, going
  <2>4. [NoRequest EXCEPT !.op = "enroll", !.c = c, !.who = who, !.p = p,
                          !.active = going] \in Request
    BY <2>1, <2>2, NoRequestType DEF Request
  <2>5. RequestsOK'
    BY <1>1, <2>3, <2>4 DEF EnrollBegin
  <2> QED BY <1>1, <2>5, RequestFrame, StoreFrame DEF EnrollBegin
<1>2. ASSUME NEW c \in Campaigns, StartBegin(q, c)
      PROVE  TypedHands'
  <2> DEFINE W == {e \in EnrollmentsOf(c) : status[e] \in Open}
             at == [e \in Enrollments |-> IF e \in W THEN position[e] ELSE 0]
  <2>1. W \in SUBSET Enrollments /\ at \in [Enrollments -> Positions \cup {0}]
    BY DEF EnrollmentsOf, StoreTypeOK
  <2>2. steps[c] \in SUBSET Positions
    BY DEF StoreTypeOK
  <2> HIDE DEF W, at
  <2>3. [NoRequest EXCEPT !.op = "start", !.c = c, !.who = W, !.steps = steps[c],
                          !.at = at] \in Request
    BY <2>1, <2>2 DEF Request
  <2>4. req' = [req EXCEPT ![q] =
                 [NoRequest EXCEPT !.op = "start", !.c = c, !.who = W,
                                   !.steps = steps[c], !.at = at]]
    BY <1>2 DEF StartBegin, W, at
  <2>5. RequestsOK'
    BY <1>2, <2>3, <2>4 DEF StartBegin
  <2> QED BY <1>2, <2>5, RequestFrame, StoreFrame DEF StartBegin
<1>3. ASSUME NEW c \in Campaigns, NEW p \in Positions, RemoveStepBegin(q, c, p)
      PROVE  TypedHands'
  <2>1. [NoRequest EXCEPT !.op = "removeStep", !.c = c, !.p = p] \in Request
    BY DEF Request
  <2> QED BY <1>3, <2>1, RequestFrame, StoreFrame DEF RemoveStepBegin
<1>4. ASSUME NEW c \in Campaigns, RemoveBegin(q, c)
      PROVE  TypedHands'
  <2>1. [NoRequest EXCEPT !.op = "remove", !.c = c] \in Request
    BY DEF Request
  <2> QED BY <1>4, <2>1, RequestFrame, StoreFrame DEF RemoveBegin
<1>5. ASSUME NEW e \in Enrollments, StopBegin(q, e)
      PROVE  TypedHands'
  <2>1. [NoRequest EXCEPT !.op = "stop", !.who = {e}] \in Request
    BY DEF Request
  <2> QED BY <1>5, <2>1, RequestFrame, StoreFrame DEF StopBegin
<1>6. ASSUME NEW e \in Enrollments, RetryBegin(q, e)
      PROVE  TypedHands'
  <2>1. RetrySteps(e) \subseteq Positions
    <3>1. \A r \in RunsOf(e) : r[2] \in Positions
      BY RunIdParts DEF RunsOf
    <3>2. NextStep(CampaignOf(e), position[e]) \in Positions \cup {0}
      BY NextInType DEF NextStep, StoreTypeOK, CampaignOf, Enrollments
    <3> QED BY <3>1, <3>2 DEF RetrySteps
  <2>2. PICK p \in RetrySteps(e) :
          req' = [req EXCEPT ![q] =
                   [NoRequest EXCEPT
                      !.op = "retry", !.who = {e}, !.p = p,
                      !.active = (campaign[CampaignOf(e)] = "ACTIVE")]]
    BY <1>6 DEF RetryBegin
  <2>3. [NoRequest EXCEPT !.op = "retry", !.who = {e}, !.p = p,
                          !.active = (campaign[CampaignOf(e)] = "ACTIVE")] \in Request
    BY <2>1 DEF Request
  <2>4. RequestsOK'
    BY <1>6, <2>2, <2>3 DEF RetryBegin
  <2> QED BY <1>6, <2>4, RequestFrame, StoreFrame DEF RetryBegin
<1>7. ASSUME NEW l \in Leads, ReplyArrives(q, l)
      PROVE  TypedHands'
  <2>1. [NoRequest EXCEPT !.op = "stored", !.l = l] \in Request
    BY DEF Request
  <2> QED BY <1>7, <2>1, RequestFrame, StoreFrame DEF ReplyArrives
<1>8. ASSUME NEW l \in Leads, OptOutBegin(q, l)
      PROVE  TypedHands'
  <2>1. [NoRequest EXCEPT !.op = "optOut", !.l = l] \in Request
    BY DEF Request
  <2>2. StoreTypeOK' /\ RequestsOK'
    BY <1>8, <2>1 DEF OptOutBegin, StoreTypeOK
  <2> QED BY <1>8, <2>2, RequestFrame DEF OptOutBegin
<1> QED
  BY <1>1, <1>2, <1>3, <1>4, <1>5, <1>6, <1>7, <1>8 DEF BeginRequest

LEMMA DropRunsType ==
    ASSUME StoreTypeOK, NEW R, DropRuns(R)
    PROVE  /\ run' \in [RunIds -> RunStatus]
           /\ attempts' \in [RunIds -> Int]
           /\ old' \in SUBSET RunIds
BY DEF StoreTypeOK, DropRuns, RunStatus

\* What start queues are runs of the enrollments it read.
LEMMA StartQueuesType ==
    ASSUME NEW w PROVE StartQueues(w) \in SUBSET RunIds
BY DEF StartQueues

LEMMA CommitTyped ==
    ASSUME TypedHands, NEW q \in Requests, CommitRequest(q)
    PROVE  TypedHands'
<1> USE DEF TypedHands
<1> DEFINE w == req[q]
<1>0. w \in Request /\ (UNCHANGED storeVars => StoreTypeOK')
  BY StoreFrame DEF RequestsOK, RequestTypeOK, RequestTargets
<1>1. CASE EnrollCommit(q)
  <2>1. CASE EnrollFails(w)
    BY <1>0, <1>1, <2>1, FinishType, RequestFrame DEF EnrollCommit
  <2>2. CASE ~EnrollFails(w)
    <3> DEFINE R == IF w.active THEN w.who \X {w.p} ELSE {}
    <3>0. w.c \in Campaigns
      BY <1>1 DEF EnrollCommit, Pending, RequestsOK, RequestTargets
    <3>1. w.active => w.p \in Positions
      BY <3>0, <2>2 DEF EnrollFails, StoreTypeOK
    <3> HIDE DEF R
    <3>2. R \in SUBSET RunIds
      BY <1>0, <3>1 DEF R, Request, RunIds
    <3>3. Schedule(R, {})
      BY <1>1, <2>2 DEF EnrollCommit, R
    <3>4. StoreTypeOK'
      BY <1>1, <2>2, <3>2, <3>3, ScheduleType
         DEF EnrollCommit, StoreTypeOK, EnrollmentStatus
    <3> QED BY <1>1, <3>4, FinishType, RequestFrame DEF EnrollCommit
  <2> QED BY <2>1, <2>2
<1>2. CASE StartCommit(q)
  <2> DEFINE fails == ~Exists(w.c) \/ \E r \in StartQueues(w) : r[2] \notin steps[w.c]
  <2>1. CASE fails
    BY <1>0, <1>2, <2>1, FinishType, RequestFrame DEF StartCommit
  <2>2. CASE ~fails
    <3>1. Schedule(StartQueues(w), {r \in StartQueues(w) : run[r] = "QUEUED"})
      BY <1>2, <2>2 DEF StartCommit
    <3>2. StoreTypeOK'
      BY <1>2, <2>2, <3>1, StartQueuesType, ScheduleType
         DEF StartCommit, StoreTypeOK, EnrollmentStatus, CampaignStatus
    <3> QED BY <1>2, <3>2, FinishType, RequestFrame DEF StartCommit
  <2> QED BY <2>1, <2>2
<1>3. CASE StopCommit(q)
  <2>1. StoreTypeOK'
    BY <1>0, <1>3 DEF StopCommit, StoreTypeOK, EnrollmentStatus, RunStatus
  <2> QED BY <1>3, <2>1, FinishType, RequestFrame DEF StopCommit
<1>4. CASE RetryCommit(q)
  <2>1. PICK e \in w.who :
          \/ UNCHANGED storeVars
          \/ /\ w.p \in steps[CampaignOf(e)]
             /\ Schedule({<<e, w.p>>}, {})
             /\ status' = [status EXCEPT ![e] = IF w.active THEN "ACTIVE" ELSE "PAUSED"]
             /\ UNCHANGED <<campaign, steps, removed, lead, suppressed, position>>
    BY <1>4 DEF RetryCommit
  <2>2. e \in Enrollments
    BY <1>0 DEF Request
  <2>3. CASE w.p \in steps[CampaignOf(e)] /\ Schedule({<<e, w.p>>}, {})
    <3>1. {<<e, w.p>>} \in SUBSET RunIds
      BY <2>2, <2>3 DEF StoreTypeOK, RunIds, CampaignOf, Enrollments
    <3> QED BY <2>1, <2>3, <3>1, ScheduleType, <1>0, <1>4, FinishType, RequestFrame
            DEF StoreTypeOK, EnrollmentStatus, RetryCommit
  <2> QED BY <1>0, <1>4, <2>1, <2>3, FinishType, RequestFrame DEF RetryCommit
<1>5. CASE RemoveStepCommit(q)
  <2>1. CASE w.p \notin steps[w.c]
    BY <1>0, <1>5, <2>1, FinishType, RequestFrame DEF RemoveStepCommit
  <2>2. CASE w.p \in steps[w.c]
    <3>1. w.c \in Campaigns /\ w.p \in Positions
      BY <1>5, <2>2 DEF RemoveStepCommit, Pending, StoreTypeOK, RequestsOK, RequestTargets
    <3> QED BY <1>5, <2>2, <3>1, DropRunsType, FinishType, RequestFrame
            DEF RemoveStepCommit, StoreTypeOK
  <2> QED BY <2>1, <2>2
<1>6. CASE RemoveCommit(q)
  <2>1. StoreTypeOK'
    BY <1>6, DropRunsType DEF RemoveCommit, StoreTypeOK, EnrollmentStatus, CampaignStatus
  <2> QED BY <1>6, <2>1, FinishType, RequestFrame DEF RemoveCommit
<1>7. CASE ReplyMarksLead(q)
  <2>1. StoreTypeOK'
    BY <1>7 DEF ReplyMarksLead, StoreTypeOK, LeadStatus
  <2>2. [w EXCEPT !.op = "marked"] \in Request
    BY <1>0 DEF Request
  <2>3. RequestsOK'
    BY <1>7, <2>2 DEF ReplyMarksLead, RequestsOK, RequestTypeOK, RequestTargets
  <2> QED BY <1>7, <2>1, <2>3, RequestFrame DEF ReplyMarksLead
<1>8. CASE ReplyClosesCadences(q)
  <2>1. StoreTypeOK'
    BY <1>8 DEF ReplyClosesCadences, CloseOpen, StoreTypeOK, EnrollmentStatus
  <2> QED BY <1>8, <2>1, FinishType, RequestFrame DEF ReplyClosesCadences
<1>9. CASE OptOutCommit(q)
  <2>1. StoreTypeOK'
    BY <1>9 DEF OptOutCommit, CloseOpen, StoreTypeOK, EnrollmentStatus
  <2> QED BY <1>9, <2>1, FinishType, RequestFrame DEF OptOutCommit
<1> QED
  BY <1>1, <1>2, <1>3, <1>4, <1>5, <1>6, <1>7, <1>8, <1>9 DEF CommitRequest

LEMMA RequestDiesTyped ==
    ASSUME TypedHands, NEW q \in Requests, RequestDies(q)
    PROVE  TypedHands'
<1>1. StoreTypeOK' /\ RequestsOK'
  BY FinishType, StoreFrame DEF RequestDies, TypedHands
<1>2. SchedTypeOK' /\ HandsOK'
  BY DEF RequestDies, Fault, TypedHands, SchedTypeOK, HandsOK, workVars
<1> QED BY <1>1, <1>2 DEF TypedHands

LEMMA AtomicTyped ==
    ASSUME TypedHands, NEW c \in Campaigns, AtomicRequest(c)
    PROVE  TypedHands'
<1>1. CASE Pause(c)
  <2>1. StoreTypeOK'
    BY <1>1 DEF Pause, TypedHands, StoreTypeOK, CampaignStatus, EnrollmentStatus
  <2> QED BY <1>1, <2>1, RequestsStay, RequestFrame DEF Pause, TypedHands
<1>2. ASSUME NEW p \in Positions, AddStep(c, p) PROVE TypedHands'
  <2>1. StoreTypeOK'
    BY <1>2 DEF AddStep, TypedHands, StoreTypeOK
  <2> QED BY <1>2, <2>1, RequestsStay, RequestFrame DEF AddStep, TypedHands
<1> QED BY <1>1, <1>2 DEF AtomicRequest

LEMMA InitTyped == Init => TypedHands
<1> SUFFICES ASSUME Init PROVE TypedHands
  OBVIOUS
<1>1. StoreTypeOK
  BY InitialStepsAssumption
     DEF Init, StoreInit, StoreTypeOK, CampaignStatus, LeadStatus, EnrollmentStatus, RunStatus
<1>2. SchedTypeOK /\ HandsOK
  BY DEF Init, SchedInit, SchedTypeOK, HandsOK, PcValue, Resting
<1>3. RequestsOK
  BY NoRequestType
     DEF Init, RequestInit, RequestsOK, RequestTypeOK, RequestTargets, NoRequest
<1> QED BY <1>1, <1>2, <1>3 DEF TypedHands

LEMMA NextTyped == TypedHands /\ [Next]_vars => TypedHands'
<1> SUFFICES ASSUME TypedHands, [Next]_vars PROVE TypedHands'
  OBVIOUS
<1>1. CASE UNCHANGED vars
  BY <1>1, StoreFrame, RequestsStay, RequestFrame DEF vars, TypedHands
<1>2. CASE Next
  BY <1>2, SchedulerTyped, AgeTyped, BeginTyped, CommitTyped, RequestDiesTyped,
     AtomicTyped DEF Next
<1> QED BY <1>1, <1>2

\* Whatever happens, every variable keeps its type, and an instance that
\* executes nothing has nothing in its hands.
THEOREM HandsAreTyped == Spec => []TypedHands
BY InitTyped, NextTyped, PTL DEF Spec

\* Every variable keeps its type: TypeOK of CampaignEngine.
THEOREM TypeCorrect == Spec => []TypeOK
<1>1. TypedHands => TypeOK
  BY DEF TypedHands, TypeOK, RequestsOK
<1> QED BY <1>1, HandsAreTyped, PTL

-----------------------------------------------------------------------------
\* A step that records no delivery leaves nothing newly SENT and no lead NEW that
\* was not.
NothingNewlySent ==
    /\ \A r \in RunIds : run'[r] = "SENT" => run[r] = "SENT"
    /\ \A l \in Leads : lead'[l] = "NEW" => lead[l] = "NEW"

LEMMA ScheduleSendsNothing ==
    ASSUME NEW R, NEW K, Schedule(R, K), UNCHANGED lead
    PROVE  NothingNewlySent
BY DEF Schedule, NothingNewlySent

LEMMA MarkSendsNothing ==
    ASSUME StoreTypeOK, NEW r, NEW s, s # "SENT", Mark(r, s), UNCHANGED lead
    PROVE  NothingNewlySent
BY DEF StoreTypeOK, Mark, NothingNewlySent

LEMMA DropSendsNothing ==
    ASSUME NEW R, DropRuns(R), UNCHANGED lead
    PROVE  NothingNewlySent
BY DEF DropRuns, NothingNewlySent

LEMMA SchedulerRecords ==
    ASSUME TypedHands, NEW i \in Instances, SchedulerStep(i), ~RecordSent(i)
    PROVE  NothingNewlySent
<1> USE DEF TypedHands
<1>1. UNCHANGED <<run, lead>> => NothingNewlySent
  BY DEF NothingNewlySent
<1>2. CASE RecoverStuck(i) \/ Claim(i)
  BY <1>2 DEF RecoverStuck, Claim, NothingNewlySent
<1>3. CASE \/ Requeue(i) \/ Cancel(i) \/ Skip(i) \/ Defer(i) \/ Retry(i) \/ GiveUp(i)
  BY <1>3, MarkSendsNothing DEF Requeue, Cancel, Skip, Defer, Retry, GiveUp
<1>4. CASE Move(i)
  BY <1>4, ScheduleSendsNothing DEF Move
<1>5. CASE EndPass(i) \/ \E r \in batch[i] : TakeGone(i, r) \/ Take(i, r)
  BY <1>1, <1>5 DEF EndPass, TakeGone, Take, storeVars
<1>6. CASE \/ Check(i) \/ Prepare(i) \/ Refuse(i) \/ Send(i) \/ SendUnconfirmed(i)
          \/ Advance(i) \/ Abandon(i) \/ Crash(i)
  BY <1>1, <1>6 DEF Check, Prepare, Refuse, Send, SendUnconfirmed, Advance, Abandon,
     Crash, storeVars
<1> QED BY <1>2, <1>3, <1>4, <1>5, <1>6 DEF SchedulerStep, Execute

LEMMA RequestsRecordNothing ==
    ASSUME TypedHands, NEW q \in Requests,
           BeginRequest(q) \/ CommitRequest(q) \/ RequestDies(q)
    PROVE  NothingNewlySent
<1> USE DEF TypedHands
<1>1. UNCHANGED <<run, lead>> => NothingNewlySent
  BY DEF NothingNewlySent
<1>2. CASE BeginRequest(q) \/ RequestDies(q)
  BY <1>1, <1>2 DEF BeginRequest, EnrollBegin, StartBegin, RemoveStepBegin, RemoveBegin,
     StopBegin, RetryBegin, ReplyArrives, OptOutBegin, RequestDies, storeVars
<1>3. CASE EnrollCommit(q) \/ StartCommit(q) \/ RetryCommit(q)
  BY <1>1, <1>3, ScheduleSendsNothing DEF EnrollCommit, StartCommit, RetryCommit, storeVars
<1>4. CASE StopCommit(q)
  BY <1>1, <1>4 DEF StopCommit, NothingNewlySent, storeVars
<1>5. CASE RemoveStepCommit(q) \/ RemoveCommit(q)
  BY <1>1, <1>5, DropSendsNothing DEF RemoveStepCommit, RemoveCommit, storeVars
<1>6. CASE ReplyMarksLead(q)
  BY <1>6 DEF ReplyMarksLead, NothingNewlySent, StoreTypeOK
<1>7. CASE ReplyClosesCadences(q) \/ OptOutCommit(q)
  BY <1>1, <1>7 DEF ReplyClosesCadences, OptOutCommit
<1> QED BY <1>2, <1>3, <1>4, <1>5, <1>6, <1>7 DEF CommitRequest

LEMMA SentStep ==
    TypedHands /\ SentMeansContacted /\ [Next]_vars => SentMeansContacted'
<1> SUFFICES ASSUME TypedHands, SentMeansContacted, [Next]_vars
             PROVE  SentMeansContacted'
  OBVIOUS
<1>1. NothingNewlySent => SentMeansContacted'
  BY RunIdParts DEF NothingNewlySent, SentMeansContacted
<1>2. ASSUME NEW i \in Instances, RecordSent(i) PROVE SentMeansContacted'
  <2>1. cur[i] \in RunIds
    BY <1>2 DEF RecordSent, At, TypedHands, SchedTypeOK, HandsOK, Resting
  <2> QED BY <1>2, <2>1, RunIdParts
          DEF RecordSent, Mark, TypedHands, StoreTypeOK, SentMeansContacted
<1>3. CASE UNCHANGED vars
  BY <1>1, <1>3 DEF NothingNewlySent, vars, storeVars
<1>4. ASSUME NEW r \in RunIds, Age(r) PROVE SentMeansContacted'
  BY <1>1, <1>4 DEF Age, NothingNewlySent
<1>5. ASSUME NEW c \in Campaigns, AtomicRequest(c) PROVE SentMeansContacted'
  BY <1>1, <1>5 DEF AtomicRequest, Pause, AddStep, NothingNewlySent
<1> QED
  BY <1>1, <1>2, <1>3, <1>4, <1>5, SchedulerRecords, RequestsRecordNothing DEF Next

\* recordSent writes the run and the lead in one transaction, and nothing makes a
\* lead NEW again: a lead with a SENT step never counts as NEW.
THEOREM SentLeadsAreContacted == Spec => []SentMeansContacted
<1>1. Init => SentMeansContacted
  BY DEF Init, StoreInit, SentMeansContacted
<1> QED BY <1>1, SentStep, HandsAreTyped, PTL DEF Spec

-----------------------------------------------------------------------------
\* The scheduler and the atomic requests leave closed enrollments alone.
ClosedLeftAlone == \A e \in Enrollments : status[e] \in Terminal => status'[e] = status[e]

LEMMA SchedulerLeavesClosed ==
    ASSUME TypedHands, NEW i \in Instances, SchedulerStep(i)
    PROVE  ClosedLeftAlone
<1>1. UNCHANGED status => ClosedLeftAlone
  BY DEF ClosedLeftAlone
<1>2. CASE Move(i)
  BY <1>2 DEF Move, ClosedLeftAlone, TypedHands, StoreTypeOK, Open, Terminal
<1>3. CASE GiveUp(i)
  BY <1>3 DEF GiveUp, CloseOpen, ClosedLeftAlone, Open, Terminal
<1>4. CASE RecoverStuck(i) \/ Claim(i) \/ EndPass(i) \/ Crash(i)
          \/ \E r \in batch[i] : TakeGone(i, r) \/ Take(i, r)
  BY <1>1, <1>4 DEF RecoverStuck, Claim, EndPass, Crash, TakeGone, Take, storeVars
<1>5. CASE \/ Check(i) \/ Requeue(i) \/ Cancel(i) \/ Prepare(i) \/ Refuse(i) \/ Send(i)
          \/ SendUnconfirmed(i) \/ RecordSent(i) \/ Skip(i) \/ Advance(i) \/ Defer(i)
          \/ Retry(i) \/ Abandon(i)
  BY <1>1, <1>5 DEF Check, Requeue, Cancel, Prepare, Refuse, Send, SendUnconfirmed,
     RecordSent, Skip, Advance, Defer, Retry, Abandon, storeVars
<1> QED BY <1>2, <1>3, <1>4, <1>5 DEF SchedulerStep, Execute

\* A request that begins or ends is one that was, or will be, in progress.
LEMMA RequestsShow ==
    ASSUME TypedHands, NEW q \in Requests,
           BeginRequest(q) \/ CommitRequest(q) \/ RequestDies(q)
    PROVE  req' # req \/ UNCHANGED status
<1> USE DEF TypedHands, RequestsOK, RequestTypeOK
<1>1. CASE BeginRequest(q)
  BY <1>1 DEF BeginRequest, EnrollBegin, StartBegin, RemoveStepBegin, RemoveBegin,
     StopBegin, RetryBegin, ReplyArrives, OptOutBegin, storeVars
<1>2. Finish(q) /\ req[q].op # "idle" => req' # req
  BY DEF Finish, NoRequest
<1>3. CASE CommitRequest(q) /\ ~ReplyMarksLead(q)
  BY <1>2, <1>3 DEF CommitRequest, EnrollCommit, StartCommit, StopCommit, RetryCommit,
     RemoveStepCommit, RemoveCommit, ReplyClosesCadences, OptOutCommit, Pending
<1>4. CASE ReplyMarksLead(q) \/ RequestDies(q)
  BY <1>4 DEF ReplyMarksLead, RequestDies, storeVars
<1> QED BY <1>1, <1>3, <1>4

LEMMA ReplyWinsStep ==
    ASSUME TypedHands, [Next]_vars, NEW e \in Enrollments,
           status[e] \in Terminal, status'[e] # status[e]
    PROVE  req' # req
<1>1. CASE UNCHANGED vars
  BY <1>1 DEF vars, storeVars
<1>2. ASSUME NEW i \in Instances, SchedulerStep(i) PROVE FALSE
  BY <1>2, SchedulerLeavesClosed DEF ClosedLeftAlone
<1>3. ASSUME NEW r \in RunIds, Age(r) PROVE FALSE
  BY <1>3 DEF Age
<1>4. ASSUME NEW c \in Campaigns, AtomicRequest(c) PROVE FALSE
  BY <1>4 DEF AtomicRequest, Pause, AddStep, Terminal
<1>5. ASSUME NEW q \in Requests, BeginRequest(q) \/ CommitRequest(q) \/ RequestDies(q)
      PROVE  req' # req
  BY <1>5, RequestsShow
<1> QED BY <1>1, <1>2, <1>3, <1>4, <1>5 DEF Next

\* "A reply that arrived meanwhile wins": however late the scheduler is, with any
\* failures and any number of instances, it never changes a closed enrollment.
THEOREM RepliesWin == Spec => ReplyWins
<1>1. TypedHands /\ [Next]_vars
      => [\A e \in Enrollments :
            status[e] \in Terminal /\ status'[e] # status[e] => req' # req]_vars
  BY ReplyWinsStep
<1> QED BY <1>1, HandsAreTyped, PTL DEF Spec, ReplyWins

-----------------------------------------------------------------------------
(* SafeWork, whose part that needs no assumption is TypedHands. The actions *)
(* are taken in groups that change the same things.                         *)

\* What is left to show of each step.
SafeParts ==
    /\ HeldRuns
    /\ ExclusiveWork
    /\ LastRow
    /\ NextIsLater
    /\ RowsBelong
    /\ BeforeStart
    /\ RequestKnows
    /\ InboxBounded

Quiet == UNCHANGED <<campaign, status, run, old, inbox, faults, requestVars>>

\* An instance executes a run exactly when it has one.
LEMMA CurIsRun ==
    ASSUME TypedHands, NEW i \in Instances, pc[i] \notin Resting
    PROVE  cur[i] \in RunIds
BY DEF TypedHands, SchedTypeOK, HandsOK

-----------------------------------------------------------------------------
\* An instance goes on with its run: only pc changes.
LEMMA GoesOn ==
    ASSUME SafeWork, NEW i \in Instances, NEW p \in PcValue,
           pc[i] \notin Resting \cup Settled \cup {"record"},
           p \notin Resting \cup Settled \cup {"record"},
           Goto(i, p), UNCHANGED <<batch, cur, next>>, Quiet
    PROVE  SafeParts'
<1> USE DEF SafeWork
<1>1. HeldRuns'
  BY DEF Goto, Quiet, HeldRuns, Working, Settling, TypedHands, SchedTypeOK
<1>2. ExclusiveWork'
  BY DEF Goto, Quiet, ExclusiveWork, Holds
<1>3. LastRow'
  BY DEF Goto, Quiet, LastRow, Unfinished, Later, Settling, TypedHands, SchedTypeOK
<1>4. NextIsLater'
  BY DEF Goto, Quiet, NextIsLater, Settled, TypedHands, SchedTypeOK
<1>5. RowsBelong' /\ BeforeStart' /\ RequestKnows'
  BY DEF Quiet, RowsBelong, BeforeStart, NotStarted, RequestKnows, requestVars
<1>6. InboxBounded'
  BY DEF Goto, Quiet, InboxBounded, MayBeSent, TypedHands, SchedTypeOK
<1> QED BY <1>1, <1>2, <1>3, <1>4, <1>5, <1>6 DEF SafeParts

\* An instance lets go of the run it executes, after giving it status s.
LEMMA LetsGo ==
    ASSUME SafeWork, NEW i \in Instances, NEW s \in {"QUEUED", "CANCELED", "FAILED"},
           pc[i] \notin Resting \cup Settled \cup {"record"},
           Mark(cur[i], s), Release(i), UNCHANGED <<campaign, inbox, faults, requestVars>>,
           \/ UNCHANGED status
           \/ s = "FAILED" /\ CloseOpen({cur[i][1]}, "FAILED")
    PROVE  SafeParts'
<1> USE DEF SafeWork
<1>0. cur[i] \in RunIds /\ run[cur[i]] = "RUNNING" /\ cur[i] \notin batch[i]
  BY CurIsRun DEF HeldRuns, Working, TypedHands, HandsOK
<1>1. HeldRuns'
  <2>1. \A r \in RunIds : r # cur[i] => run'[r] = run[r] /\ (r \in old' <=> r \in old)
    BY DEF Mark, TypedHands, StoreTypeOK
  <2>2. old' \subseteq RunIds /\ cur[i] \notin old'
    BY DEF Mark, TypedHands, StoreTypeOK
  <2>3. \A j \in Instances : j # i => cur'[j] = cur[j] /\ pc'[j] = pc[j] /\ cur[i] # cur[j]
                                      /\ cur[i] \notin batch[j]
    BY <1>0 DEF Release, ExclusiveWork, Holds, TypedHands, SchedTypeOK
  <2>4. cur'[i] = None /\ batch' = batch
    BY DEF Release, TypedHands, SchedTypeOK
  <2>5. ASSUME NEW j \in Instances, NEW r \in RunIds PROVE
          /\ r \in batch'[j] \/ Working(j, r)' => run'[r] = "RUNNING" /\ r \notin old'
          /\ Settling(j, r)' => run'[r] \in {"SENT", "SKIPPED"}
    BY <1>0, <2>1, <2>3, <2>4, RunIdParts DEF HeldRuns, Working, Settling
  <2> QED BY <2>1, <2>2, <2>5 DEF HeldRuns
<1>2. ExclusiveWork'
  BY <1>0, RunIdParts DEF Release, ExclusiveWork, Holds, TypedHands, SchedTypeOK
<1>3. LastRow'
  BY <1>0 DEF Mark, Release, LastRow, Unfinished, Later, Settling, Settled,
     TypedHands, SchedTypeOK, StoreTypeOK
<1>4. NextIsLater'
  BY DEF Release, NextIsLater, TypedHands, SchedTypeOK
<1>5. RowsBelong'
  BY <1>0, RunIdParts DEF Mark, CloseOpen, RowsBelong, TypedHands, StoreTypeOK, Open
<1>6. BeforeStart' /\ RequestKnows'
  BY <1>0, RunIdParts DEF Mark, CloseOpen, BeforeStart, NotStarted, RequestKnows,
     requestVars, TypedHands, StoreTypeOK, Open
<1>7. InboxBounded'
  BY <1>0 DEF Mark, Release, InboxBounded, MayBeSent, TypedHands, SchedTypeOK, StoreTypeOK
<1> QED BY <1>1, <1>2, <1>3, <1>4, <1>5, <1>6, <1>7 DEF SafeParts

\* An instance writes the outcome of its run and turns to the enrollment.
LEMMA Settles ==
    ASSUME SafeWork, NEW i \in Instances,
           \/ At(i, "record") /\ Mark(cur[i], "SENT")
           \/ At(i, "skip") /\ Mark(cur[i], "SKIPPED"),
           Goto(i, "advance"),
           UNCHANGED <<campaign, status, batch, cur, next, inbox, faults, requestVars>>
    PROVE  SafeParts'
<1> USE DEF SafeWork
<1>0. cur[i] \in RunIds /\ run[cur[i]] = "RUNNING" /\ cur[i] \notin batch[i]
  BY CurIsRun DEF HeldRuns, Working, TypedHands, HandsOK, At, Resting, Settled
<1>1. HeldRuns'
  <2>1. \A r \in RunIds : r # cur[i] => run'[r] = run[r] /\ (r \in old' <=> r \in old)
    BY DEF Mark, TypedHands, StoreTypeOK
  <2>2. old' \subseteq RunIds /\ cur[i] \notin old' /\ run'[cur[i]] \in {"SENT", "SKIPPED"}
    BY <1>0 DEF Mark, TypedHands, StoreTypeOK
  <2>3. \A j \in Instances : j # i => pc'[j] = pc[j] /\ cur[i] # cur[j] /\ cur[i] \notin batch[j]
    BY <1>0 DEF Goto, ExclusiveWork, Holds, TypedHands, SchedTypeOK
  <2>4. pc'[i] = "advance"
    BY DEF Goto, TypedHands, SchedTypeOK
  <2>5. ASSUME NEW j \in Instances, NEW r \in RunIds PROVE
          /\ r \in batch'[j] \/ Working(j, r)' => run'[r] = "RUNNING" /\ r \notin old'
          /\ Settling(j, r)' => run'[r] \in {"SENT", "SKIPPED"}
    BY <1>0, <2>1, <2>2, <2>3, <2>4 DEF HeldRuns, Working, Settling, Settled
  <2> QED BY <2>1, <2>2, <2>5 DEF HeldRuns
<1>2. ExclusiveWork'
  BY DEF ExclusiveWork, Holds
<1>3. LastRow'
  BY <1>0 DEF Mark, Goto, LastRow, Unfinished, Later, Settling, TypedHands, SchedTypeOK, StoreTypeOK
<1>4. NextIsLater'
  BY DEF Goto, NextIsLater, TypedHands, SchedTypeOK
<1>5. RowsBelong'
  BY <1>0 DEF Mark, RowsBelong, TypedHands, StoreTypeOK
<1>6. BeforeStart' /\ RequestKnows'
  BY <1>0 DEF Mark, BeforeStart, NotStarted, RequestKnows, requestVars, TypedHands, StoreTypeOK
<1>7. InboxBounded'
  BY <1>0 DEF Mark, Goto, At, InboxBounded, MayBeSent, TypedHands, SchedTypeOK, StoreTypeOK
<1> QED BY <1>1, <1>2, <1>3, <1>4, <1>5, <1>6, <1>7 DEF SafeParts

\* An instance drops its run, and maybe its batch, and nothing else changes: the
\* bookkeeping failed, or the process died.
LEMMA Drops ==
    ASSUME SafeWork, NEW i \in Instances, NEW p \in Resting, NEW B \in SUBSET batch[i],
           pc' = [pc EXCEPT ![i] = p], cur' = [cur EXCEPT ![i] = None],
           batch' = [batch EXCEPT ![i] = B], next' = [next EXCEPT ![i] = 0],
           UNCHANGED <<campaign, status, run, old, inbox, requestVars>>,
           \/ pc[i] # "record" /\ faults' \in {faults, faults + 1}
           \/ faults' = faults + 1
    PROVE  SafeParts'
<1> USE DEF SafeWork
<1>0. \A r \in RunIds : r # None
  BY RunIdParts
<1>1. HeldRuns'
  BY <1>0 DEF HeldRuns, Working, Settling, TypedHands, SchedTypeOK, StoreTypeOK
<1>2. ExclusiveWork'
  BY <1>0 DEF ExclusiveWork, Holds, TypedHands, SchedTypeOK
<1>3. LastRow'
  BY <1>0 DEF LastRow, Unfinished, Later, Settling, TypedHands, SchedTypeOK
<1>4. NextIsLater'
  BY DEF NextIsLater, TypedHands, SchedTypeOK
<1>5. RowsBelong' /\ BeforeStart' /\ RequestKnows'
  BY DEF RowsBelong, BeforeStart, NotStarted, RequestKnows, requestVars
<1>6. InboxBounded'
  <2>1. faults \in Nat /\ inbox \in [RunIds -> Nat] /\ faults' \in Nat /\ faults <= faults'
    BY DEF TypedHands, SchedTypeOK
  <2>2. ASSUME NEW r \in RunIds PROVE
          inbox'[r] <= 1 + faults' /\ (MayBeSent(r)' => inbox'[r] <= faults')
    <3>1. inbox[r] <= 1 + faults
      BY DEF InboxBounded
    <3>2. CASE faults' = faults + 1
      BY <2>1, <3>1, <3>2
    <3>3. CASE pc[i] # "record" /\ faults' = faults
      <4>1. MayBeSent(r)' => MayBeSent(r)
        BY <3>3 DEF MayBeSent, TypedHands, SchedTypeOK
      <4> QED BY <2>1, <3>1, <3>3, <4>1 DEF InboxBounded
    <3> QED BY <3>2, <3>3
  <2> QED BY <2>2 DEF InboxBounded
<1> QED BY <1>1, <1>2, <1>3, <1>4, <1>5, <1>6 DEF SafeParts

\* recoverStuck requeues runs that nobody holds any more.
LEMMA Recovers ==
    ASSUME SafeWork, NEW i \in Instances, RecoverStuck(i)
    PROVE  SafeParts'
<1> USE DEF SafeWork, RecoverStuck, At
<1>1. HeldRuns'
  BY DEF Goto, workVars, HeldRuns, Working, Settling, Settled, TypedHands, SchedTypeOK, StoreTypeOK
<1>2. ExclusiveWork'
  BY DEF workVars, ExclusiveWork, Holds
<1>3. LastRow'
  BY DEF Goto, workVars, LastRow, Unfinished, Later, Settling, Settled, TypedHands, SchedTypeOK, StoreTypeOK
<1>4. NextIsLater'
  BY DEF Goto, workVars, NextIsLater, TypedHands, SchedTypeOK
<1>5. RowsBelong' /\ BeforeStart' /\ RequestKnows'
  BY DEF RowsBelong, BeforeStart, NotStarted, RequestKnows, requestVars, TypedHands, StoreTypeOK
<1>6. InboxBounded'
  BY DEF Goto, workVars, InboxBounded, MayBeSent, TypedHands, SchedTypeOK, StoreTypeOK
<1> QED BY <1>1, <1>2, <1>3, <1>4, <1>5, <1>6 DEF SafeParts

\* claim takes QUEUED runs: nobody holds one of those.
LEMMA Claims ==
    ASSUME SafeWork, NEW i \in Instances, Claim(i)
    PROVE  SafeParts'
<1> USE DEF SafeWork
<1>0. PICK S \in SUBSET Due :
        /\ run' = [r \in RunIds |-> IF r \in S THEN "RUNNING" ELSE run[r]]
        /\ batch' = [batch EXCEPT ![i] = S]
  BY DEF Claim
<1>a. /\ pc[i] = "claim" /\ pc' = [pc EXCEPT ![i] = "take"]
      /\ cur[i] = None /\ batch[i] = {}
      /\ UNCHANGED <<campaign, status, old, cur, next, inbox, faults, requestVars>>
  BY DEF Claim, At, Goto, TypedHands, HandsOK, Resting
<1>b. \A r \in S : /\ r \in RunIds /\ run[r] = "QUEUED" /\ status[r[1]] = "ACTIVE"
                   /\ campaign[r[1][1]] = "ACTIVE" /\ r \notin old
                   /\ \A j \in Instances : ~Holds(j, r)
  BY DEF Due, CampaignIn, CampaignOf, HeldRuns, Holds, Working, Settling
<1>1. HeldRuns'
  BY <1>0, <1>a, <1>b, RunIdParts DEF HeldRuns, Holds, Working, Settling, Settled,
     TypedHands, SchedTypeOK, StoreTypeOK
<1>2. ExclusiveWork'
  BY <1>0, <1>a, <1>b, RunIdParts DEF ExclusiveWork, Holds, TypedHands, SchedTypeOK
<1>3. LastRow'
  BY <1>0, <1>a, <1>b DEF LastRow, Unfinished, Later, Settling, Settled,
     TypedHands, SchedTypeOK, StoreTypeOK
<1>4. NextIsLater'
  BY <1>a DEF NextIsLater, TypedHands, SchedTypeOK
<1>5. RowsBelong'
  BY <1>0, <1>a, <1>b DEF RowsBelong, TypedHands, StoreTypeOK
<1>6. BeforeStart' /\ RequestKnows'
  BY <1>0, <1>a, <1>b DEF BeforeStart, NotStarted, RequestKnows, requestVars,
     TypedHands, StoreTypeOK
<1>7. InboxBounded'
  BY <1>0, <1>a, <1>b DEF InboxBounded, MayBeSent, TypedHands, SchedTypeOK, StoreTypeOK
<1> QED BY <1>1, <1>2, <1>3, <1>4, <1>5, <1>6, <1>7 DEF SafeParts

\* Looking at the batch: a pass ends, or a run is taken from it.
LEMMA Takes ==
    ASSUME SafeWork, NEW i \in Instances,
           EndPass(i) \/ \E r \in batch[i] : TakeGone(i, r) \/ Take(i, r)
    PROVE  SafeParts'
<1> USE DEF SafeWork
<1>0. UNCHANGED <<campaign, status, run, old, inbox, faults, requestVars, next>>
  BY DEF EndPass, TakeGone, Take, storeVars, workVars
<1>1. CASE EndPass(i)
  <2>1. pc' = [pc EXCEPT ![i] = "idle"] /\ UNCHANGED <<batch, cur>> /\ pc[i] = "claim"
    BY <1>1 DEF EndPass, At, Goto, workVars
  <2>2. HeldRuns' /\ LastRow' /\ InboxBounded'
    BY <1>0, <2>1 DEF HeldRuns, LastRow, InboxBounded, MayBeSent, Unfinished, Later, Working,
       Settling, Settled, TypedHands, SchedTypeOK
  <2>3. ExclusiveWork' /\ NextIsLater'
    BY <1>0, <2>1 DEF ExclusiveWork, Holds, NextIsLater, TypedHands, SchedTypeOK
  <2>4. RowsBelong' /\ BeforeStart' /\ RequestKnows'
    BY <1>0 DEF RowsBelong, BeforeStart, NotStarted, RequestKnows, requestVars
  <2> QED BY <2>2, <2>3, <2>4 DEF SafeParts
<1>2. ASSUME NEW r \in batch[i], TakeGone(i, r) PROVE FALSE
  BY <1>2 DEF TakeGone, HeldRuns, TypedHands, SchedTypeOK
<1>3. ASSUME NEW r \in batch[i], Take(i, r) PROVE SafeParts'
  <2>1. /\ pc' = [pc EXCEPT ![i] = "check"] /\ pc[i] = "take"
        /\ cur' = [cur EXCEPT ![i] = r] /\ cur[i] = None
        /\ batch' = [batch EXCEPT ![i] = batch[i] \ {r}]
        /\ r \in RunIds
    BY <1>3 DEF Take, At, Goto, TypedHands, SchedTypeOK, HandsOK, Resting
  <2>2. HeldRuns'
    BY <1>0, <2>1 DEF HeldRuns, Working, Settling, Settled, TypedHands, SchedTypeOK
  <2>3. LastRow'
    BY <1>0, <2>1 DEF LastRow, Unfinished, Later, Settling, Settled, TypedHands, SchedTypeOK
  <2>4. InboxBounded'
    BY <1>0, <2>1 DEF InboxBounded, MayBeSent, TypedHands, SchedTypeOK
  <2>5. ExclusiveWork' /\ NextIsLater'
    BY <1>0, <2>1 DEF ExclusiveWork, Holds, NextIsLater, TypedHands, SchedTypeOK
  <2>6. RowsBelong' /\ BeforeStart' /\ RequestKnows'
    BY <1>0 DEF RowsBelong, BeforeStart, NotStarted, RequestKnows, requestVars
  <2> QED BY <2>2, <2>3, <2>4, <2>5, <2>6 DEF SafeParts
<1> QED BY <1>1, <1>2, <1>3

\* The message goes out, with or without a confirmation.
LEMMA Sends ==
    ASSUME SafeWork, NEW i \in Instances, Send(i) \/ SendUnconfirmed(i)
    PROVE  SafeParts'
<1> USE DEF SafeWork
<1> DEFINE r == cur[i]
<1>0. /\ r \in RunIds /\ run[r] = "RUNNING" /\ pc[i] = "send" /\ inbox[r] <= faults
      /\ UNCHANGED <<campaign, status, run, old, requestVars, batch, cur, next>>
      /\ inbox' = [inbox EXCEPT ![r] = @ + 1]
      /\ \/ pc' = [pc EXCEPT ![i] = "record"] /\ UNCHANGED faults
         \/ pc' = [pc EXCEPT ![i] = "error"] /\ faults' = faults + 1
  <2>1. pc[i] = "send" /\ r \in RunIds
    BY CurIsRun DEF Send, SendUnconfirmed, At, Resting
  <2>2. run[r] = "RUNNING"
    BY <2>1 DEF HeldRuns, Working, Settled
  <2>3. MayBeSent(r)
    BY <2>1, <2>2 DEF MayBeSent, ExclusiveWork, Holds
  <2>4. inbox[r] <= faults
    BY <2>1, <2>3 DEF InboxBounded
  <2> QED BY <2>1, <2>2, <2>4 DEF Send, SendUnconfirmed, Fault, Goto, storeVars, workVars
<1>1. HeldRuns'
  BY <1>0 DEF HeldRuns, Working, Settling, Settled, TypedHands, SchedTypeOK
<1>2. ExclusiveWork' /\ NextIsLater'
  BY <1>0 DEF ExclusiveWork, Holds, NextIsLater, TypedHands, SchedTypeOK
<1>3. LastRow'
  BY <1>0 DEF LastRow, Unfinished, Later, Settling, Settled, TypedHands, SchedTypeOK
<1>4. RowsBelong' /\ BeforeStart' /\ RequestKnows'
  BY <1>0 DEF RowsBelong, BeforeStart, NotStarted, RequestKnows, requestVars
<1>5. InboxBounded'
  <2>1. faults \in Nat /\ inbox \in [RunIds -> Nat] /\ pc \in [Instances -> PcValue]
    BY DEF TypedHands, SchedTypeOK
  <2>2. inbox'[r] = inbox[r] + 1 /\ \A x \in RunIds : x # r => inbox'[x] = inbox[x]
    BY <1>0, <2>1
  <2>3. \A x \in RunIds : x # r /\ MayBeSent(x)' => MayBeSent(x)
    BY <1>0, <2>1 DEF MayBeSent
  <2>4. MayBeSent(r)' => faults' = faults + 1
    BY <1>0, <2>1 DEF MayBeSent
  <2> QED BY <1>0, <2>1, <2>2, <2>3, <2>4 DEF InboxBounded
<1> QED BY <1>1, <1>2, <1>3, <1>4, <1>5 DEF SafeParts

\* advance reads a later step,
LEMMA ReadsNext ==
    ASSUME SafeWork, NEW i \in Instances, Advance(i)
    PROVE  SafeParts'
<1> USE DEF SafeWork
<1>0. /\ cur[i] \in RunIds /\ pc[i] = "advance"
      /\ pc' = [pc EXCEPT ![i] = "move"]
      /\ UNCHANGED <<campaign, status, run, old, inbox, faults, requestVars, batch, cur>>
  BY CurIsRun DEF Advance, At, Goto, storeVars, Resting
<1>1. HeldRuns' /\ LastRow'
  BY <1>0 DEF HeldRuns, Working, LastRow, Unfinished, Later, Settling, Settled,
     TypedHands, SchedTypeOK
<1>2. ExclusiveWork'
  BY <1>0 DEF ExclusiveWork, Holds
<1>3. NextIsLater'
  <2>1. steps[CampaignIn(cur[i])] \in SUBSET Positions /\ cur[i][2] \in Nat
    BY <1>0, RunIdParts DEF TypedHands, StoreTypeOK
  <2>2. \/ NextStep(CampaignIn(cur[i]), cur[i][2]) = 0
        \/ NextStep(CampaignIn(cur[i]), cur[i][2]) > cur[i][2]
    BY <2>1, NextInIsLeast DEF NextStep
  <2> QED BY <1>0, <2>2 DEF Advance, NextIsLater, TypedHands, SchedTypeOK
<1>4. RowsBelong' /\ BeforeStart' /\ RequestKnows'
  BY <1>0 DEF RowsBelong, BeforeStart, NotStarted, RequestKnows, requestVars
<1>5. InboxBounded'
  BY <1>0 DEF InboxBounded, MayBeSent, TypedHands, SchedTypeOK
<1> QED BY <1>1, <1>2, <1>3, <1>4, <1>5 DEF SafeParts

-----------------------------------------------------------------------------
\* Rows that may be queued: nothing holds them, and no other row of the
\* enrollment is unfinished or comes later.
HandsKept ==
    \A j \in Instances : \A r \in RunIds :
        /\ r \in batch'[j] => r \in batch[j]
        /\ Working(j, r)' => Working(j, r)
        /\ Settling(j, r)' => Settling(j, r)
        /\ cur[j] = r /\ pc[j] = "record" => cur'[j] = r /\ pc'[j] = "record"

Queueable(R) ==
    \A r \in R :
        /\ run[r] \in {"NONE", "FAILED"}
        /\ \A s \in RunIds : Later(r, s) => run[s] = "NONE" /\ s \notin R
        /\ \A s \in RunIds : Later(s, r) =>
             /\ run[s] \notin {"QUEUED", "RUNNING", "FAILED"}
             /\ \A j \in Instances : ~Settling(j, s)'

LEMMA Queues ==
    ASSUME SafeWork, NEW R \in SUBSET RunIds, NEW K, Schedule(R, K),
           Queueable(R), HandsKept, UNCHANGED <<inbox, faults>>
    PROVE  HeldRuns' /\ LastRow' /\ InboxBounded'
<1> USE DEF SafeWork
<1>0. /\ run \in [RunIds -> RunStatus]
      /\ \A r \in RunIds : run'[r] = IF r \in R THEN "QUEUED" ELSE run[r]
      /\ old' = old \ R /\ old \subseteq RunIds
  BY DEF Schedule, TypedHands, StoreTypeOK
<1>1. HeldRuns'
  <2>1. \A r \in R : /\ run[r] \notin {"RUNNING", "SENT", "SKIPPED"}
    BY DEF Queueable
  <2> QED BY <1>0, <2>1 DEF HeldRuns, HandsKept
<1>2. LastRow'
  <2> SUFFICES ASSUME NEW r \in RunIds, NEW s \in RunIds, Unfinished(r)', Later(r, s)
               PROVE  run'[s] = "NONE"
    BY DEF LastRow, Later
  <2>1. CASE r \in R
    BY <1>0, <2>1 DEF Queueable
  <2>2. CASE r \notin R
    <3>1. Unfinished(r)
      BY <1>0, <2>2 DEF Unfinished, HandsKept
    <3>2. run[s] = "NONE"
      BY <3>1 DEF LastRow
    <3>3. s \notin R
      BY <1>0, <2>2 DEF Queueable, Unfinished
    <3> QED BY <1>0, <3>2, <3>3
  <2> QED BY <2>1, <2>2
<1>3. InboxBounded'
  <2>1. \A r \in RunIds : MayBeSent(r)' => MayBeSent(r)
    BY <1>0 DEF MayBeSent, Queueable, HandsKept
  <2> QED BY <2>1 DEF InboxBounded
<1> QED BY <1>1, <1>2, <1>3

\* and moves the enrollment there.
LEMMA Moves ==
    ASSUME SafeWork, NEW i \in Instances, Move(i)
    PROVE  SafeParts'
<1> USE DEF SafeWork
<1> DEFINE r == cur[i]
           e == r[1]
           n == next[i]
           moved == status[e] \in Open
           R == IF moved /\ n # 0 THEN {<<e, n>>} ELSE {}
<1>1. /\ pc[i] = "move" /\ r \in RunIds /\ Settling(i, r)
      /\ run[r] \in {"SENT", "SKIPPED"}
      /\ n = 0 \/ (n \in Positions /\ n > r[2])
  <2>1. pc[i] = "move" /\ r \in RunIds
    BY CurIsRun DEF Move, At, Resting
  <2>2. Settling(i, r)
    BY <2>1 DEF Settling, Settled
  <2>3. run[r] \in {"SENT", "SKIPPED"}
    BY <2>1, <2>2 DEF HeldRuns, Settling
  <2>4. n = 0 \/ (n \in Positions /\ n > r[2])
    BY <2>1 DEF NextIsLater, TypedHands, SchedTypeOK
  <2> QED BY <2>1, <2>2, <2>3, <2>4
<1>2. /\ Schedule(R, {}) /\ Release(i)
      /\ UNCHANGED <<campaign, inbox, faults, requestVars>>
      /\ status' = [status EXCEPT ![e] = IF moved /\ n = 0 THEN "COMPLETED" ELSE @]
  BY DEF Move
<1>3. R \in SUBSET RunIds /\ \A s \in R : moved /\ Later(r, s) /\ s = <<e, n>>
  BY <1>1, RunIdParts DEF RunIds, Later
<1>4. HandsKept
  BY <1>1, <1>2, RunIdParts DEF HandsKept, Release, Working, Settling, Settled, TypedHands, SchedTypeOK
<1> HIDE DEF R
<1>5. Queueable(R)
  <2> SUFFICES ASSUME NEW x \in R PROVE
        /\ run[x] = "NONE"
        /\ \A s \in RunIds : Later(x, s) => run[s] = "NONE" /\ s \notin R
        /\ \A s \in RunIds : Later(s, x) =>
             /\ run[s] \notin {"QUEUED", "RUNNING", "FAILED"}
             /\ \A j \in Instances : ~Settling(j, s)'
    BY DEF Queueable
  <2>1. x \in RunIds /\ Later(r, x) /\ \A y \in R : y = x
    BY <1>3
  <2>2. \A s \in RunIds : Later(r, s) => run[s] = "NONE"
    BY <1>1 DEF LastRow, Unfinished
  <2>3. \A s \in RunIds : Later(x, s) => Later(r, s) /\ s # x
    BY <1>1, <2>1, RunIdParts DEF Later
  <2>4. ASSUME NEW s \in RunIds, Later(s, x)
        PROVE  /\ run[s] \notin {"QUEUED", "RUNNING", "FAILED"}
               /\ \A j \in Instances : ~Settling(j, s)'
    <3>1. Later(r, s) \/ s = r \/ Later(s, r)
      <4>1. s[1] = r[1]
        BY <2>1, <2>4 DEF Later
      <4>2. s[2] \in Nat /\ r[2] \in Nat /\ s = <<s[1], s[2]>> /\ r = <<r[1], r[2]>>
        BY <1>1, RunIdParts
      <4>3. s[2] = r[2] => s = r
        BY <4>1, <4>2
      <4> QED BY <4>1, <4>2, <4>3 DEF Later
    <3>2. CASE Later(r, s)
      <4>1. run[s] = "NONE"
        BY <2>2, <3>2
      <4>2. \A j \in Instances : ~Settling(j, s)
        BY <4>1 DEF HeldRuns, Settling
      <4> QED BY <1>4, <4>1, <4>2 DEF HandsKept
    <3>3. CASE s = r
      <4>1. \A j \in Instances : j # i => cur[j] # r
        BY <1>1 DEF ExclusiveWork, Holds, Settling
      <4>2. cur'[i] # r
        BY <1>1, <1>2, RunIdParts DEF Release, TypedHands, SchedTypeOK
      <4> QED BY <1>1, <1>4, <3>3, <4>1, <4>2 DEF HandsKept, Settling
    <3>4. CASE Later(s, r)
      <4>1. ~Unfinished(s)
        BY <1>1, <3>4 DEF LastRow
      <4> QED BY <1>4, <4>1 DEF HandsKept, Unfinished
    <3> QED BY <3>1, <3>2, <3>3, <3>4
  <2> QED BY <2>1, <2>2, <2>3, <2>4
<1>6. HeldRuns' /\ LastRow' /\ InboxBounded'
  BY <1>2, <1>3, <1>4, <1>5, Queues
<1>7. ExclusiveWork' /\ NextIsLater'
  BY <1>1, <1>2, RunIdParts
     DEF Release, ExclusiveWork, Holds, NextIsLater, TypedHands, SchedTypeOK
<1>8. /\ \A x \in RunIds : run'[x] = IF x \in R THEN "QUEUED" ELSE run[x]
      /\ \A x \in R : x \in RunIds /\ run[x] \in {"NONE", "FAILED"} /\ x[1] = e
      /\ \A x \in R : run[x] = "NONE"
  <2>1. \A x \in R : run[x] = "NONE"
    BY <1>1, <1>3 DEF LastRow, Unfinished
  <2> QED BY <1>2, <1>3, <2>1 DEF Schedule
<1>9. RowsBelong'
  BY <1>1, <1>2, <1>3, <1>8, RunIdParts DEF RowsBelong, TypedHands, StoreTypeOK, Open
<1>10. BeforeStart'
  <2>1. ~NotStarted(e[1])
    BY <1>1, RunIdParts DEF BeforeStart, CampaignIn, CampaignOf
  <2> QED BY <1>2, <1>8, <2>1 DEF BeforeStart, NotStarted, requestVars
<1>11. RequestKnows'
  BY <1>2, <1>3, <1>8 DEF RequestKnows, requestVars, TypedHands, StoreTypeOK, Open
<1> QED BY <1>6, <1>7, <1>9, <1>10, <1>11 DEF SafeParts

-----------------------------------------------------------------------------
\* Without slow batches only runs that nobody holds grow old.
LEMMA Ages ==
    ASSUME Orderly, SafeWork, NEW r \in RunIds, Age(r)
    PROVE  SafeParts'
<1> USE DEF SafeWork
<1>1. /\ run[r] = "RUNNING" /\ old' = old \cup {r}
      /\ \A i \in Instances : ~Holds(i, r)
      /\ UNCHANGED <<campaign, status, run, inbox, faults, pc, batch, cur, next, requestVars>>
  BY DEF Age, Fault, Orderly, workVars
<1>2. HeldRuns'
  BY <1>1 DEF HeldRuns, Working, Settling, Holds
<1>3. ExclusiveWork' /\ LastRow' /\ NextIsLater' /\ InboxBounded'
  BY <1>1 DEF ExclusiveWork, Holds, LastRow, Unfinished, Later, Settling, NextIsLater,
     InboxBounded, MayBeSent
<1>4. RowsBelong' /\ BeforeStart' /\ RequestKnows'
  BY <1>1 DEF RowsBelong, BeforeStart, NotStarted, RequestKnows, requestVars
<1> QED BY <1>2, <1>3, <1>4 DEF SafeParts

LEMMA SchedulerSafe ==
    ASSUME SafeWork, NEW i \in Instances, SchedulerStep(i)
    PROVE  SafeParts'
<1> USE DEF SafeWork
<1>1. CASE RecoverStuck(i) \/ Claim(i) \/ EndPass(i) \/ Send(i) \/ SendUnconfirmed(i)
          \/ Advance(i) \/ Move(i) \/ \E r \in batch[i] : TakeGone(i, r) \/ Take(i, r)
  BY <1>1, Recovers, Claims, Takes, Sends, ReadsNext, Moves
<1>2. CASE Check(i) \/ Prepare(i) \/ Refuse(i)
  <2>1. PICK p \in {"deliver", "requeue", "cancel", "send", "skip", "fatal", "defer", "error"} :
          Goto(i, p)
    BY <1>2 DEF Check, Verdict, Prepare, Refuse, Refusals
  <2>2. pc[i] \in {"check", "deliver", "send"} /\ Quiet /\ UNCHANGED <<batch, cur, next>>
    BY <1>2 DEF Check, Prepare, Refuse, At, Quiet, storeVars, workVars
  <2> QED BY <2>1, <2>2, GoesOn DEF PcValue, Resting, Settled
<1>3. CASE RecordSent(i) \/ Skip(i)
  BY <1>3, Settles DEF RecordSent, Skip, workVars
<1>4. CASE Requeue(i) \/ Cancel(i) \/ Defer(i) \/ Retry(i) \/ GiveUp(i)
  <2>1. /\ pc[i] \in {"requeue", "cancel", "defer", "error", "fatal"}
        /\ Release(i) /\ UNCHANGED <<campaign, inbox, faults, requestVars>>
    BY <1>4 DEF Requeue, Cancel, Defer, Retry, GiveUp, At
  <2>2. \/ Mark(cur[i], "QUEUED") /\ UNCHANGED status
        \/ Mark(cur[i], "CANCELED") /\ UNCHANGED status
        \/ Mark(cur[i], "FAILED") /\ CloseOpen({cur[i][1]}, "FAILED")
    BY <1>4 DEF Requeue, Cancel, Defer, Retry, GiveUp
  <2> QED BY <2>1, <2>2, LetsGo DEF Resting, Settled
<1>5. CASE Abandon(i)
  <2>1. pc[i] = "record" => ~Deleted(i)
    <3> SUFFICES ASSUME pc[i] = "record" PROVE ~Deleted(i)
      OBVIOUS
    <3>1. cur[i] \in RunIds /\ Working(i, cur[i])
      BY CurIsRun DEF Resting, Working, Settled
    <3>2. run[cur[i]] = "RUNNING"
      BY <3>1 DEF HeldRuns
    <3> QED BY <3>2 DEF Deleted
  <2>2. \/ pc[i] # "record" /\ faults' \in {faults, faults + 1}
        \/ faults' = faults + 1
    BY <1>5, <2>1 DEF Abandon, Fault, At
  <2>3. PICK p \in {"claim", "take"} : pc' = [pc EXCEPT ![i] = p]
    BY <1>5 DEF Abandon, Release
  <2>4. /\ cur' = [cur EXCEPT ![i] = None]
        /\ next' = [next EXCEPT ![i] = 0]
        /\ batch' = [batch EXCEPT ![i] = batch[i]]
        /\ UNCHANGED <<campaign, status, run, old, inbox, requestVars>>
    BY <1>5 DEF Abandon, Release, storeVars, TypedHands, SchedTypeOK
  <2> QED BY <2>2, <2>3, <2>4, Drops DEF Resting
<1>6. CASE Crash(i)
  <2>1. /\ pc' = [pc EXCEPT ![i] = "idle"]
        /\ cur' = [cur EXCEPT ![i] = None]
        /\ next' = [next EXCEPT ![i] = 0]
        /\ batch' = [batch EXCEPT ![i] = {}]
        /\ faults' = faults + 1
        /\ UNCHANGED <<campaign, status, run, old, inbox, requestVars>>
    BY <1>6 DEF Crash, Goto, Fault, storeVars
  <2> QED BY <2>1, Drops DEF Resting
<1> QED BY <1>1, <1>2, <1>3, <1>4, <1>5, <1>6 DEF SchedulerStep, Execute

-----------------------------------------------------------------------------
\* Requests leave the instances alone.
LEMMA HandsStill ==
    ASSUME SafeWork, UNCHANGED schedVars
    PROVE  ExclusiveWork' /\ NextIsLater' /\ HandsKept
BY DEF SafeWork, schedVars, ExclusiveWork, Holds, NextIsLater, HandsKept, Working, Settling

LEMMA RowsStill ==
    ASSUME SafeWork, UNCHANGED schedVars, UNCHANGED <<run, old>>
    PROVE  HeldRuns' /\ LastRow' /\ InboxBounded'
BY DEF SafeWork, schedVars, HeldRuns, Working, Settling, LastRow, Unfinished, Later,
   InboxBounded, MayBeSent

\* Requests that queue rows.
LEMMA RowsQueued ==
    ASSUME SafeWork, UNCHANGED schedVars, NEW R \in SUBSET RunIds, NEW K, Schedule(R, K),
           \A r \in R :
             /\ run[r] \in {"NONE", "FAILED"}
             /\ \A s \in RunIds : Later(r, s) => run[s] = "NONE" /\ s \notin R
             /\ \A s \in RunIds : Later(s, r) => ~Unfinished(s)
    PROVE  /\ HeldRuns' /\ LastRow' /\ InboxBounded'
           /\ \A r \in RunIds : run'[r] = IF r \in R THEN "QUEUED" ELSE run[r]
<1>1. Queueable(R)
  <2>1. \A j \in Instances : \A s \in RunIds : Settling(j, s)' => Settling(j, s)
    BY DEF schedVars, Settling
  <2> QED BY <2>1 DEF Queueable, Unfinished
<1>2. HandsKept /\ UNCHANGED <<inbox, faults>>
  BY HandsStill DEF schedVars
<1> QED BY <1>1, <1>2, Queues DEF Schedule

\* With one handler at a time, nothing is in progress once it has finished.
LEMMA FinishedRequest ==
    ASSUME Orderly, SafeWork, NEW q \in Requests, Finish(q), UNCHANGED starts
    PROVE  /\ RequestKnows'
           /\ \A c \in Campaigns : NotStarted(c)' => starts[c] = 0
           /\ \A c \in Campaigns : NotStarted(c)' => NotStarted(c)
<1>1. \A x \in Requests : req'[x] = NoRequest
  BY DEF Orderly, SafeWork, TypedHands, RequestsOK, RequestTypeOK, Finish
<1> QED BY <1>1 DEF RequestKnows, NotStarted, NoRequest

LEMMA BeginSafe ==
    ASSUME Orderly, SafeWork, NEW q \in Requests, BeginRequest(q)
    PROVE  SafeParts'
<1> USE DEF SafeWork
<1>1. ASSUME NEW c \in Campaigns, NEW L \in SUBSET Leads, EnrollBegin(q, c, L)
      PROVE  RequestKnows' /\ BeforeStart'
  <2>1. campaign[c] = "ACTIVE" => starts[c] > 0
    BY DEF BeforeStart, NotStarted, TypedHands, RequestsOK, RequestTypeOK
  <2>2. \A x \in Requests : /\ x = q
                            /\ req'[x].op = "enroll" /\ req'[x].c = c
                            /\ req'[x].who = {c} \X L
                            /\ req'[x].active = (campaign[c] = "ACTIVE")
    BY <1>1 DEF Orderly, EnrollBegin, NoRequest, TypedHands, RequestsOK, RequestTypeOK
  <2>3. \A e \in {c} \X L : e[1] = c
    OBVIOUS
  <2>4. UNCHANGED <<campaign, status, run, starts>>
    BY <1>1 DEF EnrollBegin, storeVars
  <2>5. RequestKnows'
    BY <2>1, <2>2, <2>3, <2>4 DEF RequestKnows
  <2>6. BeforeStart'
    BY <2>2, <2>4 DEF BeforeStart, NotStarted
  <2> QED BY <2>5, <2>6
<1>2. ASSUME NEW c \in Campaigns, StartBegin(q, c)
      PROVE  RequestKnows' /\ BeforeStart'
  <2>1. \A x \in Requests : /\ x = q
                            /\ req'[x].op = "start" /\ req'[x].c = c
                            /\ req'[x].who \subseteq EnrollmentsOf(c)
    BY <1>2 DEF Orderly, StartBegin, NoRequest, TypedHands, RequestsOK, RequestTypeOK
  <2>2. starts[c] = 0 /\ starts' = [starts EXCEPT ![c] = 1]
    <3>1. starts[c] \in Nat /\ MaxStarts \in Nat
      BY OpsAssumption DEF TypedHands, RequestsOK, RequestTypeOK
    <3>2. starts[c] < MaxStarts /\ MaxStarts <= 1
      BY <1>2 DEF Orderly, StartBegin
    <3>3. starts[c] = 0
      BY <3>1, <3>2
    <3> QED BY <1>2, <3>3 DEF StartBegin
  <2>3. RequestKnows'
    BY <2>1, <2>2 DEF RequestKnows, EnrollmentsOf, CampaignOf, TypedHands, RequestsOK, RequestTypeOK
  <2>4. \A d \in Campaigns : NotStarted(d)' => NotStarted(d)
    BY <2>1, <2>2 DEF NotStarted, TypedHands, RequestsOK, RequestTypeOK
  <2> QED BY <1>2, <2>3, <2>4 DEF StartBegin, BeforeStart, storeVars
<1>3. ASSUME NEW e \in Enrollments, RetryBegin(q, e)
      PROVE  RequestKnows' /\ BeforeStart'
  <2>1. PICK p \in RetrySteps(e) :
          req' = [req EXCEPT ![q] =
                   [NoRequest EXCEPT
                      !.op = "retry", !.who = {e}, !.p = p,
                      !.active = (campaign[CampaignOf(e)] = "ACTIVE")]]
    BY <1>3 DEF RetryBegin
  <2>2. \A x \in Requests : /\ x = q /\ req'[x].op = "retry"
                            /\ req'[x].who = {e} /\ req'[x].p = p
    BY <2>1 DEF Orderly, NoRequest, TypedHands, RequestsOK, RequestTypeOK
  <2>3. PICK x \in RunIds : x[1] = e /\ x[2] = p /\ run[x] = "FAILED"
    <3>1. status[e] = "FAILED"
      BY <1>3 DEF RetryBegin
    <3>2. PICK y \in RunIds : y[1] = e /\ run[y] = "FAILED"
      BY <3>1 DEF RowsBelong
    <3>3. \E x \in RunsOf(e) : run[x] = "FAILED" /\ x[2] = p
      BY <3>2 DEF RetrySteps, RunsOf
    <3> QED BY <3>3 DEF RunsOf
  <2>4. \A r \in RunIds : r[1] = e /\ r[2] = p => r = x
    BY <2>3, RunIdParts
  <2>5. RequestKnows'
    BY <1>3, <2>2, <2>3, <2>4 DEF RetryBegin, RequestKnows, storeVars
  <2> QED BY <1>3, <2>2, <2>5 DEF RetryBegin, BeforeStart, NotStarted, storeVars
<1>4. ASSUME \/ \E e \in Enrollments : StopBegin(q, e)
             \/ \E l \in Leads : ReplyArrives(q, l) \/ OptOutBegin(q, l)
      PROVE  RequestKnows' /\ BeforeStart'
  <2>1. \A x \in Requests : req'[x].op \in {"stop", "stored", "optOut"}
    BY ZenonT(60), <1>4 DEF Orderly, StopBegin, ReplyArrives, OptOutBegin, NoRequest, TypedHands,
       RequestsOK, RequestTypeOK
  <2>2. UNCHANGED <<campaign, run, starts>>
    BY <1>4 DEF StopBegin, ReplyArrives, OptOutBegin, storeVars
  <2> QED BY <2>1, <2>2 DEF RequestKnows, BeforeStart, NotStarted
<1>5. ~(\E c \in Campaigns : RemoveBegin(q, c) \/ \E p \in Positions : RemoveStepBegin(q, c, p))
  BY DEF Orderly, RemoveBegin, RemoveStepBegin, Free
<1>6. UNCHANGED <<run, old, status, schedVars>>
  BY DEF BeginRequest, EnrollBegin, StartBegin, RemoveStepBegin, RemoveBegin, StopBegin,
     RetryBegin, ReplyArrives, OptOutBegin, storeVars
<1>7. RequestKnows' /\ BeforeStart'
  BY <1>1, <1>2, <1>3, <1>4, <1>5 DEF BeginRequest
<1>8. RowsBelong'
  BY <1>6 DEF RowsBelong
<1> QED BY <1>6, <1>7, <1>8, HandsStill, RowsStill DEF SafeParts

\* A commit that fails, and one that only touches the lead, change no row.
LEMMA NothingCommitted ==
    ASSUME Orderly, SafeWork, NEW q \in Requests, Finish(q),
           UNCHANGED <<campaign, status, run, old, starts>>, UNCHANGED schedVars
    PROVE  SafeParts'
<1>1. RowsBelong' /\ BeforeStart'
  BY FinishedRequest DEF SafeWork, RowsBelong, BeforeStart
<1> QED BY <1>1, FinishedRequest, HandsStill, RowsStill DEF SafeParts

LEMMA EnrollSafe ==
    ASSUME Orderly, SafeWork, NEW q \in Requests, EnrollCommit(q)
    PROVE  SafeParts'
<1> USE DEF SafeWork
<1> DEFINE w == req[q]
           R == IF w.active THEN w.who \X {w.p} ELSE {}
<1>1. CASE EnrollFails(w)
  BY <1>1, NothingCommitted DEF EnrollCommit, storeVars
<1>2. CASE ~EnrollFails(w)
  <2>1. /\ w.op = "enroll" /\ w \in Request /\ w.c \in Campaigns
        /\ Schedule(R, {}) /\ Finish(q) /\ UNCHANGED schedVars
        /\ UNCHANGED <<campaign, starts>>
        /\ status' = [e \in Enrollments |->
                        IF e \notin w.who THEN status[e]
                        ELSE IF w.active THEN "ACTIVE" ELSE "PAUSED"]
    BY <1>2 DEF EnrollCommit, Pending, TypedHands, RequestsOK, RequestTypeOK, RequestTargets
  <2>2. /\ \A e \in w.who : status[e] = "NONE" /\ e[1] = w.c
        /\ w.active => starts[w.c] > 0 /\ w.p \in Positions
    BY <1>2, <2>1 DEF EnrollFails, RequestKnows, TypedHands, StoreTypeOK
  <2>3. \A r \in R : r[1] \in w.who /\ r \in RunIds /\ w.active
    BY <2>1, <2>2 DEF Request, RunIds
  <2> HIDE DEF R
  <2>4. \A r \in RunIds : r[1] \in w.who => run[r] = "NONE" /\ ~Unfinished(r)
    BY <2>2 DEF RowsBelong, Unfinished, HeldRuns, Settling
  <2>5. ASSUME NEW r \in R PROVE
          /\ run[r] \in {"NONE", "FAILED"}
          /\ \A s \in RunIds : Later(r, s) => run[s] = "NONE" /\ s \notin R
          /\ \A s \in RunIds : Later(s, r) => ~Unfinished(s)
    <3>1. run[r] = "NONE"
      BY <2>3, <2>4
    <3>2. \A s \in R : s[2] = r[2]
      BY DEF R
    <3>3. \A s \in RunIds : Later(r, s) => run[s] = "NONE" /\ s \notin R
      BY <2>3, <2>4, <3>2, RunIdParts DEF Later
    <3>4. \A s \in RunIds : Later(s, r) => ~Unfinished(s)
      BY <2>3, <2>4 DEF Later
    <3> QED BY <3>1, <3>3, <3>4
  <2>6. /\ HeldRuns' /\ LastRow' /\ InboxBounded'
        /\ \A r \in RunIds : run'[r] = IF r \in R THEN "QUEUED" ELSE run[r]
    BY <2>1, <2>3, <2>5, RowsQueued
  <2>7. RowsBelong'
    BY <2>1, <2>2, <2>3, <2>4, <2>6, RunIdParts DEF RowsBelong, TypedHands, StoreTypeOK
  <2>8. BeforeStart'
    BY <2>1, <2>2, <2>3, <2>6, FinishedRequest DEF BeforeStart
  <2> QED BY <2>1, <2>6, <2>7, <2>8, HandsStill, FinishedRequest DEF SafeParts
<1> QED BY <1>1, <1>2

LEMMA StartSafe ==
    ASSUME Orderly, SafeWork, NEW q \in Requests, StartCommit(q)
    PROVE  SafeParts'
<1> USE DEF SafeWork
<1> DEFINE w == req[q]
           R == StartQueues(w)
           fails == ~Exists(w.c) \/ \E r \in R : r[2] \notin steps[w.c]
<1>1. CASE fails
  BY <1>1, NothingCommitted DEF StartCommit, storeVars
<1>2. CASE ~fails
  <2>1. /\ w.op = "start" /\ w.c \in Campaigns
        /\ Schedule(R, {r \in R : run[r] = "QUEUED"}) /\ Finish(q) /\ UNCHANGED schedVars
        /\ campaign' = [campaign EXCEPT ![w.c] = "ACTIVE"] /\ UNCHANGED starts
        /\ status' = [e \in Enrollments |->
                        IF e \notin w.who THEN status[e]
                        ELSE IF StartNext(w, e) = 0 THEN "COMPLETED"
                        ELSE "ACTIVE"]
    BY <1>2 DEF StartCommit, Pending, TypedHands, RequestsOK, RequestTargets
  <2>2. starts[w.c] > 0 /\ \A e \in w.who : e[1] = w.c
    BY <2>1 DEF RequestKnows
  <2>3. \A r \in RunIds : r[1][1] = w.c => run[r] = "NONE"
    BY <2>1 DEF BeforeStart, NotStarted
  <2>4. \A r \in R : r \in RunIds /\ r[1] \in w.who /\ r[2] = StartNext(w, r[1])
    BY DEF StartQueues
  <2> HIDE DEF R
  <2>5. \A r \in RunIds : r[1] \in w.who => run[r] = "NONE" /\ ~Unfinished(r)
    BY <2>2, <2>3 DEF Unfinished, HeldRuns, Settling
  <2>6. ASSUME NEW r \in R PROVE
          /\ run[r] \in {"NONE", "FAILED"}
          /\ \A s \in RunIds : Later(r, s) => run[s] = "NONE" /\ s \notin R
          /\ \A s \in RunIds : Later(s, r) => ~Unfinished(s)
    <3>1. run[r] = "NONE"
      BY <2>4, <2>5
    <3>2. \A s \in RunIds : Later(r, s) => s \notin R
      BY <2>4, RunIdParts DEF Later
    <3>3. \A s \in RunIds : Later(r, s) => run[s] = "NONE"
      BY <2>4, <2>5 DEF Later
    <3>4. \A s \in RunIds : Later(s, r) => ~Unfinished(s)
      BY <2>4, <2>5 DEF Later
    <3> QED BY <3>1, <3>2, <3>3, <3>4
  <2>7. /\ HeldRuns' /\ LastRow' /\ InboxBounded'
        /\ \A r \in RunIds : run'[r] = IF r \in R THEN "QUEUED" ELSE run[r]
    <3>1. R \in SUBSET RunIds
      BY <2>4
    <3> QED BY <2>1, <2>6, <3>1, RowsQueued
  <2>8. RowsBelong'
    BY <2>1, <2>4, <2>5, <2>7, RunIdParts DEF RowsBelong, TypedHands, StoreTypeOK
  <2>9. BeforeStart'
    BY <2>1, <2>2, <2>4, <2>7, FinishedRequest DEF BeforeStart, TypedHands, StoreTypeOK
  <2> QED BY <2>1, <2>7, <2>8, <2>9, HandsStill, FinishedRequest DEF SafeParts
<1> QED BY <1>1, <1>2

LEMMA RetrySafe ==
    ASSUME Orderly, SafeWork, NEW q \in Requests, RetryCommit(q)
    PROVE  SafeParts'
<1> USE DEF SafeWork
<1> DEFINE w == req[q]
<1>0. w.op = "retry" /\ w \in Request /\ Finish(q) /\ UNCHANGED <<schedVars, starts>>
  BY DEF RetryCommit, Pending, TypedHands, RequestsOK, RequestTypeOK
<1>1. PICK e \in w.who :
        \/ UNCHANGED storeVars
        \/ /\ w.p \in steps[CampaignOf(e)]
           /\ Schedule({<<e, w.p>>}, {})
           /\ status' = [status EXCEPT ![e] = IF w.active THEN "ACTIVE" ELSE "PAUSED"]
           /\ UNCHANGED <<campaign, steps, removed, lead, suppressed, position>>
  BY DEF RetryCommit
<1>2. CASE UNCHANGED storeVars
  BY <1>0, <1>2, NothingCommitted DEF storeVars
<1>3. CASE /\ w.p \in steps[CampaignOf(e)]
           /\ Schedule({<<e, w.p>>}, {})
           /\ status' = [status EXCEPT ![e] = IF w.active THEN "ACTIVE" ELSE "PAUSED"]
           /\ UNCHANGED campaign
  <2> DEFINE r == <<e, w.p>>
  <2>1. e \in Enrollments /\ r \in RunIds
    BY <1>0, <1>3 DEF Request, TypedHands, StoreTypeOK, CampaignOf, RunIds, Enrollments
  <2>2. run[r] = "FAILED" /\ status[e] = "FAILED"
    BY <1>0, <2>1 DEF RequestKnows
  <2>3. \A s \in RunIds : /\ Later(r, s) => run[s] = "NONE"
                          /\ Later(s, r) => ~Unfinished(s)
    BY <2>1, <2>2 DEF LastRow, Unfinished
  <2>4. r[1] = e /\ \A s \in RunIds : Later(r, s) => s # r
    BY <2>1, RunIdParts DEF Later
  <2> HIDE DEF r
  <2>5. /\ HeldRuns' /\ LastRow' /\ InboxBounded'
        /\ \A s \in RunIds : run'[s] = IF s \in {r} THEN "QUEUED" ELSE run[s]
    <3>1. Schedule({r}, {}) /\ {r} \in SUBSET RunIds
      BY <1>3, <2>1 DEF r
    <3> QED BY <1>0, <2>2, <2>3, <2>4, <3>1, RowsQueued
  <2>6. RowsBelong'
    BY <1>3, <2>1, <2>2, <2>4, <2>5 DEF RowsBelong, TypedHands, StoreTypeOK
  <2>7. BeforeStart'
    <3>1. \A c \in Campaigns : NotStarted(c) => r[1][1] # c
      BY <2>1, <2>2 DEF BeforeStart
    <3> QED BY <1>0, <1>3, <2>5, <3>1, FinishedRequest DEF BeforeStart
  <2> QED BY <1>0, <2>5, <2>6, <2>7, HandsStill, FinishedRequest DEF SafeParts
<1> QED BY <1>1, <1>2, <1>3

LEMMA StopSafe ==
    ASSUME Orderly, SafeWork, NEW q \in Requests, StopCommit(q)
    PROVE  SafeParts'
<1> USE DEF SafeWork
<1>0. Finish(q) /\ UNCHANGED <<schedVars, starts>>
  BY DEF StopCommit
<1>1. PICK e \in req[q].who :
        \/ UNCHANGED storeVars
        \/ /\ status[e] # "NONE"
           /\ run' = [r \in RunIds |-> IF r \in RunsOf(e) /\ run[r] = "QUEUED"
                                       THEN "CANCELED" ELSE run[r]]
           /\ status' = [status EXCEPT ![e] = "STOPPED"]
           /\ UNCHANGED <<campaign, old>>
  BY DEF StopCommit
<1>2. CASE UNCHANGED storeVars
  BY <1>0, <1>2, NothingCommitted DEF storeVars
<1>3. CASE /\ status[e] # "NONE"
           /\ run' = [r \in RunIds |-> IF r \in RunsOf(e) /\ run[r] = "QUEUED"
                                       THEN "CANCELED" ELSE run[r]]
           /\ status' = [status EXCEPT ![e] = "STOPPED"]
           /\ UNCHANGED <<campaign, old>>
  <2>1. \A r \in RunIds : run'[r] = run[r] \/ (run[r] = "QUEUED" /\ run'[r] = "CANCELED")
    BY <1>3
  <2>2. HeldRuns'
    BY <1>0, <1>3, <2>1 DEF HeldRuns, Working, Settling, schedVars, TypedHands, StoreTypeOK
  <2>3. LastRow'
    BY <1>0, <2>1 DEF LastRow, Unfinished, Later, Settling, schedVars
  <2>4. InboxBounded'
    BY <1>0, <2>1 DEF InboxBounded, MayBeSent, schedVars
  <2>5. RowsBelong'
    <3>1. ASSUME NEW r \in RunIds, status'[r[1]] = "NONE" PROVE run'[r] = "NONE"
      BY <1>3, <2>1, <3>1, RunIdParts DEF RowsBelong, TypedHands, StoreTypeOK
    <3>2. ASSUME NEW f \in Enrollments, status'[f] = "FAILED"
          PROVE  \E r \in RunIds : r[1] = f /\ run'[r] = "FAILED"
      BY <1>3, <2>1, <3>2 DEF RowsBelong, TypedHands, StoreTypeOK
    <3> QED BY <3>1, <3>2 DEF RowsBelong
  <2>6. BeforeStart'
    BY <1>0, <1>3, <2>1, FinishedRequest DEF BeforeStart
  <2> QED BY <1>0, <2>2, <2>3, <2>4, <2>5, <2>6, HandsStill, FinishedRequest DEF SafeParts
<1> QED BY <1>1, <1>2, <1>3

\* Replies, opt-outs and pauses close or pause enrollments, and touch no row.
LEMMA ClosesSafe ==
    ASSUME SafeWork, UNCHANGED schedVars, UNCHANGED <<run, old, starts>>,
           \A c \in Campaigns : campaign'[c] = "ACTIVE" => campaign[c] = "ACTIVE",
           status' \in [Enrollments -> EnrollmentStatus],
           \A e \in Enrollments :
             status'[e] # status[e] => status[e] \in Open /\ status'[e] \notin {"NONE", "FAILED"},
           RequestKnows',
           \A c \in Campaigns : NotStarted(c)' => NotStarted(c)
    PROVE  SafeParts'
<1> USE DEF SafeWork
<1>1. RowsBelong'
  BY RunIdParts DEF RowsBelong, Open
<1>2. BeforeStart'
  BY DEF BeforeStart
<1> QED BY <1>1, <1>2, HandsStill, RowsStill DEF SafeParts

LEMMA CommitSafe ==
    ASSUME Orderly, SafeWork, TypedHands', NEW q \in Requests, CommitRequest(q)
    PROVE  SafeParts'
<1> USE DEF SafeWork
<1>1. CASE EnrollCommit(q) \/ StartCommit(q) \/ RetryCommit(q) \/ StopCommit(q)
  BY <1>1, EnrollSafe, StartSafe, RetrySafe, StopSafe
<1>2. CASE ReplyMarksLead(q)
  <2>1. \A x \in Requests : req'[x].op = "marked"
    BY <1>2 DEF Orderly, ReplyMarksLead, TypedHands, RequestsOK, RequestTypeOK, Request
  <2>2. UNCHANGED <<campaign, status, run, old, starts>> /\ UNCHANGED schedVars
    BY <1>2 DEF ReplyMarksLead
  <2>3. RequestKnows' /\ RowsBelong' /\ BeforeStart'
    BY <2>1, <2>2 DEF RequestKnows, RowsBelong, BeforeStart, NotStarted
  <2> QED BY <2>2, <2>3, HandsStill, RowsStill DEF SafeParts
<1>3. CASE ReplyClosesCadences(q) \/ OptOutCommit(q)
  <2>1. /\ Finish(q) /\ UNCHANGED schedVars /\ UNCHANGED <<campaign, run, old, starts>>
        /\ \A e \in Enrollments :
             status'[e] # status[e] => status[e] \in Open /\ status'[e] \notin {"NONE", "FAILED"}
    BY <1>3 DEF ReplyClosesCadences, OptOutCommit, CloseOpen
  <2>2. RequestKnows' /\ \A c \in Campaigns : NotStarted(c)' => NotStarted(c)
    BY <2>1, FinishedRequest
  <2>3. status' \in [Enrollments -> EnrollmentStatus]
    BY DEF TypedHands, StoreTypeOK
  <2> QED BY <2>1, <2>2, <2>3, ClosesSafe
<1>4. ~RemoveStepCommit(q) /\ ~RemoveCommit(q)
  BY DEF Orderly, RequestKnows, RemoveStepCommit, RemoveCommit, Pending
<1> QED BY <1>1, <1>2, <1>3, <1>4 DEF CommitRequest

LEMMA RequestDiesSafe ==
    ASSUME Orderly, SafeWork, NEW q \in Requests, RequestDies(q)
    PROVE  SafeParts'
<1> USE DEF SafeWork
<1>1. /\ Finish(q) /\ faults' = faults + 1
      /\ UNCHANGED <<campaign, status, run, old, starts, pc, batch, cur, next, inbox>>
  BY DEF RequestDies, Fault, storeVars, workVars
<1>2. HeldRuns' /\ LastRow' /\ ExclusiveWork' /\ NextIsLater'
  BY <1>1 DEF HeldRuns, Working, Settling, LastRow, Unfinished, Later, ExclusiveWork, Holds,
     NextIsLater
<1>3. InboxBounded'
  BY <1>1 DEF InboxBounded, MayBeSent, TypedHands, SchedTypeOK
<1>4. RowsBelong' /\ BeforeStart' /\ RequestKnows'
  BY <1>1, FinishedRequest DEF RowsBelong, BeforeStart
<1> QED BY <1>2, <1>3, <1>4 DEF SafeParts

LEMMA AtomicSafe ==
    ASSUME SafeWork, TypedHands', NEW c \in Campaigns, AtomicRequest(c)
    PROVE  SafeParts'
<1>1. /\ UNCHANGED schedVars /\ UNCHANGED <<run, old, starts, req>>
      /\ \A d \in Campaigns : campaign'[d] = "ACTIVE" => campaign[d] = "ACTIVE"
      /\ \A e \in Enrollments :
           status'[e] # status[e] => status[e] \in Open /\ status'[e] \notin {"NONE", "FAILED"}
  BY DEF AtomicRequest, Pause, AddStep, Open, requestVars, SafeWork, TypedHands, StoreTypeOK
<1>2. RequestKnows'
  BY <1>1, RunIdParts DEF SafeWork, RequestKnows, Open
<1>3. \A d \in Campaigns : NotStarted(d)' => NotStarted(d)
  BY <1>1 DEF NotStarted
<1>4. status' \in [Enrollments -> EnrollmentStatus]
  BY DEF TypedHands, StoreTypeOK
<1> QED BY <1>1, <1>2, <1>3, <1>4, ClosesSafe

LEMMA SafeInit == Init => SafeWork
<1> SUFFICES ASSUME Init PROVE SafeWork
  OBVIOUS
<1>1. TypedHands
  BY InitTyped
<1>2. HeldRuns /\ ExclusiveWork /\ LastRow /\ NextIsLater
  BY RunIdParts DEF Init, StoreInit, SchedInit, HeldRuns, Working, Settling, ExclusiveWork,
     Holds, LastRow, Unfinished, NextIsLater
<1>3. RowsBelong /\ BeforeStart /\ RequestKnows
  BY RunIdParts DEF Init, StoreInit, RequestInit, RowsBelong, BeforeStart, RequestKnows,
     NoRequest
<1>4. InboxBounded
  BY DEF Init, SchedInit, InboxBounded
<1> QED BY <1>1, <1>2, <1>3, <1>4 DEF SafeWork

LEMMA SafeNext == Orderly /\ SafeWork /\ [Next]_vars => SafeWork'
<1> SUFFICES ASSUME Orderly, SafeWork, [Next]_vars PROVE SafeWork'
  OBVIOUS
<1>1. TypedHands'
  BY NextTyped DEF SafeWork
<1>2. ASSUME UNCHANGED vars PROVE SafeParts'
  <2>1. UNCHANGED schedVars /\ UNCHANGED <<campaign, status, run, old, req, starts>>
    BY <1>2 DEF vars, storeVars, requestVars
  <2>2. RowsBelong' /\ BeforeStart' /\ RequestKnows'
    BY <2>1 DEF SafeWork, RowsBelong, BeforeStart, NotStarted, RequestKnows
  <2> QED BY <2>1, <2>2, HandsStill, RowsStill DEF SafeParts
<1>3. ASSUME Next PROVE SafeParts'
  BY <1>1, <1>3, SchedulerSafe, Ages, BeginSafe, CommitSafe, RequestDiesSafe, AtomicSafe
     DEF Next
<1> QED BY <1>1, <1>2, <1>3 DEF SafeWork, SafeParts

-----------------------------------------------------------------------------
\* SafeWork is an invariant of every orderly use of the engine.
THEOREM WorkIsSafe == ASSUME Orderly PROVE Spec => []SafeWork
<1>1. SafeWork /\ [Next]_vars => SafeWork'
  BY SafeNext
<1> QED BY <1>1, SafeInit, PTL DEF Spec

\* "Duas instancias nunca pegam o mesmo passo" (docs/campaigns.md:7): the claim and
\* the recovery after ten minutes keep any number of instances apart, through
\* crashes, database failures and unconfirmed sends, as long as no batch takes ten
\* minutes and no campaign is resumed.
THEOREM WorkIsExclusive == ASSUME Orderly PROVE Spec => []ExclusiveWork
<1>1. SafeWork => ExclusiveWork
  BY DEF SafeWork
<1> QED BY <1>1, WorkIsSafe, PTL

\* At most one run of an enrollment is waiting or being worked on.
THEOREM RunsAreSequential == ASSUME Orderly PROVE Spec => []OneLiveRun
<1>1. SafeWork => OneLiveRun
  <2> SUFFICES ASSUME SafeWork, NEW e \in Enrollments, NEW p \in Positions,
                      NEW q \in Positions, Live(<<e, p>>), Live(<<e, q>>)
               PROVE  p = q
    BY DEF OneLiveRun
  <2>1. ASSUME NEW r \in RunIds, NEW s \in RunIds, Live(r), Live(s) PROVE ~Later(r, s)
    BY <2>1 DEF SafeWork, LastRow, Unfinished, Live
  <2>2. <<e, p>> \in RunIds /\ <<e, q>> \in RunIds
    BY DEF RunIds
  <2>3. ~Later(<<e, p>>, <<e, q>>) /\ ~Later(<<e, q>>, <<e, p>>)
    BY <2>1, <2>2
  <2> QED BY <2>3, PositionsAssumption DEF Later
<1> QED BY <1>1, WorkIsSafe, PTL

\* Every failure costs at most one repeated message.
THEOREM FailuresCostOneMessage == ASSUME Orderly PROVE Spec => []DuplicatesAreBounded
<1>1. SafeWork => DuplicatesAreBounded
  BY DEF SafeWork, InboxBounded, DuplicatesAreBounded
<1> QED BY <1>1, WorkIsSafe, PTL

\* Without kinds of failure none is counted.
LEMMA NoFaultsStep == Faults = {} /\ faults = 0 /\ [Next]_vars => faults' = 0
<1> SUFFICES ASSUME Faults = {}, [Next]_vars PROVE faults' = faults
  OBVIOUS
<1>0. \A K : ~Fault(K)
  BY DEF Fault
<1>1. CASE UNCHANGED vars
  BY <1>1 DEF vars, schedVars
<1>2. ASSUME NEW i \in Instances, SchedulerStep(i) PROVE faults' = faults
  <2>1. CASE RecoverStuck(i) \/ Claim(i) \/ EndPass(i) \/ Crash(i)
             \/ \E r \in batch[i] : TakeGone(i, r) \/ Take(i, r)
    BY <1>0, <2>1 DEF RecoverStuck, Claim, EndPass, Crash, TakeGone, Take
  <2>2. CASE \/ Check(i) \/ Requeue(i) \/ Cancel(i) \/ Prepare(i) \/ Refuse(i) \/ Send(i)
             \/ SendUnconfirmed(i) \/ RecordSent(i) \/ Skip(i) \/ Advance(i) \/ Move(i)
             \/ Defer(i) \/ Retry(i) \/ GiveUp(i) \/ Abandon(i)
    BY <1>0, <2>2 DEF Check, Requeue, Cancel, Prepare, Refuse, Send, SendUnconfirmed,
       RecordSent, Skip, Advance, Move, Defer, Retry, GiveUp, Abandon
  <2> QED BY <1>2, <2>1, <2>2 DEF SchedulerStep, Execute
<1>3. ASSUME NEW r \in RunIds, Age(r) PROVE faults' = faults
  BY <1>0, <1>3 DEF Age
<1>4. ASSUME NEW q \in Requests, BeginRequest(q) \/ CommitRequest(q) \/ RequestDies(q)
      PROVE  faults' = faults
  BY <1>0, <1>4 DEF BeginRequest, EnrollBegin, StartBegin, RemoveStepBegin, RemoveBegin,
     StopBegin, RetryBegin, ReplyArrives, OptOutBegin, CommitRequest, EnrollCommit,
     StartCommit, StopCommit, RetryCommit, RemoveStepCommit, RemoveCommit, ReplyMarksLead,
     ReplyClosesCadences, OptOutCommit, RequestDies, schedVars
<1>5. ASSUME NEW c \in Campaigns, AtomicRequest(c) PROVE faults' = faults
  BY <1>5 DEF AtomicRequest, Pause, AddStep, schedVars
<1> QED BY <1>1, <1>2, <1>3, <1>4, <1>5 DEF Next

\* Without failures no lead gets a step twice, however many instances there are.
THEOREM NothingSentTwice == ASSUME Orderly, Faults = {} PROVE Spec => []NoDoubleSend
<1>1. Init => faults = 0
  BY DEF Init, SchedInit
<1>2. faults = 0 /\ [Next]_vars => (faults = 0)'
  BY NoFaultsStep
<1>3. SafeWork /\ faults = 0 => NoDoubleSend
  BY DEF SafeWork, InboxBounded, NoDoubleSend, TypedHands, SchedTypeOK
<1> QED BY <1>1, <1>2, <1>3, WorkIsSafe, PTL DEF Spec
=============================================================================
