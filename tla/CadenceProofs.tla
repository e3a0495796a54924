---------------------------- MODULE CadenceProofs ----------------------------
(***************************************************************************)
(* The engine implements the abstract Cadence, whatever its schedulers,    *)
(* requests, crashes and failures do, as long as it is used as Orderly     *)
(* says.  Each step of the engine settles one step of one cadence, joins   *)
(* or closes cadences, or changes nothing a lead can see.                  *)
(***************************************************************************)
EXTENDS CampaignProofs

\* A message that went out has a row.
SentHasRow == \A r \in RunIds : inbox[r] > 0 => run[r] # "NONE"

\* What start will activate is still open: nothing of its campaign runs yet, and
\* no other handler is in progress.
StartKnowsOpen ==
    \A q \in Requests : req[q].op = "start" =>
        \A e \in req[q].who : e \in Enrollments /\ status[e] \in Open

CadenceInv == SafeWork /\ SentHasRow /\ StartKnowsOpen

-----------------------------------------------------------------------------
\* What happens to the rows: none is deleted, and none is skipped or unskipped.
RowsGoOn ==
    \A r \in RunIds : /\ run[r] # "NONE" => run'[r] # "NONE"
                      /\ run'[r] = "SKIPPED" <=> run[r] = "SKIPPED"

\* The run an instance works on is RUNNING until it has written its outcome.
LEMMA WorksOnRunning ==
    ASSUME SafeWork, NEW i \in Instances, pc[i] \notin Resting \cup Settled
    PROVE  cur[i] \in RunIds /\ run[cur[i]] = "RUNNING"
<1>1. cur[i] \in RunIds
  BY CurIsRun DEF SafeWork
<1>2. Working(i, cur[i])
  BY DEF Working
<1> QED BY <1>1, <1>2 DEF SafeWork, HeldRuns

\* The next step of a run that was settled has no row yet.
LEMMA NextHasNoRow ==
    ASSUME SafeWork, NEW i \in Instances, At(i, "move"), next[i] # 0
    PROVE  /\ cur[i] \in RunIds
           /\ <<cur[i][1], next[i]>> \in RunIds
           /\ run[<<cur[i][1], next[i]>>] = "NONE"
<1>1. cur[i] \in RunIds /\ Settling(i, cur[i])
  BY CurIsRun DEF SafeWork, At, Resting, Settling, Settled
<1>2. next[i] \in Positions /\ next[i] > cur[i][2]
  BY DEF SafeWork, NextIsLater, TypedHands, SchedTypeOK, At
<1>3. <<cur[i][1], next[i]>> \in RunIds
  BY <1>1, <1>2, RunIdParts DEF RunIds
<1>4. Later(cur[i], <<cur[i][1], next[i]>>)
  BY <1>2 DEF Later
<1>5. Unfinished(cur[i])
  BY <1>1 DEF Unfinished
<1> QED BY <1>1, <1>3, <1>4, <1>5 DEF SafeWork, LastRow

LEMMA MarkGoesOn ==
    ASSUME SafeWork, NEW r \in RunIds, run[r] = "RUNNING", NEW s, Mark(r, s),
           s \notin {"NONE", "SKIPPED"}
    PROVE  RowsGoOn
BY DEF SafeWork, TypedHands, StoreTypeOK, Mark, RowsGoOn

LEMMA ScheduleGoesOn ==
    ASSUME NEW R \in SUBSET RunIds, NEW K, Schedule(R, K), \A r \in R : run[r] # "SKIPPED"
    PROVE  RowsGoOn
BY DEF Schedule, RowsGoOn

LEMMA SchedulerRows ==
    ASSUME SafeWork, NEW i \in Instances, SchedulerStep(i), ~Skip(i)
    PROVE  RowsGoOn
<1>1. CASE RecoverStuck(i) \/ Claim(i)
  BY <1>1 DEF RecoverStuck, Claim, Due, RowsGoOn
<1>2. CASE Requeue(i) \/ Cancel(i) \/ RecordSent(i) \/ Defer(i) \/ Retry(i) \/ GiveUp(i)
  <2>1. pc[i] \in {"requeue", "cancel", "record", "defer", "error", "fatal"}
    BY <1>2 DEF Requeue, Cancel, RecordSent, Defer, Retry, GiveUp, At
  <2>2. \E s \in {"QUEUED", "CANCELED", "SENT", "FAILED"} : Mark(cur[i], s)
    BY <1>2 DEF Requeue, Cancel, RecordSent, Defer, Retry, GiveUp
  <2> QED BY <2>1, <2>2, WorksOnRunning, MarkGoesOn DEF Resting, Settled
<1>3. CASE Move(i)
  <2> DEFINE moved == status[cur[i][1]] \in Open /\ next[i] # 0
             R == IF moved THEN {<<cur[i][1], next[i]>>} ELSE {}
  <2>1. Schedule(R, {}) /\ At(i, "move")
    BY <1>3 DEF Move
  <2>2. \A r \in R : r \in RunIds /\ run[r] = "NONE"
    BY <2>1, NextHasNoRow
  <2> QED BY <2>1, <2>2, ScheduleGoesOn
<1>4. CASE UNCHANGED run
  BY <1>4 DEF RowsGoOn
<1>5. CASE \/ EndPass(i) \/ Crash(i) \/ \E r \in batch[i] : TakeGone(i, r) \/ Take(i, r)
           \/ Check(i) \/ Prepare(i) \/ Refuse(i) \/ Send(i) \/ SendUnconfirmed(i)
           \/ Advance(i) \/ Abandon(i)
  BY <1>4, <1>5 DEF EndPass, Crash, TakeGone, Take, Check, Prepare, Refuse, Send,
     SendUnconfirmed, Advance, Abandon, storeVars
<1> QED BY <1>1, <1>2, <1>3, <1>5 DEF SchedulerStep, Execute

\* The rows a request queues are new, or failed before.
LEMMA RequestRows ==
    ASSUME Orderly, SafeWork, NEW q \in Requests,
           BeginRequest(q) \/ CommitRequest(q) \/ RequestDies(q)
    PROVE  RowsGoOn
<1> USE DEF SafeWork
<1> DEFINE w == req[q]
<1>0. w \in Request
  BY DEF TypedHands, RequestsOK, RequestTypeOK
<1>1. UNCHANGED run => RowsGoOn
  BY DEF RowsGoOn
<1>2. CASE BeginRequest(q) \/ RequestDies(q)
  BY <1>1, <1>2 DEF BeginRequest, EnrollBegin, StartBegin, RemoveStepBegin, RemoveBegin,
     StopBegin, RetryBegin, ReplyArrives, OptOutBegin, RequestDies, storeVars
<1>3. CASE EnrollCommit(q)
  <2>1. CASE EnrollFails(w)
    BY <1>1, <1>3, <2>1 DEF EnrollCommit, storeVars
  <2>2. CASE ~EnrollFails(w)
    <3> DEFINE R == IF w.active THEN w.who \X {w.p} ELSE {}
    <3>1. Schedule(R, {})
      BY <1>3, <2>2 DEF EnrollCommit
    <3>2. w.c \in Campaigns /\ (w.active => w.p \in Positions)
      BY <1>3, <2>2 DEF EnrollCommit, Pending, TypedHands, RequestsOK, RequestTargets,
         EnrollFails, StoreTypeOK
    <3>3. \A r \in R : r \in RunIds /\ r[1] \in w.who
      BY <1>0, <3>2 DEF Request, RunIds
    <3>4. \A r \in R : run[r] = "NONE"
      BY <2>2, <3>3 DEF EnrollFails, RowsBelong
    <3> QED BY <3>1, <3>3, <3>4, ScheduleGoesOn
  <2> QED BY <2>1, <2>2
<1>4. CASE StartCommit(q)
  <2> DEFINE R == StartQueues(w)
             fails == ~Exists(w.c) \/ \E r \in R : r[2] \notin steps[w.c]
  <2>1. CASE fails
    BY <1>1, <1>4, <2>1 DEF StartCommit, storeVars
  <2>2. CASE ~fails
    <3>1. Schedule(R, {r \in R : run[r] = "QUEUED"})
      BY <1>4, <2>2 DEF StartCommit
    <3>2. w.op = "start" /\ w.c \in Campaigns
      BY <1>4 DEF StartCommit, Pending, TypedHands, RequestsOK, RequestTargets
    <3>3. \A r \in RunIds : r[1][1] = w.c => run[r] = "NONE"
      BY <3>2 DEF BeforeStart, NotStarted
    <3>4. \A r \in R : r \in RunIds /\ r[1][1] = w.c
      BY <3>2 DEF StartQueues, RequestKnows
    <3> QED BY <3>1, <3>3, <3>4, ScheduleGoesOn
  <2> QED BY <2>1, <2>2
<1>5. CASE RetryCommit(q)
  <2>1. PICK e \in w.who : \/ UNCHANGED storeVars
                           \/ /\ w.p \in steps[CampaignOf(e)]
                              /\ Schedule({<<e, w.p>>}, {})
    BY <1>5 DEF RetryCommit
  <2>2. CASE UNCHANGED storeVars
    BY <1>1, <2>2 DEF storeVars
  <2>3. CASE w.p \in steps[CampaignOf(e)] /\ Schedule({<<e, w.p>>}, {})
    <3>1. <<e, w.p>> \in RunIds
      BY <1>0, <2>3 DEF Request, TypedHands, StoreTypeOK, CampaignOf, RunIds, Enrollments
    <3>2. run[<<e, w.p>>] = "FAILED"
      BY <1>5, <3>1 DEF RetryCommit, Pending, RequestKnows
    <3> QED BY <2>3, <3>1, <3>2, ScheduleGoesOn
  <2> QED BY <2>1, <2>2, <2>3
<1>6. CASE StopCommit(q)
  BY <1>1, <1>6 DEF StopCommit, RowsGoOn, storeVars
<1>7. CASE ReplyMarksLead(q) \/ ReplyClosesCadences(q) \/ OptOutCommit(q)
  BY <1>1, <1>7 DEF ReplyMarksLead, ReplyClosesCadences, OptOutCommit
<1>8. ~RemoveStepCommit(q) /\ ~RemoveCommit(q)
  BY DEF Orderly, RequestKnows, RemoveStepCommit, RemoveCommit, Pending
<1> QED BY <1>2, <1>3, <1>4, <1>5, <1>6, <1>7, <1>8 DEF CommitRequest

-----------------------------------------------------------------------------
\* The invariant behind the refinement.
LEMMA SentHasRowStep ==
    ASSUME Orderly, SafeWork, SentHasRow, [Next]_vars
    PROVE  SentHasRow'
<1>1. ASSUME NEW i \in Instances, Send(i) \/ SendUnconfirmed(i) PROVE SentHasRow'
  <2>1. pc[i] \notin Resting \cup Settled
    BY <1>1 DEF Send, SendUnconfirmed, At, Resting, Settled
  <2>2. cur[i] \in RunIds /\ run[cur[i]] = "RUNNING"
    BY <2>1, WorksOnRunning
  <2>3. inbox' = [inbox EXCEPT ![cur[i]] = @ + 1] /\ UNCHANGED run
    BY <1>1 DEF Send, SendUnconfirmed, storeVars
  <2> QED BY <2>2, <2>3 DEF SentHasRow, SafeWork, TypedHands, SchedTypeOK
<1>2. RowsGoOn /\ UNCHANGED inbox => SentHasRow'
  BY DEF RowsGoOn, SentHasRow
<1>3. ASSUME NEW i \in Instances, Skip(i) PROVE SentHasRow'
  <2>1. run' = [run EXCEPT ![cur[i]] = "SKIPPED"] /\ UNCHANGED inbox
    BY <1>3 DEF Skip, Mark
  <2> QED BY <2>1 DEF SentHasRow, SafeWork, TypedHands, StoreTypeOK
<1>4. ASSUME NEW i \in Instances, SchedulerStep(i), ~Skip(i), ~Send(i), ~SendUnconfirmed(i)
      PROVE  SentHasRow'
  <2>1. UNCHANGED inbox
    BY <1>4 DEF SchedulerStep, Execute, RecoverStuck, Claim, EndPass, Crash, TakeGone, Take,
       Check, Requeue, Cancel, Prepare, Refuse, RecordSent, Advance, Move, Defer, Retry,
       GiveUp, Abandon
  <2> QED BY <1>2, <1>4, <2>1, SchedulerRows
<1>5. ASSUME NEW q \in Requests, BeginRequest(q) \/ CommitRequest(q) \/ RequestDies(q)
      PROVE  SentHasRow'
  <2>1. UNCHANGED inbox
    BY <1>5 DEF BeginRequest, EnrollBegin, StartBegin, RemoveStepBegin, RemoveBegin,
       StopBegin, RetryBegin, ReplyArrives, OptOutBegin, CommitRequest, EnrollCommit,
       StartCommit, StopCommit, RetryCommit, RemoveStepCommit, RemoveCommit, ReplyMarksLead,
       ReplyClosesCadences, OptOutCommit, RequestDies, schedVars
  <2> QED BY <1>2, <1>5, <2>1, RequestRows
<1>6. ASSUME UNCHANGED vars \/ (\E r \in RunIds : Age(r)) \/ \E c \in Campaigns : AtomicRequest(c)
      PROVE  SentHasRow'
  <2>1. UNCHANGED <<run, inbox>>
    BY <1>6 DEF vars, storeVars, schedVars, Age, AtomicRequest, Pause, AddStep
  <2> QED BY <2>1 DEF SentHasRow
<1> QED BY <1>1, <1>3, <1>4, <1>5, <1>6 DEF Next

\* An instance that has a run has it of a campaign that was started.
LEMMA WorksOnStarted ==
    ASSUME SafeWork, NEW i \in Instances, pc[i] \notin Resting
    PROVE  cur[i] \in RunIds /\ ~NotStarted(cur[i][1][1])
<1>1. cur[i] \in RunIds
  BY CurIsRun DEF SafeWork
<1>2. Working(i, cur[i]) \/ Settling(i, cur[i])
  BY DEF Working, Settling
<1>3. run[cur[i]] # "NONE"
  BY <1>1, <1>2 DEF SafeWork, HeldRuns
<1> QED BY <1>1, <1>3, RunIdParts DEF SafeWork, BeforeStart, CampaignIn, CampaignOf

LEMMA StartKnowsOpenStep ==
    ASSUME Orderly, SafeWork, StartKnowsOpen, [Next]_vars
    PROVE  StartKnowsOpen'
<1> USE DEF SafeWork
<1>1. ASSUME NEW i \in Instances, SchedulerStep(i) PROVE StartKnowsOpen'
  <2>1. UNCHANGED req
    BY <1>1 DEF SchedulerStep, Execute, RecoverStuck, Claim, EndPass, Crash, TakeGone, Take,
       Check, Requeue, Cancel, Prepare, Refuse, Send, SendUnconfirmed, RecordSent, Skip,
       Advance, Move, Defer, Retry, GiveUp, Abandon, requestVars
  <2>2. UNCHANGED status \/ GiveUp(i) \/ Move(i)
    BY <1>1 DEF SchedulerStep, Execute, RecoverStuck, Claim, EndPass, Crash, TakeGone, Take,
       Check, Requeue, Cancel, Prepare, Refuse, Send, SendUnconfirmed, RecordSent, Skip,
       Advance, Defer, Retry, Abandon, storeVars
  <2>3. ASSUME GiveUp(i) \/ Move(i)
        PROVE  /\ cur[i] \in RunIds /\ ~NotStarted(cur[i][1][1])
               /\ \A e \in Enrollments : e # cur[i][1] => status'[e] = status[e]
    <3>1. pc[i] \notin Resting
      BY <2>3 DEF GiveUp, Move, At, Resting
    <3>2. \A e \in Enrollments : e # cur[i][1] => status'[e] = status[e]
      BY <2>3 DEF GiveUp, Move, CloseOpen, TypedHands, StoreTypeOK
    <3> QED BY <3>1, <3>2, WorksOnStarted
  <2>4. ASSUME NEW q \in Requests, req[q].op = "start", NEW e \in req[q].who
        PROVE  NotStarted(e[1])
    BY <2>4 DEF NotStarted, RequestKnows, RequestsOK, RequestTargets
  <2> QED BY <2>1, <2>2, <2>3, <2>4 DEF StartKnowsOpen
<1>2. ASSUME NEW q \in Requests, CommitRequest(q) \/ RequestDies(q) PROVE StartKnowsOpen'
  <2>1. Finish(q) \/ ReplyMarksLead(q)
    BY <1>2 DEF CommitRequest, EnrollCommit, StartCommit, StopCommit, RetryCommit,
       RemoveStepCommit, RemoveCommit, ReplyClosesCadences, OptOutCommit, RequestDies
  <2>2. \A x \in Requests : req'[x].op # "start"
    BY <2>1 DEF Orderly, Finish, ReplyMarksLead, NoRequest, TypedHands, RequestsOK,
       RequestTypeOK, Request
  <2> QED BY <2>2 DEF StartKnowsOpen
<1>3. ASSUME NEW q \in Requests, BeginRequest(q) PROVE StartKnowsOpen'
  <2>1. ASSUME NEW c \in Campaigns, StartBegin(q, c) PROVE StartKnowsOpen'
    <3>1. \A x \in Requests : req'[x].who \subseteq {e \in Enrollments : status[e] \in Open}
      BY <2>1 DEF Orderly, StartBegin, EnrollmentsOf, NoRequest, TypedHands, RequestsOK,
         RequestTypeOK
    <3>2. UNCHANGED status
      BY <2>1 DEF StartBegin, storeVars
    <3> QED BY <3>1, <3>2 DEF StartKnowsOpen
  <2>2. ASSUME ~(\E c \in Campaigns : StartBegin(q, c)) PROVE StartKnowsOpen'
    <3>1. req'[q].op # "start"
      <4>1. req \in [Requests -> Request]
        BY DEF TypedHands, RequestsOK, RequestTypeOK
      <4>2. ASSUME NEW c \in Campaigns, NEW L \in SUBSET Leads, EnrollBegin(q, c, L)
            PROVE  req'[q].op # "start"
        BY <4>1, <4>2 DEF EnrollBegin, NoRequest
      <4>3. ASSUME NEW c \in Campaigns, NEW p \in Positions,
                   RemoveStepBegin(q, c, p)
            PROVE  req'[q].op # "start"
        BY <4>1, <4>3 DEF RemoveStepBegin, NoRequest
      <4>4. ASSUME NEW e \in Enrollments, StopBegin(q, e) \/ RetryBegin(q, e)
            PROVE  req'[q].op # "start"
        BY ZenonT(60), <4>1, <4>4 DEF StopBegin, RetryBegin, NoRequest
      <4>5. ASSUME NEW l \in Leads, ReplyArrives(q, l) \/ OptOutBegin(q, l)
            PROVE  req'[q].op # "start"
        BY <4>1, <4>5 DEF ReplyArrives, OptOutBegin, NoRequest
      <4>6. ASSUME NEW c \in Campaigns, RemoveBegin(q, c)
            PROVE  req'[q].op # "start"
        BY <4>1, <4>6 DEF RemoveBegin, NoRequest
      <4> QED BY <1>3, <2>2, <4>2, <4>3, <4>4, <4>5, <4>6 DEF BeginRequest
    <3> QED BY <3>1 DEF StartKnowsOpen, Orderly
  <2> QED BY <2>1, <2>2
<1>4. ASSUME UNCHANGED vars \/ (\E r \in RunIds : Age(r)) PROVE StartKnowsOpen'
  BY <1>4 DEF vars, storeVars, requestVars, Age, StartKnowsOpen
<1>5. ASSUME NEW c \in Campaigns, AtomicRequest(c) PROVE StartKnowsOpen'
  <2>1. UNCHANGED req /\ \A e \in Enrollments : status[e] \in Open => status'[e] \in Open
    BY <1>5 DEF AtomicRequest, Pause, AddStep, requestVars, Open
  <2> QED BY <2>1 DEF StartKnowsOpen
<1> QED BY <1>1, <1>2, <1>3, <1>4, <1>5 DEF Next

LEMMA CadenceInvInit == Init => CadenceInv
<1>1. Init => SentHasRow /\ StartKnowsOpen
  BY DEF Init, SchedInit, RequestInit, SentHasRow, StartKnowsOpen, NoRequest
<1> QED BY <1>1, SafeInit DEF CadenceInv

LEMMA CadenceInvNext == Orderly /\ CadenceInv /\ [Next]_vars => CadenceInv'
BY SafeNext, SentHasRowStep, StartKnowsOpenStep DEF CadenceInv

-----------------------------------------------------------------------------
\* What a lead sees of a step.
LifeKept == \A e \in Enrollments : LifeOf(e)' = LifeOf(e)
OutcomeKept == \A r \in RunIds : OutcomeOf(r)' = OutcomeOf(r)

PromiseStep == [Promise!Next]_(Promise!vars)

LEMMA NothingSeen ==
    ASSUME LifeKept, OutcomeKept
    PROVE  PromiseStep
BY DEF LifeKept, OutcomeKept, PromiseStep, Promise!vars

LEMMA JoinSeen ==
    ASSUME NEW E \in SUBSET Enrollments, OutcomeKept,
           \A e \in E : LifeOf(e) = "out" /\ LifeOf(e)' = "open",
           \A e \in Enrollments \ E : LifeOf(e)' = LifeOf(e)
    PROVE  PromiseStep
<1>1. Promise!Join
  BY DEF OutcomeKept, Promise!Join
<1> QED BY <1>1 DEF PromiseStep, Promise!Next

LEMMA CloseSeen ==
    ASSUME NEW E \in SUBSET Enrollments, OutcomeKept,
           \A e \in E : LifeOf(e) = "open" /\ LifeOf(e)' = "closed",
           \A e \in Enrollments \ E : LifeOf(e)' = LifeOf(e)
    PROVE  PromiseStep
<1>1. Promise!Close
  BY DEF OutcomeKept, Promise!Close
<1> QED BY <1>1 DEF PromiseStep, Promise!Next

LEMMA SettleSeen ==
    ASSUME NEW r \in RunIds, NEW how \in {"sent", "skipped"}, LifeKept,
           LifeOf(r[1]) # "out",
           OutcomeOf(r)' = how,
           \A s \in RunIds : s # r => OutcomeOf(s)' = OutcomeOf(s),
           \A s \in RunIds : s = r \/ Later(r, s) => OutcomeOf(s) = "none"
    PROVE  PromiseStep
<1> DEFINE e == r[1]
           p == r[2]
<1>1. e \in Enrollments /\ p \in Positions /\ r = <<e, p>>
  BY RunIdParts
<1>2. ASSUME NEW q \in Positions, q >= p PROVE <<e, q>> \in RunIds /\ OutcomeOf(<<e, q>>) = "none"
  <2>1. <<e, q>> \in RunIds
    BY <1>1 DEF RunIds
  <2>2. q = p \/ q > p
    BY <1>1, <1>2, PositionsAssumption
  <2> QED BY <1>1, <2>1, <2>2 DEF Later
<1>3. Promise!Settle(e, p, how)
  <2>1. [x \in Enrollments |-> LifeOf(x)][e] # "out"
    BY <1>1
  <2>2. \A q \in Positions : q >= p => [x \in RunIds |-> OutcomeOf(x)][<<e, q>>] = "none"
    BY <1>2
  <2>3. [x \in RunIds |-> OutcomeOf(x)]' = [[x \in RunIds |-> OutcomeOf(x)] EXCEPT ![<<e, p>>] = how]
    BY <1>1
  <2>4. UNCHANGED [x \in Enrollments |-> LifeOf(x)]
    BY DEF LifeKept
  <2> QED BY <2>1, <2>2, <2>3, <2>4 DEF Promise!Settle
<1>4. Promise!Next
  BY <1>1, <1>3 DEF Promise!Next
<1> QED BY <1>4 DEF PromiseStep

LEMMA SameStatus ==
    ASSUME UNCHANGED status PROVE LifeKept
BY DEF LifeKept, LifeOf

LEMMA SameOutcomes ==
    ASSUME RowsGoOn, UNCHANGED inbox PROVE OutcomeKept
BY DEF RowsGoOn, OutcomeKept, OutcomeOf

\* The run an instance works on, and every later one, has no outcome unless its
\* message is out already; its enrollment has joined.
LEMMA NothingSettledYet ==
    ASSUME CadenceInv, NEW i \in Instances, pc[i] \notin Resting \cup Settled, inbox[cur[i]] = 0
    PROVE  /\ LifeOf(cur[i][1]) # "out"
           /\ \A s \in RunIds : s = cur[i] \/ Later(cur[i], s) => OutcomeOf(s) = "none"
<1> USE DEF CadenceInv
<1>1. cur[i] \in RunIds /\ run[cur[i]] = "RUNNING"
  BY WorksOnRunning
<1>2. status[cur[i][1]] # "NONE"
  BY <1>1 DEF SafeWork, RowsBelong
<1>3. ASSUME NEW s \in RunIds, Later(cur[i], s) PROVE OutcomeOf(s) = "none"
  <2>1. run[s] = "NONE"
    BY <1>1, <1>3 DEF SafeWork, LastRow, Unfinished
  <2>2. ~(inbox[s] > 0)
    BY <2>1 DEF SentHasRow
  <2> QED BY <2>1, <2>2 DEF OutcomeOf
<1> QED BY <1>1, <1>2, <1>3 DEF LifeOf, OutcomeOf, Terminal

LEMMA SendSeen ==
    ASSUME CadenceInv, NEW i \in Instances, Send(i) \/ SendUnconfirmed(i)
    PROVE  PromiseStep
<1>1. pc[i] \notin Resting \cup Settled
  BY DEF Send, SendUnconfirmed, At, Resting, Settled
<1>2. PICK r \in RunIds : r = cur[i] /\ run[r] = "RUNNING"
  BY <1>1, WorksOnRunning DEF CadenceInv
<1>0. inbox \in [RunIds -> Nat]
  BY DEF CadenceInv, SafeWork, TypedHands, SchedTypeOK
<1>3. inbox' = [inbox EXCEPT ![r] = @ + 1] /\ UNCHANGED <<run, status>>
  BY <1>2 DEF Send, SendUnconfirmed, storeVars
<1>4. \A s \in RunIds : s # r => OutcomeOf(s)' = OutcomeOf(s)
  BY <1>0, <1>2, <1>3 DEF OutcomeOf
<1>5. OutcomeOf(r)' = "sent" /\ LifeKept
  BY <1>0, <1>2, <1>3, SameStatus DEF OutcomeOf
<1>6. CASE inbox[r] = 0
  BY <1>1, <1>2, <1>4, <1>5, <1>6, NothingSettledYet, SettleSeen
<1>7. CASE inbox[r] # 0
  <2>1. OutcomeKept
    BY <1>0, <1>4, <1>5, <1>7 DEF OutcomeKept, OutcomeOf
  <2> QED BY <1>5, <2>1, NothingSeen
<1> QED BY <1>6, <1>7

LEMMA SkipSeen ==
    ASSUME CadenceInv, NEW i \in Instances, Skip(i)
    PROVE  PromiseStep
<1>1. pc[i] \notin Resting \cup Settled
  BY DEF Skip, At, Resting, Settled
<1>2. PICK r \in RunIds : r = cur[i] /\ run[r] = "RUNNING"
  BY <1>1, WorksOnRunning DEF CadenceInv
<1>0. inbox \in [RunIds -> Nat] /\ run \in [RunIds -> RunStatus]
  BY DEF CadenceInv, SafeWork, TypedHands, SchedTypeOK, StoreTypeOK
<1>3. run' = [run EXCEPT ![r] = "SKIPPED"] /\ UNCHANGED <<inbox, status>>
  BY <1>2 DEF Skip, Mark
<1>4. LifeKept /\ \A s \in RunIds : s # r => OutcomeOf(s)' = OutcomeOf(s)
  BY <1>0, <1>2, <1>3, SameStatus DEF OutcomeOf
<1>5. CASE inbox[r] = 0
  <2>1. OutcomeOf(r)' = "skipped"
    BY <1>0, <1>2, <1>3, <1>5 DEF OutcomeOf
  <2> QED BY <1>1, <1>2, <1>4, <1>5, <2>1, NothingSettledYet, SettleSeen
<1>6. CASE inbox[r] # 0
  <2>1. OutcomeKept
    BY <1>0, <1>2, <1>3, <1>4, <1>6 DEF OutcomeKept, OutcomeOf
  <2> QED BY <1>4, <2>1, NothingSeen
<1> QED BY <1>5, <1>6

LEMMA SchedulerSeen ==
    ASSUME CadenceInv, NEW i \in Instances, SchedulerStep(i)
    PROVE  PromiseStep
<1>1. CASE Send(i) \/ SendUnconfirmed(i) \/ Skip(i)
  BY <1>1, SendSeen, SkipSeen
<1>2. CASE ~(Send(i) \/ SendUnconfirmed(i) \/ Skip(i))
  <2>1. UNCHANGED inbox
    BY <1>2 DEF SchedulerStep, Execute, RecoverStuck, Claim, EndPass, Crash, TakeGone, Take,
       Check, Requeue, Cancel, Prepare, Refuse, RecordSent, Advance, Move, Defer, Retry,
       GiveUp, Abandon
  <2>2. OutcomeKept
    BY <1>2, <2>1, SchedulerRows, SameOutcomes DEF CadenceInv
  <2>3. CASE UNCHANGED status
    BY <2>2, <2>3, SameStatus, NothingSeen
  <2>4. CASE GiveUp(i)
    <3>1. LifeKept
      BY <2>4 DEF GiveUp, CloseOpen, LifeKept, LifeOf, Open, Terminal
    <3> QED BY <2>2, <3>1, NothingSeen
  <2>5. CASE Move(i)
    <3> DEFINE e == cur[i][1]
               E == IF status[e] \in Open /\ next[i] = 0 THEN {e} ELSE {}
    <3>1. cur[i] \in RunIds /\ e \in Enrollments
      BY <2>5, CurIsRun, RunIdParts DEF Move, At, Resting, CadenceInv, SafeWork
    <3>2. status' = [status EXCEPT ![e] = IF e \in E THEN "COMPLETED" ELSE @]
      BY <2>5 DEF Move
    <3>3. \A f \in E : LifeOf(f) = "open" /\ LifeOf(f)' = "closed"
      BY <3>1, <3>2 DEF LifeOf, Open, Terminal, CadenceInv, SafeWork, TypedHands, StoreTypeOK
    <3>4. \A f \in Enrollments \ E : LifeOf(f)' = LifeOf(f)
      BY <3>1, <3>2 DEF LifeOf, CadenceInv, SafeWork, TypedHands, StoreTypeOK
    <3>5. E \in SUBSET Enrollments
      BY <3>1
    <3> HIDE DEF E
    <3> QED BY <2>2, <3>3, <3>4, <3>5, CloseSeen
  <2> QED BY <2>3, <2>4, <2>5 DEF SchedulerStep, Execute, RecoverStuck, Claim, EndPass, Crash,
          TakeGone, Take, Check, Requeue, Cancel, Prepare, Refuse, Send, SendUnconfirmed,
          RecordSent, Skip, Advance, Defer, Retry, Abandon, storeVars
<1> QED BY <1>1, <1>2

LEMMA RequestSeen ==
    ASSUME Orderly, CadenceInv, NEW q \in Requests,
           BeginRequest(q) \/ CommitRequest(q) \/ RequestDies(q)
    PROVE  PromiseStep
<1> USE DEF CadenceInv
<1> DEFINE w == req[q]
<1>0. status \in [Enrollments -> EnrollmentStatus] /\ w \in Request
  BY DEF SafeWork, TypedHands, StoreTypeOK, RequestsOK, RequestTypeOK
<1>1. UNCHANGED inbox
  BY DEF BeginRequest, EnrollBegin, StartBegin, RemoveStepBegin, RemoveBegin,
     StopBegin, RetryBegin, ReplyArrives, OptOutBegin, CommitRequest, EnrollCommit,
     StartCommit, StopCommit, RetryCommit, RemoveStepCommit, RemoveCommit, ReplyMarksLead,
     ReplyClosesCadences, OptOutCommit, RequestDies, schedVars
<1>2. OutcomeKept
  BY <1>1, RequestRows, SameOutcomes
<1>3. UNCHANGED status => PromiseStep
  BY <1>2, SameStatus, NothingSeen
<1>4. CASE BeginRequest(q) \/ RequestDies(q) \/ ReplyMarksLead(q)
  BY <1>3, <1>4 DEF BeginRequest, EnrollBegin, StartBegin, RemoveStepBegin, RemoveBegin,
     StopBegin, RetryBegin, ReplyArrives, OptOutBegin, RequestDies, ReplyMarksLead, storeVars
<1>5. CASE EnrollCommit(q)
  <2>1. CASE EnrollFails(w)
    BY <1>3, <1>5, <2>1 DEF EnrollCommit, storeVars
  <2>2. CASE ~EnrollFails(w)
    <3>1. status' = [e \in Enrollments |->
                       IF e \notin w.who THEN status[e]
                       ELSE IF w.active THEN "ACTIVE" ELSE "PAUSED"]
      BY <1>5, <2>2 DEF EnrollCommit
    <3>2. w.who \in SUBSET Enrollments /\ \A e \in w.who : status[e] = "NONE"
      BY <1>0, <2>2 DEF Request, EnrollFails
    <3>3. \A e \in w.who : LifeOf(e) = "out" /\ LifeOf(e)' = "open"
      BY <3>1, <3>2 DEF LifeOf, Terminal
    <3>4. \A e \in Enrollments \ w.who : LifeOf(e)' = LifeOf(e)
      BY <3>1 DEF LifeOf
    <3> QED BY <1>2, <3>2, <3>3, <3>4, JoinSeen
  <2> QED BY <2>1, <2>2
<1>6. CASE StartCommit(q)
  <2> DEFINE R == StartQueues(w)
             fails == ~Exists(w.c) \/ \E r \in R : r[2] \notin steps[w.c]
             E == {e \in w.who : StartNext(w, e) = 0}
  <2>1. CASE fails
    BY <1>3, <1>6, <2>1 DEF StartCommit, storeVars
  <2>2. CASE ~fails
    <3>1. status' = [e \in Enrollments |->
                       IF e \notin w.who THEN status[e]
                       ELSE IF StartNext(w, e) = 0 THEN "COMPLETED"
                       ELSE "ACTIVE"]
      BY <1>6, <2>2 DEF StartCommit
    <3>2. \A e \in w.who : e \in Enrollments /\ status[e] \in Open
      BY <1>6 DEF StartCommit, Pending, StartKnowsOpen
    <3>3. E \in SUBSET Enrollments
      BY <3>2
    <3>4. \A e \in E : LifeOf(e) = "open" /\ LifeOf(e)' = "closed"
      BY <3>1, <3>2 DEF LifeOf, Open, Terminal
    <3>5. \A e \in Enrollments \ E : LifeOf(e)' = LifeOf(e)
      BY <3>1, <3>2 DEF LifeOf, Open, Terminal
    <3> QED BY <1>2, <3>3, <3>4, <3>5, CloseSeen
  <2> QED BY <2>1, <2>2
<1>7. CASE RetryCommit(q)
  <2>1. PICK e \in w.who :
          \/ UNCHANGED status
          \/ /\ w.p \in steps[CampaignOf(e)]
             /\ status' = [status EXCEPT ![e] = IF w.active THEN "ACTIVE" ELSE "PAUSED"]
    BY <1>7 DEF RetryCommit, storeVars
  <2>2. CASE UNCHANGED status
    BY <1>3, <2>2
  <2>3. CASE /\ w.p \in steps[CampaignOf(e)]
             /\ status' = [status EXCEPT ![e] = IF w.active THEN "ACTIVE" ELSE "PAUSED"]
    <3>1. e \in Enrollments /\ <<e, w.p>> \in RunIds
      BY <1>0, <2>3 DEF Request, SafeWork, TypedHands, StoreTypeOK, CampaignOf, RunIds,
         Enrollments
    <3>2. status[e] = "FAILED"
      BY <1>7, <3>1 DEF RetryCommit, Pending, SafeWork, RequestKnows
    <3>3. LifeKept
      BY <1>0, <2>3, <3>1, <3>2 DEF LifeKept, LifeOf, Terminal
    <3> QED BY <1>2, <3>3, NothingSeen
  <2> QED BY <2>1, <2>2, <2>3
<1>8. CASE StopCommit(q)
  <2>1. PICK e \in w.who :
          \/ UNCHANGED status
          \/ status[e] # "NONE" /\ status' = [status EXCEPT ![e] = "STOPPED"]
    BY <1>8 DEF StopCommit, storeVars
  <2>2. e \in Enrollments
    BY <1>0 DEF Request
  <2>3. CASE status[e] # "NONE" /\ status' = [status EXCEPT ![e] = "STOPPED"]
    <3> DEFINE E == IF status[e] \in Terminal THEN {} ELSE {e}
    <3>1. \A f \in E : LifeOf(f) = "open" /\ LifeOf(f)' = "closed"
      BY <1>0, <2>2, <2>3 DEF LifeOf, Terminal
    <3>2. \A f \in Enrollments \ E : LifeOf(f)' = LifeOf(f)
      BY <1>0, <2>2, <2>3 DEF LifeOf, Terminal
    <3>3. E \in SUBSET Enrollments
      BY <2>2
    <3> HIDE DEF E
    <3> QED BY <1>2, <3>1, <3>2, <3>3, CloseSeen
  <2> QED BY <1>3, <2>1, <2>3
<1>9. CASE ReplyClosesCadences(q) \/ OptOutCommit(q)
  <2>1. PICK E \in SUBSET Enrollments, s \in {"REPLIED", "STOPPED"} : CloseOpen(E, s)
    BY <1>9 DEF ReplyClosesCadences, OptOutCommit, EnrollmentsOfLead
  <2> DEFINE C == {e \in E : status[e] \in Open}
  <2>2. \A e \in C : LifeOf(e) = "open" /\ LifeOf(e)' = "closed"
    BY <2>1 DEF CloseOpen, LifeOf, Open, Terminal
  <2>3. \A e \in Enrollments \ C : LifeOf(e)' = LifeOf(e)
    BY <2>1 DEF CloseOpen, LifeOf
  <2> QED BY <1>2, <2>2, <2>3, CloseSeen
<1>10. ~RemoveStepCommit(q) /\ ~RemoveCommit(q)
  BY DEF Orderly, SafeWork, RequestKnows, RemoveStepCommit, RemoveCommit, Pending
<1> QED BY <1>4, <1>5, <1>6, <1>7, <1>8, <1>9, <1>10 DEF CommitRequest

LEMMA CadenceStep == Orderly /\ CadenceInv /\ [Next]_vars => PromiseStep
<1> SUFFICES ASSUME Orderly, CadenceInv, [Next]_vars PROVE PromiseStep
  OBVIOUS
<1>1. ASSUME NEW i \in Instances, SchedulerStep(i) PROVE PromiseStep
  BY <1>1, SchedulerSeen
<1>2. ASSUME NEW q \in Requests, BeginRequest(q) \/ CommitRequest(q) \/ RequestDies(q)
      PROVE  PromiseStep
  BY <1>2, RequestSeen
<1>3. ASSUME UNCHANGED vars \/ (\E r \in RunIds : Age(r)) \/ \E c \in Campaigns : AtomicRequest(c)
      PROVE  PromiseStep
  <2>1. UNCHANGED <<run, inbox>>
    BY <1>3 DEF vars, storeVars, schedVars, Age, AtomicRequest, Pause, AddStep
  <2>2. OutcomeKept
    BY <2>1 DEF OutcomeKept, OutcomeOf
  <2>3. LifeKept
    BY <1>3 DEF vars, storeVars, Age, AtomicRequest, Pause, AddStep, LifeKept, LifeOf, Terminal
  <2> QED BY <2>2, <2>3, NothingSeen
<1> QED BY <1>1, <1>2, <1>3 DEF Next

\* The engine keeps the promise of docs/campaigns.md to every lead, through
\* crashes, failed statements and messages whose answer was lost: it joins a
\* cadence once, each step is settled once and after the earlier ones, and what
\* was closed stays closed.
THEOREM EngineKeepsPromise == ASSUME Orderly PROVE Spec => KeepsPromise
<1>1. Init => Promise!Init
  <2> SUFFICES ASSUME Init PROVE Promise!Init
    OBVIOUS
  <2>1. \A e \in Enrollments : LifeOf(e) = "out"
    <3>1. \A e \in Enrollments : status[e] = "NONE"
      BY DEF Init, StoreInit
    <3> QED BY <3>1 DEF LifeOf, Terminal
  <2>2. \A r \in RunIds : OutcomeOf(r) = "none"
    BY DEF Init, StoreInit, SchedInit, OutcomeOf
  <2> QED BY <2>1, <2>2 DEF Promise!Init, Promise!Steps, RunIds
<1>2. CadenceInv /\ [Next]_vars => CadenceInv' /\ [Promise!Next]_(Promise!vars)
  BY CadenceInvNext, CadenceStep DEF PromiseStep
<1> QED BY <1>1, <1>2, CadenceInvInit, PTL DEF Spec, KeepsPromise, Promise!Spec
=============================================================================
