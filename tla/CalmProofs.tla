----------------------------- MODULE CalmProofs -----------------------------
(***************************************************************************)
(* In Calm use, where no process dies and no statement fails, the engine   *)
(* leaves nothing behind (ActiveHasWork) and counts the attempts of a run  *)
(* right (AttemptBudget).  CalmWork and CountedWork are the invariants;    *)
(* CampaignProofs and CadenceProofs have what they rest on.                *)
(***************************************************************************)
EXTENDS CadenceProofs

\* What a step of one instance leaves alone.
LEMMA SchedulerFrame ==
    ASSUME TypedHands, NEW i \in Instances, SchedulerStep(i)
    PROVE  /\ UNCHANGED <<campaign, steps, req>>
           /\ \A j \in Instances : j # i =>
                pc'[j] = pc[j] /\ batch'[j] = batch[j] /\ cur'[j] = cur[j] /\ next'[j] = next[j]
           /\ \A j \in Instances : j # i => tries'[j] = tries[j]
<1> USE DEF TypedHands, SchedTypeOK
<1>1. UNCHANGED <<campaign, steps, req>>
  BY DEF SchedulerStep, Execute, RecoverStuck, Claim, EndPass, Crash, TakeGone, Take,
     Check, Requeue, Cancel, Prepare, Refuse, Send, SendUnconfirmed, RecordSent, Skip,
     Advance, Move, Defer, Retry, GiveUp, Abandon, storeVars, requestVars
<1> DEFINE Alone == \A j \in Instances : j # i =>
             /\ pc'[j] = pc[j] /\ batch'[j] = batch[j] /\ cur'[j] = cur[j]
             /\ next'[j] = next[j] /\ tries'[j] = tries[j]
<1>2. CASE Requeue(i) \/ Cancel(i) \/ Move(i) \/ Defer(i) \/ Retry(i) \/ GiveUp(i) \/ Abandon(i)
  <2>1. Release(i)
    BY <1>2 DEF Requeue, Cancel, Move, Defer, Retry, GiveUp, Abandon
  <2>2. Alone
    BY <2>1 DEF Release
  <2> QED BY <1>1, <2>2
<1>3. CASE RecoverStuck(i) \/ Claim(i) \/ EndPass(i) \/ Crash(i)
  <2>1. Alone
    BY <1>3 DEF RecoverStuck, Claim, EndPass, Crash, Goto, workVars
  <2> QED BY <1>1, <2>1
<1>4. CASE \/ \E r \in batch[i] : TakeGone(i, r) \/ Take(i, r)
           \/ Check(i) \/ Prepare(i) \/ Refuse(i) \/ Send(i) \/ SendUnconfirmed(i)
           \/ RecordSent(i) \/ Skip(i) \/ Advance(i)
  <2>1. Alone
    BY <1>4 DEF TakeGone, Take, Check, Prepare, Refuse, Send, SendUnconfirmed, RecordSent,
       Skip, Advance, Goto, workVars
  <2> QED BY <1>1, <2>1
<1> QED BY <1>2, <1>3, <1>4 DEF SchedulerStep, Execute

\* In calm use no process dies, and execute meets no missing row or step.
LEMMA CalmSteps ==
    ASSUME Calm, CalmWork, NEW i \in Instances
    PROVE  ~Crash(i) /\ ~Abandon(i)
<1>1. \A K \in SUBSET {"crash", "db", "slow"} : ~Fault(K)
  BY DEF Calm, Fault
<1>2. ~Crash(i)
  BY <1>1 DEF Crash
<1>3. ASSUME pc[i] \in UpdatesRun PROVE ~Deleted(i)
  <2>1. run[cur[i]] = "RUNNING"
    BY <1>3, WorksOnRunning DEF CalmWork, UpdatesRun, Resting, Settled
  <2> QED BY <2>1 DEF Deleted
<1>4. ~(At(i, "move") /\ NextDeleted(i))
  BY DEF CalmWork, NextIsStep, NextDeleted
<1> QED BY <1>1, <1>2, <1>3, <1>4 DEF Abandon

\* The enrollment of a RUNNING run has not failed.
LEMMA RunningNotFailed ==
    ASSUME SafeWork, NEW r \in RunIds, run[r] = "RUNNING"
    PROVE  status[r[1]] \in Open \cup Terminal
<1> USE DEF SafeWork
<1>1. r[1] \in Enrollments /\ r = <<r[1], r[2]>> /\ r[2] \in Nat
  BY RunIdParts
<1>2. status[r[1]] \in EnrollmentStatus /\ status[r[1]] # "NONE"
  BY <1>1 DEF TypedHands, StoreTypeOK, RowsBelong
<1>3. status[r[1]] # "FAILED"
  <2> SUFFICES ASSUME status[r[1]] = "FAILED" PROVE FALSE
    OBVIOUS
  <2>1. PICK s \in RunIds : s[1] = r[1] /\ run[s] = "FAILED"
    BY <1>1 DEF RowsBelong
  <2>2. s = <<s[1], s[2]>> /\ s[2] \in Nat
    BY RunIdParts
  <2>3. Later(r, s) \/ Later(s, r)
    BY <1>1, <2>1, <2>2 DEF Later
  <2> QED BY <2>1, <2>3 DEF LastRow, Unfinished
<1> QED BY <1>2, <1>3 DEF EnrollmentStatus, Open, Terminal

\* The instance goes on or back with its run: no row stops being live.
LEMMA StillLive ==
    ASSUME CalmWork, NEW i \in Instances, pc[i] \notin Settled, UNCHANGED status,
           \A j \in Instances : j # i => pc'[j] = pc[j] /\ cur'[j] = cur[j],
           \A r \in RunIds : Live(r) => Live(r)'
    PROVE  ActiveHasWork'
<1> SUFFICES ASSUME NEW e \in Enrollments, status[e] = "ACTIVE"
             PROVE  \/ \E r \in RunsOf(e) : Live(r)'
                    \/ \E j \in Instances : Advancing(j, e)'
  BY DEF ActiveHasWork, RunsOf
<1>1. CASE \E r \in RunsOf(e) : Live(r)
  BY <1>1 DEF RunsOf
<1>2. CASE \E j \in Instances : Advancing(j, e)
  BY <1>2 DEF Advancing, Settled, RunsOf
<1> QED BY <1>1, <1>2 DEF CalmWork, ActiveHasWork

\* One row stops being live, or one instance stops advancing: what remains of the
\* other enrollments' work.
LEMMA OthersLive ==
    ASSUME CalmWork, NEW i \in Instances, cur[i] \in RunIds, NEW f, f = cur[i][1],
           \A j \in Instances : j # i => pc'[j] = pc[j] /\ cur'[j] = cur[j],
           \A r \in RunIds : r # cur[i] /\ Live(r) => Live(r)',
           \A e \in Enrollments : e # f => status'[e] = status[e],
           status'[f] = "ACTIVE" => \/ \E r \in RunsOf(f) : Live(r)'
                                   \/ \E j \in Instances : Advancing(j, f)'
    PROVE  ActiveHasWork'
<1> SUFFICES ASSUME NEW e \in Enrollments, e # f, status[e] = "ACTIVE"
             PROVE  \/ \E r \in RunsOf(e) : Live(r)'
                    \/ \E j \in Instances : Advancing(j, e)'
  BY DEF ActiveHasWork, RunsOf
<1>1. CASE \E r \in RunsOf(e) : Live(r)
  BY <1>1 DEF RunsOf
<1>2. CASE \E j \in Instances : Advancing(j, e)
  BY <1>2 DEF Advancing, RunsOf
<1> QED BY <1>1, <1>2 DEF CalmWork, ActiveHasWork

LEMMA SchedulerActive ==
    ASSUME Calm, CalmWork, NEW i \in Instances, SchedulerStep(i)
    PROVE  ActiveHasWork'
<1> USE DEF CalmWork
<1>0. /\ run \in [RunIds -> RunStatus] /\ status \in [Enrollments -> EnrollmentStatus]
      /\ pc \in [Instances -> PcValue] /\ cur \in [Instances -> RunIds \cup {None}]
  BY DEF SafeWork, TypedHands, StoreTypeOK, SchedTypeOK
<1>a. \A j \in Instances : j # i => pc'[j] = pc[j] /\ cur'[j] = cur[j]
  BY SchedulerFrame DEF SafeWork
<1>1. CASE RecoverStuck(i) \/ Claim(i)
  <2>1. pc[i] \notin Settled /\ UNCHANGED status
    BY <1>1 DEF RecoverStuck, Claim, At, Settled
  <2>2. \A r \in RunIds : Live(r) => Live(r)'
    BY <1>1 DEF RecoverStuck, Claim, Live
  <2> QED BY <1>a, <2>1, <2>2, StillLive
<1>2. CASE \/ \E r \in batch[i] : TakeGone(i, r) \/ Take(i, r)
           \/ EndPass(i) \/ Check(i) \/ Prepare(i) \/ Refuse(i) \/ Send(i) \/ SendUnconfirmed(i)
  <2>1. pc[i] \notin Settled /\ UNCHANGED <<status, run>>
    BY <1>2 DEF TakeGone, Take, EndPass, Check, Prepare, Refuse, Send, SendUnconfirmed, At,
       Settled, storeVars
  <2> QED BY <1>a, <2>1, StillLive DEF Live
<1>3. CASE Requeue(i) \/ Defer(i) \/ Retry(i)
  <2>1. pc[i] \notin Settled \cup Resting /\ UNCHANGED status /\ Mark(cur[i], "QUEUED")
    BY <1>3 DEF Requeue, Defer, Retry, At, Settled, Resting
  <2>2. \A r \in RunIds : Live(r) => Live(r)'
    BY <1>0, <2>1 DEF Mark, Live
  <2> QED BY <1>a, <2>1, <2>2, StillLive
<1>4. CASE Cancel(i) \/ GiveUp(i) \/ RecordSent(i) \/ Skip(i)
  <2>1. PICK f : f = cur[i][1]
    OBVIOUS
  <2>2. cur[i] \in RunIds /\ f \in Enrollments
    BY <1>4, <2>1, CurIsRun, RunIdParts
       DEF Cancel, GiveUp, RecordSent, Skip, At, Resting, SafeWork
  <2>3. \A r \in RunIds : r # cur[i] /\ Live(r) => Live(r)'
    BY <1>0, <1>4 DEF Cancel, GiveUp, RecordSent, Skip, Mark, Live
  <2>4. \A e \in Enrollments : e # f => status'[e] = status[e]
    BY <1>4, <2>1 DEF Cancel, GiveUp, RecordSent, Skip, CloseOpen
  <2>5. CASE RecordSent(i) \/ Skip(i)
    <3>1. Advancing(i, f)'
      <4>1. pc' = [pc EXCEPT ![i] = "advance"] /\ UNCHANGED cur
        BY <2>5 DEF RecordSent, Skip, Goto, workVars
      <4> QED BY <1>0, <2>1, <2>2, <4>1 DEF Advancing, RunsOf
    <3> QED BY <1>a, <2>1, <2>2, <2>3, <2>4, <3>1, OthersLive
  <2>6. CASE Cancel(i) \/ GiveUp(i)
    <3>1. status'[f] # "ACTIVE"
      BY <1>0, <2>1, <2>2, <2>6 DEF Cancel, GiveUp, CloseOpen, DropsClosed, At, Terminal, Open
    <3> QED BY <1>a, <2>1, <2>2, <2>3, <2>4, <3>1, OthersLive
  <2> QED BY <1>4, <2>5, <2>6
<1>5. CASE Advance(i)
  <2>1. PICK f : f = cur[i][1]
    OBVIOUS
  <2>2. cur[i] \in RunIds
    BY <1>5, CurIsRun DEF Advance, At, Resting, SafeWork
  <2>3. UNCHANGED <<run, status, cur>> /\ pc' = [pc EXCEPT ![i] = "move"]
    BY <1>5 DEF Advance, storeVars, Goto
  <2>4. Advancing(i, f)'
    BY <1>0, <2>1, <2>2, <2>3 DEF Advancing, RunsOf
  <2> QED BY <1>a, <2>1, <2>2, <2>3, <2>4, OthersLive DEF Live
<1>6. CASE Move(i)
  <2>1. PICK f : f = cur[i][1]
    OBVIOUS
  <2>2. cur[i] \in RunIds /\ f \in Enrollments
    BY <1>6, <2>1, CurIsRun, RunIdParts DEF Move, At, Resting, SafeWork
  <2> DEFINE moved == status[f] \in Open
             R == IF moved /\ next[i] # 0 THEN {<<f, next[i]>>} ELSE {}
  <2>3. Schedule(R, {}) /\ status' = [status EXCEPT ![f] =
                                        IF moved /\ next[i] = 0 THEN "COMPLETED" ELSE @]
    BY <1>6, <2>1 DEF Move
  <2>4. \A r \in RunIds : Live(r) \/ r \in R => Live(r)'
    BY <2>3 DEF Schedule, Live
  <2>5. status'[f] = "ACTIVE" => \E r \in RunsOf(f) : Live(r)'
    <3> SUFFICES ASSUME status'[f] = "ACTIVE" PROVE \E r \in RunsOf(f) : Live(r)'
      OBVIOUS
    <3>1. moved /\ next[i] # 0
      BY <1>0, <2>2, <2>3 DEF Open
    <3>2. <<f, next[i]>> \in RunIds
      BY <1>6, <2>1, <3>1, NextHasNoRow DEF Move
    <3> QED BY <2>4, <3>1, <3>2 DEF RunsOf
  <2>6. \A e \in Enrollments : e # f => status'[e] = status[e]
    BY <1>0, <2>3
  <2> QED BY <1>a, <2>1, <2>2, <2>4, <2>5, <2>6, OthersLive
<1> QED BY <1>1, <1>2, <1>3, <1>4, <1>5, <1>6, CalmSteps DEF SchedulerStep, Execute

\* Only the move to the next step makes a row, and in the same campaign.
LEMMA SchedulerMakesRows ==
    ASSUME SafeWork, NEW i \in Instances, SchedulerStep(i),
           NEW r \in RunIds, run[r] = "NONE", run'[r] # "NONE"
    PROVE  \E s \in RunIds : CampaignIn(s) = CampaignIn(r) /\ run[s] # "NONE"
<1> USE DEF SafeWork
<1>0. run \in [RunIds -> RunStatus]
  BY DEF TypedHands, StoreTypeOK
<1>1. CASE RecoverStuck(i) \/ Claim(i)
  BY <1>1 DEF RecoverStuck, Claim, Due
<1>2. CASE Requeue(i) \/ Cancel(i) \/ RecordSent(i) \/ Skip(i) \/ Defer(i) \/ Retry(i) \/ GiveUp(i)
  <2>1. pc[i] \notin Resting \cup Settled
    BY <1>2 DEF Requeue, Cancel, RecordSent, Skip, Defer, Retry, GiveUp, At, Resting, Settled
  <2>2. run[cur[i]] = "RUNNING"
    BY <2>1, WorksOnRunning
  <2>3. r # cur[i] => run'[r] = run[r]
    BY <1>0, <1>2 DEF Requeue, Cancel, RecordSent, Skip, Defer, Retry, GiveUp, Mark
  <2> QED BY <2>2, <2>3
<1>3. CASE Move(i)
  <2>1. /\ At(i, "move") /\ cur[i] \in RunIds /\ run[cur[i]] # "NONE"
    <3>1. At(i, "move") /\ pc[i] \notin Resting
      BY <1>3 DEF Move, At, Resting
    <3>2. cur[i] \in RunIds /\ ~NotStarted(cur[i][1][1]) /\ Settling(i, cur[i])
      BY <3>1, WorksOnStarted DEF Settling, Settled, At
    <3> QED BY <3>1, <3>2 DEF HeldRuns
  <2>2. r[1] = cur[i][1]
    BY <1>3 DEF Move, Schedule
  <2> QED BY <2>1, <2>2 DEF CampaignIn
<1>4. CASE UNCHANGED run
  BY <1>4
<1>5. CASE \/ EndPass(i) \/ Crash(i) \/ \E s \in batch[i] : TakeGone(i, s) \/ Take(i, s)
           \/ Check(i) \/ Prepare(i) \/ Refuse(i) \/ Send(i) \/ SendUnconfirmed(i)
           \/ Advance(i) \/ Abandon(i)
  BY <1>4, <1>5 DEF EndPass, Crash, TakeGone, Take, Check, Prepare, Refuse, Send,
     SendUnconfirmed, Advance, Abandon, storeVars
<1> QED BY <1>1, <1>2, <1>3, <1>5 DEF SchedulerStep, Execute

LEMMA SchedulerCalm ==
    ASSUME Calm, CalmWork, NEW i \in Instances, SchedulerStep(i)
    PROVE  RowsRun' /\ DropsClosed' /\ NextIsStep'
<1> USE DEF CalmWork
<1>0. /\ UNCHANGED <<campaign, steps, req>>
      /\ \A j \in Instances : j # i =>
           pc'[j] = pc[j] /\ batch'[j] = batch[j] /\ cur'[j] = cur[j] /\ next'[j] = next[j]
      /\ pc \in [Instances -> PcValue] /\ next \in [Instances -> Positions \cup {0}]
      /\ steps \in [Campaigns -> SUBSET Positions]
  BY SchedulerFrame DEF SafeWork, TypedHands, SchedTypeOK, StoreTypeOK
<1>1. RowsRun'
  <2>1. ASSUME NEW r \in RunIds, run'[r] # "NONE" PROVE campaign[CampaignIn(r)] \in Running
    <3>1. CASE run[r] # "NONE"
      BY <3>1 DEF RowsRun
    <3>2. CASE run[r] = "NONE"
      <4>1. PICK s \in RunIds : CampaignIn(s) = CampaignIn(r) /\ run[s] # "NONE"
        BY <2>1, <3>2, SchedulerMakesRows
      <4> QED BY <4>1 DEF RowsRun
    <3> QED BY <3>1, <3>2
  <2> QED BY <1>0, <2>1 DEF RowsRun
<1>2. DropsClosed'
  <2>1. ASSUME NEW j \in Instances, pc'[j] = "cancel" PROVE status'[cur'[j][1]] \in Terminal
    <3>1. CASE Check(i) /\ j = i
      <4>1. /\ cur[i] \in RunIds /\ run[cur[i]] = "RUNNING" /\ UNCHANGED <<status, cur>>
        BY <3>1, WorksOnRunning DEF Check, At, Resting, Settled, storeVars, workVars
      <4>2. Verdict(cur[i][1]) = "cancel"
        BY <1>0, <2>1, <3>1 DEF Check, Goto
      <4>3. campaign[CampaignIn(cur[i])] \in Running /\ status[cur[i][1]] \in Open \cup Terminal
        BY <4>1, RunningNotFailed DEF RowsRun
      <4> QED BY <3>1, <4>1, <4>2, <4>3 DEF Verdict, Running, Open, CampaignIn
    <3>2. CASE ~(Check(i) /\ j = i)
      <4>1. pc[j] = "cancel" /\ cur'[j] = cur[j]
        <5>1. CASE j # i
          BY <1>0, <2>1, <5>1
        <5>2. CASE j = i
          <6>1. CASE Requeue(i) \/ Cancel(i) \/ Move(i) \/ Defer(i) \/ Retry(i) \/ GiveUp(i)
            BY <1>0, <2>1, <5>2, <6>1 DEF Requeue, Cancel, Move, Defer, Retry, GiveUp, Release
          <6>2. CASE Prepare(i) \/ Refuse(i) \/ Send(i) \/ SendUnconfirmed(i)
            BY <1>0, <2>1, <5>2, <6>2
               DEF Prepare, Refuse, Refusals, Send, SendUnconfirmed, Goto
          <6>3. CASE \/ RecoverStuck(i) \/ Claim(i) \/ EndPass(i) \/ RecordSent(i) \/ Skip(i)
                     \/ Advance(i) \/ \E r \in batch[i] : TakeGone(i, r) \/ Take(i, r)
            BY <1>0, <2>1, <5>2, <6>3
               DEF RecoverStuck, Claim, EndPass, TakeGone, Take, RecordSent, Skip, Advance, Goto
          <6> QED BY <3>2, <5>2, <6>1, <6>2, <6>3, CalmSteps DEF SchedulerStep, Execute
        <5> QED BY <5>1, <5>2
      <4>2. status[cur[j][1]] \in Terminal /\ cur[j][1] \in Enrollments
        BY <4>1, CurIsRun, RunIdParts DEF DropsClosed, At, Resting, SafeWork
      <4> QED BY <4>1, <4>2, SchedulerLeavesClosed DEF ClosedLeftAlone, SafeWork
    <3> QED BY <3>1, <3>2
  <2> QED BY <2>1 DEF DropsClosed, At
<1>3. NextIsStep'
  <2>1. ASSUME NEW j \in Instances, pc'[j] = "move", next'[j] # 0
        PROVE  next'[j] \in steps[CampaignIn(cur'[j])]
    <3>1. CASE Advance(i) /\ j = i
      <4>1. /\ cur[i] \in RunIds /\ UNCHANGED cur
            /\ next'[i] = NextIn(steps[CampaignIn(cur[i])], cur[i][2])
        BY <1>0, <3>1, CurIsRun DEF Advance, At, Resting, NextStep, SafeWork
      <4> QED BY <1>0, <2>1, <3>1, <4>1, RunIdParts, NextInIsLeast
    <3>2. CASE ~(Advance(i) /\ j = i)
      <4>1. j # i
        <5>1. j = i => pc'[i] # "move"
          BY <1>0, <3>2, CalmSteps
             DEF SchedulerStep, Execute, RecoverStuck, Claim, EndPass, TakeGone, Take, Check,
                 Verdict, Requeue, Cancel, Prepare, Refuse, Refusals, Send, SendUnconfirmed,
                 RecordSent, Skip, Move, Defer, Retry, GiveUp, Goto, Release
        <5> QED BY <2>1, <5>1
      <4> QED BY <1>0, <2>1, <4>1 DEF NextIsStep, At
    <3> QED BY <3>1, <3>2
  <2> QED BY <1>0, <2>1 DEF NextIsStep, At
<1> QED BY <1>1, <1>2, <1>3

-----------------------------------------------------------------------------
\* What the requests do to the work of an enrollment: rows that were live stay
\* so, except those of an enrollment that is stopped.
LEMMA StillWorked ==
    ASSUME CalmWork, UNCHANGED <<pc, cur>>,
           \A e \in Enrollments : status'[e] = "ACTIVE" =>
             \/ status[e] = "ACTIVE" /\ \A r \in RunsOf(e) : Live(r) => Live(r)'
             \/ \E r \in RunsOf(e) : Live(r)'
    PROVE  ActiveHasWork'
<1> SUFFICES ASSUME NEW e \in Enrollments, status[e] = "ACTIVE",
                    \A r \in RunsOf(e) : Live(r) => Live(r)'
             PROVE  \/ \E r \in RunsOf(e) : Live(r)'
                    \/ \E j \in Instances : Advancing(j, e)'
  BY DEF ActiveHasWork, RunsOf
<1>1. \A j \in Instances : Advancing(j, e) => Advancing(j, e)'
  BY DEF Advancing, RunsOf
<1> QED BY <1>1 DEF CalmWork, ActiveHasWork

\* Started or not, a dropped run's enrollment stays closed, and no step goes.
LEMMA StillClosed ==
    ASSUME CalmWork, UNCHANGED <<pc, cur, next>>,
           \A c \in Campaigns : steps[c] \subseteq steps'[c],
           \A r \in RunIds : /\ run[r] # "NONE" /\ status[r[1]] \in Terminal
                             => status'[r[1]] \in Terminal
    PROVE  DropsClosed' /\ NextIsStep'
<1> USE DEF CalmWork
<1>1. ASSUME NEW i \in Instances, pc[i] \in {"cancel", "move"}
      PROVE  cur[i] \in RunIds /\ (pc[i] = "cancel" => run[cur[i]] # "NONE")
  <2>1. pc[i] \notin Resting
    BY <1>1 DEF Resting
  <2>2. cur[i] \in RunIds
    BY <2>1, CurIsRun DEF SafeWork
  <2>3. pc[i] = "cancel" => run[cur[i]] = "RUNNING"
    BY <2>1, WorksOnRunning DEF Settled
  <2> QED BY <2>2, <2>3
<1>2. DropsClosed'
  BY <1>1 DEF DropsClosed, At
<1>3. NextIsStep'
  BY <1>1, RunIdParts DEF NextIsStep, At
<1> QED BY <1>2, <1>3

LEMMA RequestCalm ==
    ASSUME Calm, CalmWork, NEW q \in Requests, BeginRequest(q) \/ CommitRequest(q)
    PROVE  RowsRun' /\ DropsClosed' /\ NextIsStep' /\ ActiveHasWork'
<1> USE DEF CalmWork, SafeWork
<1> DEFINE w == req[q]
<1>0. /\ w \in Request /\ run \in [RunIds -> RunStatus] /\ campaign \in [Campaigns -> CampaignStatus]
      /\ status \in [Enrollments -> EnrollmentStatus] /\ req \in [Requests -> Request]
      /\ \A x \in Requests : x = q
      /\ steps \in [Campaigns -> SUBSET Positions]
  BY DEF TypedHands, StoreTypeOK, RequestsOK, RequestTypeOK, Calm, Orderly
<1>a. UNCHANGED schedVars => UNCHANGED <<pc, cur, next>>
  BY DEF schedVars
<1>b. ASSUME UNCHANGED storeVars, UNCHANGED schedVars
      PROVE  DropsClosed' /\ NextIsStep' /\ ActiveHasWork'
  BY <1>a, <1>b, StillClosed, StillWorked DEF storeVars, Live
<1>c. Finish(q) => \A x \in Requests : req'[x].op = "idle"
  BY <1>0 DEF Finish, NoRequest
<1>d. ASSUME Finish(q), UNCHANGED storeVars PROVE RowsRun'
  BY <1>c, <1>d DEF storeVars, RowsRun
<1>1. CASE BeginRequest(q)
  <2>1. UNCHANGED schedVars
    BY <1>1 DEF BeginRequest, EnrollBegin, StartBegin, RemoveStepBegin, RemoveBegin,
       StopBegin, RetryBegin, ReplyArrives, OptOutBegin
  <2>2. UNCHANGED <<campaign, steps, status, run>>
    BY <1>1 DEF BeginRequest, EnrollBegin, StartBegin, RemoveStepBegin, RemoveBegin,
       StopBegin, RetryBegin, ReplyArrives, OptOutBegin, storeVars
  <2>3. ASSUME req'[q].op = "enroll", req'[q].active
        PROVE  campaign[req'[q].c] \in Running
    <3>1. PICK c \in Campaigns, L \in SUBSET Leads : EnrollBegin(q, c, L)
      <4>1. ASSUME NEW c \in Campaigns, StartBegin(q, c) \/ RemoveBegin(q, c) PROVE FALSE
        <5>1. req'[q].op \in {"start", "remove"}
          BY ZenonT(60), <1>0, <4>1 DEF StartBegin, RemoveBegin, NoRequest
        <5> QED BY <2>3, <5>1
      <4>2. \A c \in Campaigns, p \in Positions : ~RemoveStepBegin(q, c, p)
        BY <1>0, <2>3 DEF RemoveStepBegin, NoRequest
      <4>3. ASSUME NEW e \in Enrollments, StopBegin(q, e) \/ RetryBegin(q, e) PROVE FALSE
        <5>1. req'[q].op \in {"stop", "retry"}
          BY ZenonT(60), <1>0, <4>3 DEF StopBegin, RetryBegin, NoRequest
        <5> QED BY <2>3, <5>1
      <4>4. \A l \in Leads : ~ReplyArrives(q, l) /\ ~OptOutBegin(q, l)
        BY ZenonT(60), <1>0, <2>3 DEF ReplyArrives, OptOutBegin, NoRequest
      <4> QED BY <1>1, <4>1, <4>2, <4>3, <4>4 DEF BeginRequest
    <3>2. req'[q].c = c /\ req'[q].active = (campaign[c] = "ACTIVE")
      BY <1>0, <3>1 DEF EnrollBegin, NoRequest
    <3> QED BY <2>3, <3>2 DEF Running
  <2>4. RowsRun'
    BY <1>0, <2>2, <2>3 DEF RowsRun
  <2>5. DropsClosed' /\ NextIsStep'
    BY <1>a, <2>1, <2>2, StillClosed
  <2>6. ActiveHasWork'
    BY <1>a, <2>1, <2>2, StillWorked DEF Live
  <2> QED BY <2>4, <2>5, <2>6
<1>2. CASE EnrollCommit(q)
  <2>0. UNCHANGED schedVars /\ Finish(q)
    BY <1>2 DEF EnrollCommit
  <2>1. CASE EnrollFails(w)
    BY <1>2, <1>b, <1>d, <2>0, <2>1 DEF EnrollCommit
  <2>2. CASE ~EnrollFails(w)
    <3> DEFINE R == IF w.active THEN w.who \X {w.p} ELSE {}
    <3>1. /\ Schedule(R, {}) /\ UNCHANGED <<campaign, steps>> /\ w.op = "enroll"
          /\ status' = [e \in Enrollments |->
                          IF e \notin w.who THEN status[e]
                          ELSE IF w.active THEN "ACTIVE" ELSE "PAUSED"]
      BY <1>2, <2>2 DEF EnrollCommit, Pending
    <3>2. /\ w.c \in Campaigns /\ (w.active => w.p \in Positions)
          /\ \A e \in w.who : e[1] = w.c /\ e \in Enrollments /\ status[e] = "NONE"
      BY <1>0, <2>2, <3>1 DEF TypedHands, RequestsOK, RequestTargets, EnrollFails,
         RequestKnows, Request
    <3>3. \A r \in RunIds : run'[r] # "NONE" => run[r] # "NONE" \/ (w.active /\ r[1] \in w.who)
      BY <3>1 DEF Schedule
    <3>4. RowsRun'
      BY <1>c, <2>0, <3>1, <3>2, <3>3 DEF RowsRun, CampaignIn, CampaignOf
    <3>5. DropsClosed' /\ NextIsStep'
      <4>1. \A r \in RunIds : r[1] \in Enrollments
        BY RunIdParts
      <4> QED BY <1>a, <2>0, <3>1, <3>2, <4>1, StillClosed DEF Terminal
    <3>6. ActiveHasWork'
      <4>1. \A r \in RunIds : Live(r) \/ r \in R => Live(r)'
        BY <3>1 DEF Schedule, Live
      <4>2. ASSUME NEW e \in w.who, status'[e] = "ACTIVE" PROVE \E r \in RunsOf(e) : Live(r)'
        <5>1. <<e, w.p>> \in RunIds /\ <<e, w.p>> \in R
          BY <3>1, <3>2, <4>2 DEF RunIds
        <5> QED BY <4>1, <5>1 DEF RunsOf
      <4> QED BY <1>a, <2>0, <3>1, <4>1, <4>2, StillWorked DEF RunsOf
    <3> QED BY <3>4, <3>5, <3>6
  <2> QED BY <2>1, <2>2
<1>3. CASE StartCommit(q)
  <2> DEFINE R == StartQueues(w)
             fails == ~Exists(w.c) \/ \E r \in R : r[2] \notin steps[w.c]
  <2>0. UNCHANGED schedVars /\ Finish(q) /\ w.op = "start"
    BY <1>3 DEF StartCommit, Pending
  <2>1. CASE fails
    BY <1>3, <1>b, <1>d, <2>0, <2>1 DEF StartCommit
  <2>2. CASE ~fails
    <3>1. /\ Schedule(R, {r \in R : run[r] = "QUEUED"}) /\ UNCHANGED steps
          /\ campaign' = [campaign EXCEPT ![w.c] = "ACTIVE"]
          /\ status' = [e \in Enrollments |->
                          IF e \notin w.who THEN status[e]
                          ELSE IF StartNext(w, e) = 0 THEN "COMPLETED" ELSE "ACTIVE"]
      BY <1>3, <2>2 DEF StartCommit
    <3>2. /\ w.c \in Campaigns
          /\ \A e \in w.who : e[1] = w.c /\ e \in Enrollments
          /\ \A r \in RunIds : r[1][1] = w.c => run[r] = "NONE"
      BY <1>0, <2>0 DEF TypedHands, RequestsOK, RequestTargets, RequestKnows, Request,
         BeforeStart, NotStarted
    <3>3. \A r \in RunIds : run'[r] # "NONE" => run[r] # "NONE" \/ r[1] \in w.who
      BY <3>1 DEF Schedule, StartQueues
    <3>4. RowsRun'
      <4>1. \A c \in Campaigns : campaign[c] \in Running \/ c = w.c => campaign'[c] \in Running
        BY <1>0, <3>1 DEF Running
      <4>2. \A r \in RunIds : CampaignIn(r) \in Campaigns /\ CampaignIn(r) = r[1][1]
        BY RunIdParts DEF CampaignIn, CampaignOf
      <4>3. \A r \in RunIds : run'[r] # "NONE" => campaign'[CampaignIn(r)] \in Running
        BY <3>2, <3>3, <4>1, <4>2 DEF RowsRun
      <4> QED BY <1>c, <2>0, <4>3 DEF RowsRun
    <3>5. DropsClosed' /\ NextIsStep'
      <4>1. \A r \in RunIds : r[1] \in Enrollments
        BY RunIdParts
      <4> QED BY <1>a, <2>0, <3>1, <3>2, <4>1, StillClosed
    <3>6. ActiveHasWork'
      <4>1. \A r \in RunIds : Live(r) \/ r \in R => Live(r)'
        BY <3>1 DEF Schedule, Live
      <4>2. ASSUME NEW e \in w.who, status'[e] = "ACTIVE" PROVE \E r \in RunsOf(e) : Live(r)'
        <5>1. StartNext(w, e) \in Positions
          <6>1. w.steps \in SUBSET Positions /\ w.at[e] \in Positions \cup {0}
            BY <1>0, <3>2 DEF Request
          <6> QED BY <3>1, <3>2, <4>2, <6>1, NextInType DEF StartNext
        <5>2. <<e, StartNext(w, e)>> \in RunIds /\ <<e, StartNext(w, e)>> \in R
          BY <3>2, <5>1 DEF RunIds, StartQueues
        <5> QED BY <4>1, <5>2 DEF RunsOf
      <4> QED BY <1>a, <2>0, <3>1, <4>1, <4>2, StillWorked DEF RunsOf
    <3> QED BY <3>4, <3>5, <3>6
  <2> QED BY <2>1, <2>2
<1>4. CASE RetryCommit(q)
  <2>0. UNCHANGED schedVars /\ Finish(q) /\ w.op = "retry"
    BY <1>4 DEF RetryCommit, Pending
  <2>1. PICK e \in w.who :
          \/ UNCHANGED storeVars
          \/ /\ w.p \in steps[CampaignOf(e)]
             /\ Schedule({<<e, w.p>>}, {})
             /\ status' = [status EXCEPT ![e] = IF w.active THEN "ACTIVE" ELSE "PAUSED"]
             /\ UNCHANGED <<campaign, steps>>
    BY <1>4 DEF RetryCommit
  <2>2. CASE UNCHANGED storeVars
    BY <1>b, <1>d, <2>0, <2>2
  <2>3. CASE /\ w.p \in steps[CampaignOf(e)]
             /\ Schedule({<<e, w.p>>}, {})
             /\ status' = [status EXCEPT ![e] = IF w.active THEN "ACTIVE" ELSE "PAUSED"]
             /\ UNCHANGED <<campaign, steps>>
    <3>1. e \in Enrollments /\ <<e, w.p>> \in RunIds
      BY <1>0, <2>3 DEF Request, CampaignOf, RunIds, Enrollments
    <3>2. run[<<e, w.p>>] = "FAILED" /\ status[e] = "FAILED"
      BY <2>0, <3>1 DEF RequestKnows
    <3>3. RowsRun'
      <4>1. \A r \in RunIds : run'[r] # "NONE" => run[r] # "NONE"
        BY <2>3, <3>2 DEF Schedule
      <4> QED BY <1>c, <2>0, <2>3, <4>1 DEF RowsRun
    <3>4. DropsClosed' /\ NextIsStep'
      <4>1. \A r \in RunIds : status[r[1]] \in Terminal => status'[r[1]] = status[r[1]]
        BY <1>0, <2>3, <3>1, <3>2, RunIdParts DEF Terminal
      <4> QED BY <1>a, <2>0, <2>3, <4>1, StillClosed
    <3>5. ActiveHasWork'
      <4>1. \A r \in RunIds : Live(r) \/ r = <<e, w.p>> => Live(r)'
        BY <2>3 DEF Schedule, Live
      <4>2. \E r \in RunsOf(e) : Live(r)'
        BY <3>1, <4>1 DEF RunsOf
      <4>3. \A f \in Enrollments : f # e => status'[f] = status[f]
        BY <1>0, <2>3
      <4> QED BY <1>a, <2>0, <4>1, <4>2, <4>3, StillWorked DEF RunsOf
    <3> QED BY <3>3, <3>4, <3>5
  <2> QED BY <2>1, <2>2, <2>3
<1>5. CASE StopCommit(q)
  <2>0. UNCHANGED schedVars /\ Finish(q)
    BY <1>5 DEF StopCommit
  <2>1. PICK e \in w.who :
          \/ UNCHANGED storeVars
          \/ /\ run' = [r \in RunIds |-> IF r \in RunsOf(e) /\ run[r] = "QUEUED"
                                         THEN "CANCELED" ELSE run[r]]
             /\ status' = [status EXCEPT ![e] = "STOPPED"]
             /\ UNCHANGED <<campaign, steps>>
    BY <1>5 DEF StopCommit
  <2>2. CASE UNCHANGED storeVars
    BY <1>b, <1>d, <2>0, <2>2
  <2>3. CASE /\ run' = [r \in RunIds |-> IF r \in RunsOf(e) /\ run[r] = "QUEUED"
                                         THEN "CANCELED" ELSE run[r]]
             /\ status' = [status EXCEPT ![e] = "STOPPED"]
             /\ UNCHANGED <<campaign, steps>>
    <3>1. e \in Enrollments
      BY <1>0 DEF Request
    <3>2. RowsRun'
      <4>1. \A r \in RunIds : run'[r] # "NONE" => run[r] # "NONE"
        BY <2>3
      <4> QED BY <1>c, <2>0, <2>3, <4>1 DEF RowsRun
    <3>3. DropsClosed' /\ NextIsStep'
      <4>1. \A r \in RunIds : status[r[1]] \in Terminal => status'[r[1]] \in Terminal
        BY <1>0, <2>3, <3>1, RunIdParts DEF Terminal
      <4> QED BY <1>a, <2>0, <2>3, <4>1, StillClosed
    <3>4. ActiveHasWork'
      <4>1. status'[e] # "ACTIVE"
        BY <1>0, <2>3, <3>1
      <4>2. \A f \in Enrollments : f # e => status'[f] = status[f]
        BY <1>0, <2>3, <3>1
      <4>3. ASSUME NEW f \in Enrollments, f # e, NEW r \in RunsOf(f), Live(r) PROVE Live(r)'
        BY <2>3, <4>3 DEF RunsOf, Live
      <4> QED BY <1>a, <2>0, <4>1, <4>2, <4>3, StillWorked
    <3> QED BY <3>2, <3>3, <3>4
  <2> QED BY <2>1, <2>2, <2>3
<1>6. CASE ReplyMarksLead(q) \/ ReplyClosesCadences(q) \/ OptOutCommit(q)
  <2>1. /\ UNCHANGED schedVars /\ UNCHANGED <<campaign, steps, run>>
        /\ \A e \in Enrollments :
             /\ status'[e] = "ACTIVE" => status[e] = "ACTIVE"
             /\ status[e] \in Terminal => status'[e] \in Terminal
    BY <1>6 DEF ReplyMarksLead, ReplyClosesCadences, OptOutCommit, CloseOpen, Open, Terminal
  <2>2. req'[q].op \in {"idle", "marked"}
    <3>1. ReplyMarksLead(q) => req'[q].op = "marked"
      BY <1>0 DEF ReplyMarksLead, Request
    <3>2. ~ReplyMarksLead(q) => Finish(q)
      BY <1>6 DEF ReplyClosesCadences, OptOutCommit
    <3> QED BY <1>c, <3>1, <3>2
  <2>3. RowsRun'
    BY <1>0, <2>1, <2>2 DEF RowsRun
  <2>4. DropsClosed' /\ NextIsStep'
    BY <1>a, <2>1, StillClosed, RunIdParts
  <2>5. ActiveHasWork'
    BY <1>a, <2>1, StillWorked DEF Live
  <2> QED BY <2>3, <2>4, <2>5
<1>7. ~RemoveStepCommit(q) /\ ~RemoveCommit(q)
  BY DEF Calm, Orderly, RequestKnows, RemoveStepCommit, RemoveCommit, Pending
<1> QED BY <1>1, <1>2, <1>3, <1>4, <1>5, <1>6, <1>7 DEF CommitRequest

LEMMA AtomicCalm ==
    ASSUME CalmWork, NEW c \in Campaigns, AtomicRequest(c)
    PROVE  RowsRun' /\ DropsClosed' /\ NextIsStep' /\ ActiveHasWork'
<1> USE DEF CalmWork, SafeWork, TypedHands, StoreTypeOK
<1>1. UNCHANGED schedVars /\ UNCHANGED <<run, req>>
  BY DEF AtomicRequest, Pause, AddStep, requestVars
<1>2. \A d \in Campaigns : /\ campaign[d] \in Running => campaign'[d] \in Running
                           /\ steps[d] \subseteq steps'[d]
  BY DEF AtomicRequest, Pause, AddStep, Running
<1>3. \A e \in Enrollments : /\ status'[e] = "ACTIVE" => status[e] = "ACTIVE"
                             /\ status[e] \in Terminal => status'[e] \in Terminal
  BY DEF AtomicRequest, Pause, AddStep, Terminal
<1>4. RowsRun'
  BY <1>1, <1>2, RunIdParts DEF RowsRun, RequestsOK, RequestTargets
<1>5. DropsClosed' /\ NextIsStep'
  BY <1>1, <1>2, <1>3, StillClosed, RunIdParts DEF schedVars
<1>6. ActiveHasWork'
  BY <1>1, <1>3, StillWorked DEF schedVars, Live
<1> QED BY <1>4, <1>5, <1>6

LEMMA CalmInit == Init => CalmWork
<1>1. Init => RowsRun /\ DropsClosed /\ NextIsStep /\ ActiveHasWork
  BY DEF Init, StoreInit, SchedInit, RequestInit, RowsRun, DropsClosed, NextIsStep,
     ActiveHasWork, NoRequest, At
<1> QED BY <1>1, SafeInit DEF CalmWork

LEMMA CalmNext == Calm /\ CalmWork /\ [Next]_vars => CalmWork'
<1> SUFFICES ASSUME Calm, CalmWork, [Next]_vars PROVE CalmWork'
  OBVIOUS
<1>1. SafeWork'
  BY SafeNext DEF Calm, CalmWork
<1>2. ASSUME NEW i \in Instances, SchedulerStep(i)
      PROVE  RowsRun' /\ DropsClosed' /\ NextIsStep' /\ ActiveHasWork'
  BY <1>2, SchedulerCalm, SchedulerActive
<1>3. ASSUME NEW q \in Requests, BeginRequest(q) \/ CommitRequest(q)
      PROVE  RowsRun' /\ DropsClosed' /\ NextIsStep' /\ ActiveHasWork'
  BY <1>3, RequestCalm
<1>4. ASSUME NEW c \in Campaigns, AtomicRequest(c)
      PROVE  RowsRun' /\ DropsClosed' /\ NextIsStep' /\ ActiveHasWork'
  BY <1>4, AtomicCalm
<1>5. \A q \in Requests : ~RequestDies(q)
  BY DEF RequestDies, Fault, Calm
<1>6. ASSUME UNCHANGED vars \/ \E r \in RunIds : Age(r)
      PROVE  RowsRun' /\ DropsClosed' /\ NextIsStep' /\ ActiveHasWork'
  <2>1. UNCHANGED <<campaign, steps, status, run, req, pc, cur, next>>
    BY <1>6 DEF vars, storeVars, schedVars, requestVars, Age, workVars
  <2>2. RowsRun'
    BY <2>1 DEF CalmWork, RowsRun
  <2>3. DropsClosed' /\ NextIsStep'
    BY <2>1, StillClosed
  <2>4. ActiveHasWork'
    BY <2>1, StillWorked DEF Live
  <2> QED BY <2>2, <2>3, <2>4
<1> QED BY <1>1, <1>2, <1>3, <1>4, <1>5, <1>6 DEF Next, CalmWork

\* "The database is the schedule" (sequence.planner.ts:8): as long as no process
\* dies and no statement fails, an enrollment shown as running always has a row
\* that will be executed, or an instance that is about to move it on, whatever the
\* instances, requests, pauses, replies and unconfirmed sends do.
THEOREM NothingIsLeftBehind == ASSUME Calm PROVE Spec => []ActiveHasWork
<1>1. CalmWork /\ [Next]_vars => CalmWork'
  BY CalmNext
<1>2. CalmWork => ActiveHasWork
  BY DEF CalmWork
<1> QED BY <1>1, <1>2, CalmInit, PTL DEF Spec

-----------------------------------------------------------------------------
\* Attempts.  The steps of an instance with a run in hand and no outcome yet.
LEMMA HeldRunCounts ==
    ASSUME CountedWork, NEW i \in Instances, pc[i] \notin Resting \cup Settled
    PROVE  /\ cur[i] \in RunIds /\ run[cur[i]] = "RUNNING"
           /\ tries[i] = attempts[cur[i]] /\ attempts[cur[i]] \in Int
           /\ attempts[cur[i]] >= 1
           /\ attempts[cur[i]] <= MaxAttempts \/ attempts[cur[i]] = 1
<1>1. cur[i] \in RunIds /\ run[cur[i]] = "RUNNING" /\ Working(i, cur[i])
  BY WorksOnRunning DEF CountedWork, CalmWork, Working
<1> QED BY <1>1 DEF CountedWork, TriesKnown, ClaimTook, CalmWork, SafeWork, TypedHands,
        StoreTypeOK

\* An instance that finished with its run leaves the others in the hands they are
\* in, and has written what the run may use next.
LEMMA LetsGoCounted ==
    ASSUME CountedWork, NEW i \in Instances, pc[i] \notin Resting \cup Settled,
           SchedulerStep(i), NEW s \in {"QUEUED", "CANCELED", "FAILED"},
           Mark(cur[i], s), Release(i),
           \/ UNCHANGED attempts
           \/ attempts' = [attempts EXCEPT ![cur[i]] = @ - 1],
           s = "QUEUED" => attempts'[cur[i]] < attempts[cur[i]] \/ tries[i] < MaxAttempts
    PROVE  RunningIsHeld' /\ TriesKnown' /\ ClaimTook' /\ AttemptBudget'
<1> USE DEF CountedWork, CalmWork, SafeWork
<1> PICK c \in RunIds : c = cur[i]
  BY HeldRunCounts
<1>0. /\ run \in [RunIds -> RunStatus] /\ attempts \in [RunIds -> Int]
      /\ pc \in [Instances -> PcValue] /\ cur \in [Instances -> RunIds \cup {None}]
      /\ tries \in [Instances -> Int] /\ batch \in [Instances -> SUBSET RunIds]
      /\ MaxAttempts \in Nat
  BY MaxAttemptsAssumption DEF TypedHands, StoreTypeOK, SchedTypeOK
<1>1. \A j \in Instances : j # i =>
        pc'[j] = pc[j] /\ batch'[j] = batch[j] /\ cur'[j] = cur[j] /\ tries'[j] = tries[j]
  BY SchedulerFrame
<1>2. run' = [run EXCEPT ![c] = s]
  BY DEF Mark
<1>3. \A r \in RunIds : r # c => run'[r] = run[r] /\ attempts'[r] = attempts[r]
  BY <1>0, <1>2
<1>4. RunningIsHeld'
  <2>1. ASSUME NEW r \in RunIds, run'[r] = "RUNNING"
        PROVE  \E j \in Instances : r \in batch'[j] \/ Working(j, r)'
    <3>1. r # c /\ run[r] = "RUNNING"
      BY <1>0, <1>2, <2>1
    <3>2. PICK j \in Instances : r \in batch[j] \/ Working(j, r)
      BY <3>1 DEF RunningIsHeld
    <3>3. CASE j = i
      BY <1>0, <3>1, <3>2, <3>3 DEF Working, Release
    <3>4. CASE j # i
      BY <1>1, <3>2, <3>4 DEF Working
    <3> QED BY <3>3, <3>4
  <2> QED BY <2>1 DEF RunningIsHeld
<1>5. TriesKnown'
  <2>1. ASSUME NEW j \in Instances, NEW r \in RunIds, Working(j, r)'
        PROVE  tries'[j] = attempts'[r]
    <3>1. j # i
      BY <1>0, <2>1, RunIdParts DEF Working, Release
    <3>2. Working(j, r)
      BY <1>1, <2>1, <3>1 DEF Working
    <3>3. r # c
      BY <3>1, <3>2 DEF Working, ExclusiveWork, Holds
    <3> QED BY <1>1, <1>3, <3>1, <3>2, <3>3 DEF TriesKnown
  <2> QED BY <2>1 DEF TriesKnown
<1>6. ClaimTook'
  BY <1>0, <1>2, <1>3 DEF ClaimTook
<1>7. AttemptBudget'
  <2>1. ASSUME NEW r \in RunIds, run'[r] = "QUEUED"
        PROVE  attempts'[r] >= 0 /\ (attempts'[r] < MaxAttempts \/ attempts'[r] = 0)
    <3>1. CASE r # c
      BY <1>3, <2>1, <3>1 DEF AttemptBudget
    <3>2. CASE r = c
      <4>1. s = "QUEUED"
        BY <1>0, <1>2, <2>1, <3>2
      <4> QED BY <1>0, <3>2, <4>1, HeldRunCounts
    <3> QED BY <3>1, <3>2
  <2> QED BY <2>1 DEF AttemptBudget
<1> QED BY <1>4, <1>5, <1>6, <1>7

\* The rows and the hands stay as they are; an instance may go on with its run.
LEMMA StillCounted ==
    ASSUME CountedWork, UNCHANGED <<run, attempts, batch, cur, tries>>,
           \A j \in Instances : pc[j] \in Settled <=> pc'[j] \in Settled
    PROVE  RunningIsHeld' /\ TriesKnown' /\ ClaimTook' /\ AttemptBudget'
BY DEF CountedWork, RunningIsHeld, TriesKnown, ClaimTook, AttemptBudget, Working

\* Rows that nobody holds are queued afresh, or queued rows canceled.
LEMMA RowsCounted ==
    ASSUME CountedWork, UNCHANGED <<pc, batch, cur, tries>>,
           \A r \in RunIds :
             \/ run'[r] = run[r] /\ attempts'[r] = attempts[r]
             \/ /\ run[r] # "RUNNING" /\ run'[r] # "RUNNING"
                /\ run'[r] = "QUEUED" => attempts'[r] = 0 \/ run[r] = "QUEUED"
                /\ attempts'[r] = attempts[r] \/ attempts'[r] = 0
    PROVE  RunningIsHeld' /\ TriesKnown' /\ ClaimTook' /\ AttemptBudget'
<1> USE DEF CountedWork, CalmWork, SafeWork
<1>1. RunningIsHeld'
  BY DEF RunningIsHeld, Working
<1>2. TriesKnown'
  <2>1. \A j \in Instances : \A r \in RunIds : Working(j, r)' => Working(j, r) /\ run[r] = "RUNNING"
    BY DEF Working, HeldRuns
  <2> QED BY <2>1 DEF TriesKnown
<1>3. ClaimTook'
  BY DEF ClaimTook
<1>4. AttemptBudget'
  BY MaxAttemptsAssumption DEF AttemptBudget
<1> QED BY <1>1, <1>2, <1>3, <1>4

LEMMA MoveCounted ==
    ASSUME CountedWork, NEW i \in Instances, Move(i)
    PROVE  RunningIsHeld' /\ TriesKnown' /\ ClaimTook' /\ AttemptBudget'
<1> USE DEF CountedWork, CalmWork, SafeWork
<1>0. /\ pc \in [Instances -> PcValue] /\ cur \in [Instances -> RunIds \cup {None}]
      /\ batch \in [Instances -> SUBSET RunIds]
  BY DEF TypedHands, SchedTypeOK
<1>1. \A j \in Instances : j # i =>
        pc'[j] = pc[j] /\ batch'[j] = batch[j] /\ cur'[j] = cur[j] /\ tries'[j] = tries[j]
  BY SchedulerFrame DEF SchedulerStep, Execute
<1>2. Release(i) /\ pc[i] = "move"
  BY DEF Move, At
<1> DEFINE R == IF status[cur[i][1]] \in Open /\ next[i] # 0
                THEN {<<cur[i][1], next[i]>>} ELSE {}
<1>3. Schedule(R, {}) /\ \A r \in R : r \in RunIds /\ run[r] = "NONE"
  BY NextHasNoRow DEF Move, At
<1>4. \A r \in RunIds : \/ r \notin R /\ run'[r] = run[r] /\ attempts'[r] = attempts[r]
                        \/ run[r] = "NONE" /\ run'[r] = "QUEUED" /\ attempts'[r] = 0
  BY <1>3 DEF Schedule
<1>5. \A j \in Instances : \A r \in RunIds :
        Working(j, r)' <=> j # i /\ Working(j, r)
  <2>1. \A r \in RunIds : ~Working(i, r)'
    BY <1>0, <1>2, RunIdParts DEF Working, Release
  <2> QED BY <1>1, <2>1 DEF Working
<1>6. \A r \in RunIds : ~Working(i, r)
  BY <1>2 DEF Working, Settled
<1>7. batch' = batch
  BY <1>2 DEF Release
<1>8. RunningIsHeld'
  BY <1>4, <1>5, <1>6, <1>7 DEF RunningIsHeld
<1>9. TriesKnown'
  <2>1. ASSUME NEW j \in Instances, NEW r \in RunIds, Working(j, r)'
        PROVE  tries'[j] = attempts'[r]
    <3>1. j # i /\ Working(j, r) /\ run[r] = "RUNNING"
      BY <1>5, <2>1 DEF HeldRuns
    <3> QED BY <1>1, <1>4, <3>1 DEF TriesKnown
  <2> QED BY <2>1 DEF TriesKnown
<1>10. ClaimTook'
  BY <1>4 DEF ClaimTook
<1>11. AttemptBudget'
  BY <1>4, MaxAttemptsAssumption DEF AttemptBudget
<1> QED BY <1>8, <1>9, <1>10, <1>11

LEMMA SchedulerCounted ==
    ASSUME Calm, CountedWork, NEW i \in Instances, SchedulerStep(i)
    PROVE  RunningIsHeld' /\ TriesKnown' /\ ClaimTook' /\ AttemptBudget'
<1> USE DEF CountedWork, CalmWork, SafeWork
<1>0. /\ run \in [RunIds -> RunStatus] /\ attempts \in [RunIds -> Int]
      /\ pc \in [Instances -> PcValue] /\ cur \in [Instances -> RunIds \cup {None}]
      /\ tries \in [Instances -> Int] /\ batch \in [Instances -> SUBSET RunIds]
      /\ MaxAttempts \in Nat
  BY MaxAttemptsAssumption DEF TypedHands, StoreTypeOK, SchedTypeOK
<1>a. \A j \in Instances : j # i =>
        pc'[j] = pc[j] /\ batch'[j] = batch[j] /\ cur'[j] = cur[j] /\ tries'[j] = tries[j]
  BY SchedulerFrame
<1>1. CASE RecoverStuck(i) \/ EndPass(i) \/ Check(i) \/ Prepare(i) \/ Refuse(i) \/ Send(i)
           \/ SendUnconfirmed(i)
  <2>1. RecoverStuck(i) => UNCHANGED run
    <3>1. \A r \in RunIds : ~(run[r] = "RUNNING" /\ r \in old)
      BY DEF RunningIsHeld, HeldRuns
    <3> QED BY <1>0, <3>1 DEF RecoverStuck
  <2>2. UNCHANGED <<run, attempts, batch, cur, tries>>
    BY <1>1, <2>1 DEF RecoverStuck, EndPass, Check, Prepare, Refuse, Send, SendUnconfirmed,
       storeVars, workVars
  <2>3. pc[i] \notin Settled /\ pc'[i] \notin Settled
    BY <1>0, <1>1 DEF RecoverStuck, EndPass, Check, Verdict, Prepare, Refuse, Refusals, Send,
       SendUnconfirmed, At, Goto, Settled
  <2> QED BY <1>a, <2>2, <2>3, StillCounted
<1>2. CASE Claim(i)
  <2>1. PICK S \in SUBSET Due :
          /\ run' = [r \in RunIds |-> IF r \in S THEN "RUNNING" ELSE run[r]]
          /\ attempts' = [r \in RunIds |-> IF r \in S THEN attempts[r] + 1 ELSE attempts[r]]
          /\ batch' = [batch EXCEPT ![i] = S]
    BY <1>2 DEF Claim
  <2>2. /\ UNCHANGED <<cur, tries>> /\ cur[i] = None /\ batch[i] = {}
        /\ \A j \in Instances : pc'[j] \in Settled <=> pc[j] \in Settled
        /\ \A r \in S : r \in RunIds /\ run[r] = "QUEUED"
    BY <1>0, <1>2, <1>a DEF Claim, At, Goto, Settled, TypedHands, HandsOK, Resting, Due
  <2>3. \A j \in Instances : \A r \in RunIds : Working(j, r)' <=> Working(j, r)
    BY <2>2 DEF Working
  <2>4. RunningIsHeld'
    <3>1. ASSUME NEW r \in RunIds, run'[r] = "RUNNING"
          PROVE  \E j \in Instances : r \in batch'[j] \/ Working(j, r)'
      <4>1. CASE r \in S
        BY <1>0, <2>1, <4>1
      <4>2. CASE r \notin S
        <5>1. PICK j \in Instances : r \in batch[j] \/ Working(j, r)
          BY <2>1, <3>1, <4>2 DEF RunningIsHeld
        <5> QED BY <1>0, <2>1, <2>2, <2>3, <5>1
      <4> QED BY <4>1, <4>2
    <3> QED BY <3>1 DEF RunningIsHeld
  <2>5. TriesKnown'
    <3>1. ASSUME NEW j \in Instances, NEW r \in RunIds, Working(j, r)'
          PROVE  tries'[j] = attempts'[r]
      <4>1. Working(j, r) /\ run[r] = "RUNNING"
        BY <2>3, <3>1 DEF HeldRuns
      <4> QED BY <2>1, <2>2, <4>1 DEF TriesKnown
    <3> QED BY <3>1 DEF TriesKnown
  <2>6. ClaimTook'
    <3>1. ASSUME NEW r \in RunIds, run'[r] = "RUNNING"
          PROVE  attempts'[r] >= 1 /\ (attempts'[r] <= MaxAttempts \/ attempts'[r] = 1)
      <4>1. CASE r \in S
        BY <1>0, <2>1, <2>2, <4>1 DEF AttemptBudget
      <4>2. CASE r \notin S
        BY <2>1, <3>1, <4>2 DEF ClaimTook
      <4> QED BY <4>1, <4>2
    <3> QED BY <3>1 DEF ClaimTook
  <2>7. AttemptBudget'
    BY <2>1 DEF AttemptBudget
  <2> QED BY <2>4, <2>5, <2>6, <2>7
<1>3. ASSUME NEW r \in batch[i], TakeGone(i, r) PROVE FALSE
  <2>1. r \in RunIds
    BY <1>0
  <2> QED BY <1>3, <2>1 DEF TakeGone, HeldRuns
<1>4. ASSUME NEW r \in batch[i], Take(i, r)
      PROVE  RunningIsHeld' /\ TriesKnown' /\ ClaimTook' /\ AttemptBudget'
  <2>1. /\ r \in RunIds /\ cur[i] = None /\ UNCHANGED <<run, attempts>>
        /\ batch' = [batch EXCEPT ![i] = @ \ {r}] /\ cur' = [cur EXCEPT ![i] = r]
        /\ tries' = [tries EXCEPT ![i] = attempts[r]] /\ pc' = [pc EXCEPT ![i] = "check"]
    BY <1>0, <1>4 DEF Take, At, Goto, storeVars, TypedHands, HandsOK, Resting
  <2>2. \A s \in RunIds : Working(i, s)' <=> s = r
    BY <1>0, <2>1 DEF Working, Settled
  <2>3. \A j \in Instances : \A s \in RunIds : j # i => (Working(j, s)' <=> Working(j, s))
    BY <1>a DEF Working
  <2>4. RunningIsHeld'
    <3>1. ASSUME NEW s \in RunIds, run[s] = "RUNNING"
          PROVE  \E j \in Instances : s \in batch'[j] \/ Working(j, s)'
      <4>1. PICK j \in Instances : s \in batch[j] \/ Working(j, s)
        BY <3>1 DEF RunningIsHeld
      <4>2. CASE j # i
        BY <1>a, <2>3, <4>1, <4>2
      <4>3. CASE j = i
        <5>1. ~Working(i, s)
          BY <2>1, RunIdParts DEF Working
        <5> QED BY <1>0, <2>1, <2>2, <4>1, <4>3, <5>1
      <4> QED BY <4>2, <4>3
    <3> QED BY <2>1, <3>1 DEF RunningIsHeld
  <2>5. TriesKnown'
    BY <1>0, <1>a, <2>1, <2>2, <2>3 DEF TriesKnown
  <2>6. ClaimTook' /\ AttemptBudget'
    BY <2>1 DEF ClaimTook, AttemptBudget
  <2> QED BY <2>4, <2>5, <2>6
<1>5. CASE Requeue(i) \/ Cancel(i) \/ Defer(i) \/ Retry(i) \/ GiveUp(i)
  <2>1. pc[i] \notin Resting \cup Settled
    BY <1>5 DEF Requeue, Cancel, Defer, Retry, GiveUp, At, Resting, Settled
  <2>2. cur[i] \in RunIds /\ attempts[cur[i]] \in Int
    BY <2>1, HeldRunCounts
  <2>3. Release(i)
    BY <1>5 DEF Requeue, Cancel, Defer, Retry, GiveUp
  <2>4. CASE Requeue(i) \/ Defer(i)
    <3>1. /\ Mark(cur[i], "QUEUED") /\ attempts' = [attempts EXCEPT ![cur[i]] = @ - 1]
          /\ attempts'[cur[i]] < attempts[cur[i]]
      BY <1>0, <2>2, <2>4 DEF Requeue, Defer
    <3> QED BY <2>1, <2>3, <3>1, LetsGoCounted
  <2>5. CASE Retry(i)
    BY <2>1, <2>3, <2>5, LetsGoCounted DEF Retry
  <2>6. CASE Cancel(i) \/ GiveUp(i)
    <3>1. UNCHANGED attempts /\ (Mark(cur[i], "CANCELED") \/ Mark(cur[i], "FAILED"))
      BY <2>6 DEF Cancel, GiveUp
    <3> QED BY <2>1, <2>3, <3>1, LetsGoCounted
  <2> QED BY <1>5, <2>4, <2>5, <2>6
<1>6. CASE RecordSent(i) \/ Skip(i)
  <2>1. /\ pc[i] \notin Resting \cup Settled /\ pc' = [pc EXCEPT ![i] = "advance"]
        /\ UNCHANGED <<attempts, batch, cur, tries>>
        /\ \E s \in {"SENT", "SKIPPED"} : run' = [run EXCEPT ![cur[i]] = s]
    BY <1>6 DEF RecordSent, Skip, At, Goto, Resting, Settled, workVars, Mark
  <2>2. cur[i] \in RunIds
    BY <2>1, HeldRunCounts
  <2>3. \A r \in RunIds : \/ r # cur[i] /\ run'[r] = run[r]
                          \/ r = cur[i] /\ run'[r] \in {"SENT", "SKIPPED"}
    BY <1>0, <2>1
  <2>4. \A j \in Instances : \A r \in RunIds : Working(j, r)' <=> j # i /\ Working(j, r)
    BY <1>0, <1>a, <2>1 DEF Working, Settled
  <2>5. RunningIsHeld'
    <3>1. ASSUME NEW r \in RunIds, run'[r] = "RUNNING"
          PROVE  \E j \in Instances : r \in batch'[j] \/ Working(j, r)'
      <4>1. r # cur[i] /\ run[r] = "RUNNING"
        BY <2>3, <3>1
      <4>2. PICK j \in Instances : r \in batch[j] \/ Working(j, r)
        BY <4>1 DEF RunningIsHeld
      <4> QED BY <2>1, <2>4, <4>1, <4>2 DEF Working
    <3> QED BY <3>1 DEF RunningIsHeld
  <2>6. TriesKnown' /\ ClaimTook' /\ AttemptBudget'
    BY <2>1, <2>3, <2>4 DEF TriesKnown, ClaimTook, AttemptBudget
  <2> QED BY <2>5, <2>6
<1>7. CASE Advance(i)
  <2>1. UNCHANGED <<run, attempts, batch, cur, tries>>
    BY <1>7 DEF Advance, storeVars
  <2>2. pc[i] \in Settled /\ pc'[i] \in Settled
    BY <1>0, <1>7 DEF Advance, At, Goto, Settled
  <2> QED BY <1>a, <2>1, <2>2, StillCounted
<1>8. CASE Move(i)
  BY <1>8, MoveCounted
<1> QED BY <1>1, <1>2, <1>3, <1>4, <1>5, <1>6, <1>7, <1>8, CalmSteps DEF SchedulerStep, Execute

\* Requests queue new or failed rows with no attempts used, and cancel queued ones.
LEMMA RequestCounted ==
    ASSUME Calm, CountedWork, NEW q \in Requests, BeginRequest(q) \/ CommitRequest(q)
    PROVE  RunningIsHeld' /\ TriesKnown' /\ ClaimTook' /\ AttemptBudget'
<1> USE DEF CountedWork, CalmWork, SafeWork
<1> DEFINE w == req[q]
<1>0. w \in Request /\ steps \in [Campaigns -> SUBSET Positions]
  BY DEF TypedHands, StoreTypeOK, RequestsOK, RequestTypeOK
<1>1. UNCHANGED <<pc, batch, cur, tries>>
  <2>1. UNCHANGED schedVars
    BY DEF BeginRequest, EnrollBegin, StartBegin, RemoveStepBegin, RemoveBegin, StopBegin,
       RetryBegin, ReplyArrives, OptOutBegin, CommitRequest, EnrollCommit, StartCommit,
       StopCommit, RetryCommit, RemoveStepCommit, RemoveCommit, ReplyMarksLead,
       ReplyClosesCadences, OptOutCommit
  <2> QED BY <2>1 DEF schedVars
<1>2. ASSUME NEW R \in SUBSET RunIds, NEW K, Schedule(R, K), \A r \in R : run[r] \in {"NONE", "FAILED"},
             K \cap R = {}
      PROVE  RunningIsHeld' /\ TriesKnown' /\ ClaimTook' /\ AttemptBudget'
  <2>1. \A r \in RunIds :
             \/ run'[r] = run[r] /\ attempts'[r] = attempts[r]
             \/ /\ run[r] # "RUNNING" /\ run'[r] # "RUNNING"
                /\ run'[r] = "QUEUED" => attempts'[r] = 0 \/ run[r] = "QUEUED"
                /\ attempts'[r] = attempts[r] \/ attempts'[r] = 0
    BY <1>2 DEF Schedule
  <2> QED BY <1>1, <2>1, RowsCounted
<1>3. ASSUME UNCHANGED <<run, attempts>>
      PROVE  RunningIsHeld' /\ TriesKnown' /\ ClaimTook' /\ AttemptBudget'
  BY <1>1, <1>3, StillCounted
<1>4. CASE BeginRequest(q)
  BY <1>3, <1>4 DEF BeginRequest, EnrollBegin, StartBegin, RemoveStepBegin, RemoveBegin,
     StopBegin, RetryBegin, ReplyArrives, OptOutBegin, storeVars
<1>5. CASE EnrollCommit(q)
  <2>1. CASE EnrollFails(w)
    BY <1>3, <1>5, <2>1 DEF EnrollCommit, storeVars
  <2>2. CASE ~EnrollFails(w)
    <3> DEFINE R == IF w.active THEN w.who \X {w.p} ELSE {}
    <3>1. Schedule(R, {})
      BY <1>5, <2>2 DEF EnrollCommit
    <3>2. w.c \in Campaigns /\ (w.active => w.p \in Positions)
      BY <1>0, <1>5, <2>2 DEF EnrollCommit, Pending, TypedHands, RequestsOK, RequestTargets,
         EnrollFails
    <3>3. \A r \in R : r \in RunIds /\ r[1] \in w.who
      BY <1>0, <3>2 DEF Request, RunIds
    <3>4. \A r \in R : run[r] = "NONE"
      BY <2>2, <3>3 DEF EnrollFails, RowsBelong
    <3> QED BY <1>2, <3>1, <3>3, <3>4
  <2> QED BY <2>1, <2>2
<1>6. CASE StartCommit(q)
  <2> DEFINE R == StartQueues(w)
             fails == ~Exists(w.c) \/ \E r \in R : r[2] \notin steps[w.c]
  <2>1. CASE fails
    BY <1>3, <1>6, <2>1 DEF StartCommit, storeVars
  <2>2. CASE ~fails
    <3>1. Schedule(R, {r \in R : run[r] = "QUEUED"})
      BY <1>6, <2>2 DEF StartCommit
    <3>2. w.op = "start" /\ w.c \in Campaigns
      BY <1>6 DEF StartCommit, Pending, TypedHands, RequestsOK, RequestTargets
    <3>3. \A r \in RunIds : r[1][1] = w.c => run[r] = "NONE"
      BY <3>2 DEF BeforeStart, NotStarted
    <3>4. \A r \in R : r \in RunIds /\ run[r] = "NONE"
      BY <3>2, <3>3 DEF StartQueues, RequestKnows
    <3> QED BY <1>2, <3>1, <3>4
  <2> QED BY <2>1, <2>2
<1>7. CASE RetryCommit(q)
  <2>1. PICK e \in w.who : \/ UNCHANGED storeVars
                           \/ /\ w.p \in steps[CampaignOf(e)]
                              /\ Schedule({<<e, w.p>>}, {})
    BY <1>7 DEF RetryCommit
  <2>2. CASE UNCHANGED storeVars
    BY <1>3, <2>2 DEF storeVars
  <2>3. CASE w.p \in steps[CampaignOf(e)] /\ Schedule({<<e, w.p>>}, {})
    <3>1. <<e, w.p>> \in RunIds
      BY <1>0, <2>3 DEF Request, CampaignOf, RunIds, Enrollments
    <3>2. run[<<e, w.p>>] = "FAILED"
      BY <1>7, <3>1 DEF RetryCommit, Pending, RequestKnows
    <3> QED BY <1>2, <2>3, <3>1, <3>2
  <2> QED BY <2>1, <2>2, <2>3
<1>8. CASE StopCommit(q)
  <2>1. PICK e \in w.who :
          \/ UNCHANGED storeVars
          \/ /\ run' = [r \in RunIds |-> IF r \in RunsOf(e) /\ run[r] = "QUEUED"
                                         THEN "CANCELED" ELSE run[r]]
             /\ UNCHANGED attempts
    BY <1>8 DEF StopCommit
  <2> QED BY <1>1, <1>3, <2>1, RowsCounted DEF storeVars
<1>9. CASE ReplyMarksLead(q) \/ ReplyClosesCadences(q) \/ OptOutCommit(q)
  BY <1>3, <1>9 DEF ReplyMarksLead, ReplyClosesCadences, OptOutCommit
<1>10. ~RemoveStepCommit(q) /\ ~RemoveCommit(q)
  BY DEF Calm, Orderly, RequestKnows, RemoveStepCommit, RemoveCommit, Pending
<1> QED BY <1>4, <1>5, <1>6, <1>7, <1>8, <1>9, <1>10 DEF CommitRequest

LEMMA CountedInit == Init => CountedWork
<1>1. Init => RunningIsHeld /\ TriesKnown /\ ClaimTook /\ AttemptBudget
  BY RunIdParts DEF Init, StoreInit, SchedInit, RunningIsHeld, TriesKnown, ClaimTook,
     AttemptBudget, Working
<1> QED BY <1>1, CalmInit DEF CountedWork

LEMMA CountedNext == Calm /\ CountedWork /\ [Next]_vars => CountedWork'
<1> SUFFICES ASSUME Calm, CountedWork, [Next]_vars PROVE CountedWork'
  OBVIOUS
<1>1. CalmWork'
  BY CalmNext DEF CountedWork
<1>2. ASSUME NEW i \in Instances, SchedulerStep(i)
      PROVE  RunningIsHeld' /\ TriesKnown' /\ ClaimTook' /\ AttemptBudget'
  BY <1>2, SchedulerCounted
<1>3. ASSUME NEW q \in Requests, BeginRequest(q) \/ CommitRequest(q)
      PROVE  RunningIsHeld' /\ TriesKnown' /\ ClaimTook' /\ AttemptBudget'
  BY <1>3, RequestCounted
<1>4. \A q \in Requests : ~RequestDies(q)
  BY DEF RequestDies, Fault, Calm
<1>5. ASSUME UNCHANGED vars \/ (\E r \in RunIds : Age(r)) \/ \E c \in Campaigns : AtomicRequest(c)
      PROVE  RunningIsHeld' /\ TriesKnown' /\ ClaimTook' /\ AttemptBudget'
  <2>1. UNCHANGED <<run, attempts, pc, batch, cur, tries>>
    BY <1>5 DEF vars, storeVars, schedVars, Age, workVars, AtomicRequest, Pause, AddStep
  <2> QED BY <2>1, StillCounted
<1> QED BY <1>1, <1>2, <1>3, <1>4, <1>5 DEF Next, CountedWork

THEOREM WorkIsCounted == ASSUME Calm PROVE Spec => []CountedWork
<1>1. CountedWork /\ [Next]_vars => CountedWork'
  BY CountedNext
<1> QED BY <1>1, CountedInit, PTL DEF Spec

\* Deferrals and pauses give back exactly the attempt the claim took, errors do
\* not (docs/campaigns.md:30-31): however instances, pauses, stops and retries
\* interleave, a waiting run has used no more attempts than it may and never a
\* negative number of them.
THEOREM AttemptsKeepTheBudget == ASSUME Calm PROVE Spec => []AttemptBudget
<1>1. CountedWork => AttemptBudget
  BY DEF CountedWork
<1> QED BY <1>1, WorkIsCounted, PTL
=============================================================================
