-------------------------- MODULE SequenceScheduler --------------------------
(***************************************************************************)
(* The scheduler inside every API instance: a tick recovers stuck runs,    *)
(* claims a batch of due ones and executes them one after the other.  Each *)
(* action is one statement or transaction on the database, or one delivery,*)
(* so other instances and requests interleave exactly where the code       *)
(* awaits.  pc names the next thing an instance will do:                   *)
(*                                                                         *)
(*   idle -> claim -> take -> check -> deliver -> record -> advance -> move *)
(*                              |         |--> skip ----------^            *)
(*                              |         |--> defer, error, fatal         *)
(*                              |--> requeue, cancel                       *)
(*                                                                         *)
(* Source: apps/api/src/modules/campaigns/sequence.scheduler.ts            *)
(***************************************************************************)
EXTENDS CampaignStore

CONSTANTS
    Instances,      \* the API processes that run a scheduler
    MaxAttempts,    \* SEQUENCE_MAX_ATTEMPTS
    BatchSize,      \* how many runs one claim takes (10 in the code)
    Faults,         \* which failures happen, among FaultKinds
    MaxFaults       \* bound: how many of them happen

\* crash     a process dies and restarts
\* db        a statement of the bookkeeping fails
\* ambiguous a message goes out but the call that sent it reports an error
\* slow      an instance needs over ten minutes for the batch it claimed
FaultKinds == {"crash", "db", "ambiguous", "slow"}

ASSUME MaxAttemptsAssumption == MaxAttempts \in Nat
ASSUME BatchAssumption == BatchSize \in Nat \ {0}
ASSUME FaultsAssumption == Faults \subseteq FaultKinds /\ MaxFaults \in Nat

VARIABLES
    pc,      \* what each instance does next
    batch,   \* the ids it claimed and has not looked at yet
    cur,     \* the run it executes
    tries,   \* attempts of that run, as it read it
    next,    \* the step after it, as it read it
    inbox,   \* how many times each step's message reached its lead
    faults   \* how many failures have happened

workVars == <<batch, cur, tries, next>>
schedVars == <<pc, batch, cur, tries, next, inbox, faults>>

PcValue == {"idle", "claim", "take", "check", "requeue", "cancel", "deliver",
            "send", "record", "skip", "advance", "move", "defer", "error", "fatal"}

SchedTypeOK ==
    /\ pc \in [Instances -> PcValue]
    /\ batch \in [Instances -> SUBSET RunIds]
    /\ cur \in [Instances -> RunIds \cup {None}]
    /\ tries \in [Instances -> Int]
    /\ next \in [Instances -> Positions \cup {0}]
    /\ inbox \in [RunIds -> Nat]
    /\ faults \in Nat

SchedInit ==
    /\ pc = [i \in Instances |-> "idle"]
    /\ batch = [i \in Instances |-> {}]
    /\ cur = [i \in Instances |-> None]
    /\ tries = [i \in Instances |-> 0]
    /\ next = [i \in Instances |-> 0]
    /\ inbox = [r \in RunIds |-> 0]
    /\ faults = 0

CampaignIn(r) == CampaignOf(r[1])

\* Instance i has an id in its list, or is executing it.
Holds(i, r) == r \in batch[i] \/ cur[i] = r

At(i, p) == pc[i] = p
Goto(i, p) == pc' = [pc EXCEPT ![i] = p]

\* A failure of one of the kinds K, within the bound.
Fault(K) ==
    /\ Faults \cap K # {}
    /\ faults < MaxFaults
    /\ faults' = faults + 1

\* execute returns: on to the next id of the batch, or to another claim.
Release(i) ==
    /\ pc' = [pc EXCEPT ![i] = IF batch[i] = {} THEN "claim" ELSE "take"]
    /\ cur' = [cur EXCEPT ![i] = None]
    /\ tries' = [tries EXCEPT ![i] = 0]
    /\ next' = [next EXCEPT ![i] = 0]
    /\ UNCHANGED batch

-----------------------------------------------------------------------------
\* Ten minutes pass since a run was claimed.  Unless batches may be slow, that
\* happens only to runs nobody is working on any more.
Age(r) ==
    /\ run[r] = "RUNNING"
    /\ r \notin old
    /\ IF \E i \in Instances : Holds(i, r) THEN Fault({"slow"}) ELSE UNCHANGED faults
    /\ old' = old \cup {r}
    /\ UNCHANGED <<campaign, steps, removed, lead, suppressed, status, position,
                   run, attempts, pc, workVars, inbox, requestVars>>

\* Mutants: recovery that ignores the ten minutes, and no recovery at all.
RecoverRunning(i) ==
    /\ At(i, "idle")
    /\ Goto(i, "claim")
    /\ run' = [r \in RunIds |-> IF run[r] = "RUNNING" THEN "QUEUED" ELSE run[r]]
    /\ old' = {}
    /\ UNCHANGED <<campaign, steps, removed, lead, suppressed, status, position,
                   attempts, workVars, inbox, faults, requestVars>>

RecoverNothing(i) ==
    /\ At(i, "idle")
    /\ Goto(i, "claim")
    /\ UNCHANGED <<storeVars, workVars, inbox, faults, requestVars>>

\* tick: the running flag is set and recoverStuck requeues what is stuck.
RecoverStuck(i) ==
    /\ At(i, "idle")
    /\ Goto(i, "claim")
    /\ run' = [r \in RunIds |->
                 IF run[r] = "RUNNING" /\ r \in old THEN "QUEUED" ELSE run[r]]
    /\ old' = {}
    /\ UNCHANGED <<campaign, steps, removed, lead, suppressed, status, position,
                   attempts, workVars, inbox, faults, requestVars>>

\* Mutants: a claim that does not look at the run's status, and one that only
\* takes runs that were never tried.
DueWhateverStatus == {r \in RunIds : /\ run[r] \in {"QUEUED", "RUNNING"}
                                     /\ status[r[1]] = "ACTIVE"
                                     /\ campaign[CampaignIn(r)] = "ACTIVE"}
DueUntried == {r \in RunIds : /\ run[r] = "QUEUED"
                              /\ attempts[r] = 0
                              /\ status[r[1]] = "ACTIVE"
                              /\ campaign[CampaignIn(r)] = "ACTIVE"}

Due == {r \in RunIds : /\ run[r] = "QUEUED"
                       /\ status[r[1]] = "ACTIVE"
                       /\ campaign[CampaignIn(r)] = "ACTIVE"}

\* claim: UPDATE ... FOR UPDATE SKIP LOCKED takes some of the due runs.
Claim(i) ==
    /\ At(i, "claim")
    /\ \E S \in SUBSET Due :
         /\ S # {}
         /\ Cardinality(S) <= BatchSize
         /\ run' = [r \in RunIds |-> IF r \in S THEN "RUNNING" ELSE run[r]]
         /\ attempts' = [r \in RunIds |->
                           IF r \in S THEN attempts[r] + 1 ELSE attempts[r]]
         /\ batch' = [batch EXCEPT ![i] = S]
    /\ Goto(i, "take")
    /\ UNCHANGED <<campaign, steps, removed, lead, suppressed, status, position,
                   old, cur, tries, next, inbox, faults, requestVars>>

\* The pass ends: nothing (more) is due, or maxPerPass runs were processed.
EndPass(i) ==
    /\ At(i, "claim")
    /\ Goto(i, "idle")
    /\ UNCHANGED <<storeVars, workVars, inbox, faults, requestVars>>

\* execute reads the run and returns at once when it is not RUNNING any more.
TakeGone(i, r) ==
    /\ At(i, "take")
    /\ r \in batch[i]
    /\ run[r] # "RUNNING"
    /\ batch' = [batch EXCEPT ![i] = @ \ {r}]
    /\ Goto(i, IF batch[i] = {r} THEN "claim" ELSE "take")
    /\ UNCHANGED <<storeVars, cur, tries, next, inbox, faults, requestVars>>

Take(i, r) ==
    /\ At(i, "take")
    /\ r \in batch[i]
    /\ run[r] = "RUNNING"
    /\ batch' = [batch EXCEPT ![i] = @ \ {r}]
    /\ cur' = [cur EXCEPT ![i] = r]
    /\ tries' = [tries EXCEPT ![i] = attempts[r]]
    /\ Goto(i, "check")
    /\ UNCHANGED <<storeVars, next, inbox, faults, requestVars>>

\* The fresh read of enrollment and campaign: go on, give the run back (a
\* pause), or drop it.
Verdict(e) ==
    IF status[e] = "ACTIVE" /\ campaign[CampaignOf(e)] = "ACTIVE" THEN "deliver"
    ELSE IF status[e] = "PAUSED"
            \/ (status[e] = "ACTIVE" /\ campaign[CampaignOf(e)] = "PAUSED")
         THEN "requeue" ELSE "cancel"

Check(i) ==
    /\ At(i, "check")
    /\ Goto(i, Verdict(cur[i][1]))
    /\ UNCHANGED <<storeVars, workVars, inbox, faults, requestVars>>

\* The row the instance is about to update by id was deleted under it.
Deleted(i) == cur[i] # None /\ run[cur[i]] = "NONE"

Requeue(i) ==
    /\ At(i, "requeue")
    /\ ~Deleted(i)
    /\ Mark(cur[i], "QUEUED")
    /\ attempts' = [attempts EXCEPT ![cur[i]] = @ - 1]
    /\ Release(i)
    /\ UNCHANGED <<campaign, steps, removed, lead, suppressed, status, position,
                   inbox, faults, requestVars>>

Cancel(i) ==
    /\ At(i, "cancel")
    /\ ~Deleted(i)
    /\ Mark(cur[i], "CANCELED")
    /\ Release(i)
    /\ UNCHANGED <<campaign, steps, removed, lead, suppressed, status, position,
                   attempts, inbox, faults, requestVars>>

-----------------------------------------------------------------------------
\* deliver, up to the call that sends: no address or number, or a suppressed
\* recipient, skips the step; a missing mailbox is permanent; no WhatsApp
\* session or the pacing gap defers it.
Unreachable(r) == <<LeadOf(r[1]), r[2]>> \notin Reachable
OptedOut(r) == r[2] \in EmailPositions /\ LeadOf(r[1]) \in suppressed

Prepare(i) ==
    /\ At(i, "deliver")
    /\ LET r == cur[i] IN
         \/ Goto(i, IF Unreachable(r) \/ OptedOut(r) THEN "skip" ELSE "send")
         \/ r[2] \in EmailPositions /\ ~Unreachable(r) /\ Goto(i, "fatal")
    /\ UNCHANGED <<storeVars, workVars, inbox, faults, requestVars>>

\* The mailbox is missing (e-mail), no session or too soon (WhatsApp), the
\* quota or the subscription refuses, the recipient opted out meanwhile, or
\* the server cannot be reached: nothing is sent.
Refusals(r) ==
    IF OptedOut(r) THEN {"fatal"} ELSE {"defer", "error", "fatal"}

Refuse(i) ==
    /\ At(i, "send")
    /\ \E kind \in Refusals(cur[i]) : Goto(i, kind)
    /\ UNCHANGED <<storeVars, workVars, inbox, faults, requestVars>>

\* The message goes out.
Send(i) ==
    /\ At(i, "send")
    /\ ~OptedOut(cur[i])
    /\ inbox' = [inbox EXCEPT ![cur[i]] = @ + 1]
    /\ Goto(i, "record")
    /\ UNCHANGED <<storeVars, workVars, faults, requestVars>>

\* It goes out too, but storing the message afterwards fails or the bridge's
\* answer is late: the caller sees ServiceUnavailableException.
SendUnconfirmed(i) ==
    /\ At(i, "send")
    /\ ~OptedOut(cur[i])
    /\ Fault({"ambiguous"})
    /\ inbox' = [inbox EXCEPT ![cur[i]] = @ + 1]
    /\ Goto(i, "error")
    /\ UNCHANGED <<storeVars, workVars, requestVars>>

\* recordSent: one transaction over the run, the lead and its activities.
RecordSent(i) ==
    /\ At(i, "record")
    /\ ~Deleted(i)
    /\ Mark(cur[i], "SENT")
    /\ LET l == LeadOf(cur[i][1]) IN
         lead' = [lead EXCEPT ![l] = IF @ = "NEW" THEN "CONTACTED" ELSE @]
    /\ Goto(i, "advance")
    /\ UNCHANGED <<campaign, steps, removed, suppressed, status, position,
                   attempts, workVars, inbox, faults, requestVars>>

Skip(i) ==
    /\ At(i, "skip")
    /\ ~Deleted(i)
    /\ Mark(cur[i], "SKIPPED")
    /\ Goto(i, "advance")
    /\ UNCHANGED <<campaign, steps, removed, lead, suppressed, status, position,
                   attempts, workVars, inbox, faults, requestVars>>

\* advance reads the next step outside its transaction ...
Advance(i) ==
    /\ At(i, "advance")
    /\ next' = [next EXCEPT ![i] = NextStep(CampaignIn(cur[i]), cur[i][2])]
    /\ Goto(i, "move")
    /\ UNCHANGED <<storeVars, batch, cur, tries, inbox, faults, requestVars>>

\* ... and moves the enrollment there, unless it was closed meanwhile.  The
\* insert fails when that next step was deleted in between.
NextDeleted(i) ==
    /\ next[i] # 0
    /\ status[cur[i][1]] \in Open
    /\ next[i] \notin steps[CampaignIn(cur[i])]

\* Mutant: an enrollment is moved whatever its status.
MoveAnyway(i) ==
    /\ At(i, "move")
    /\ ~NextDeleted(i)
    /\ LET e == cur[i][1]
       IN /\ position' = [position EXCEPT ![e] = cur[i][2]]
          /\ status' = [status EXCEPT ![e] = IF next[i] = 0 THEN "COMPLETED" ELSE @]
          /\ Schedule(IF next[i] # 0 THEN {<<e, next[i]>>} ELSE {}, {})
    /\ Release(i)
    /\ UNCHANGED <<campaign, steps, removed, lead, suppressed, inbox, faults, requestVars>>

Move(i) ==
    /\ At(i, "move")
    /\ ~NextDeleted(i)
    /\ LET e == cur[i][1]
           moved == status[e] \in Open
       IN /\ position' = [position EXCEPT ![e] = IF moved THEN cur[i][2] ELSE @]
          /\ status' = [status EXCEPT ![e] =
                          IF moved /\ next[i] = 0 THEN "COMPLETED" ELSE @]
          /\ Schedule(IF moved /\ next[i] # 0 THEN {<<e, next[i]>>} ELSE {}, {})
    /\ Release(i)
    /\ UNCHANGED <<campaign, steps, removed, lead, suppressed, inbox, faults, requestVars>>

-----------------------------------------------------------------------------
\* handleFailure: a deferral gives the attempt back,
Defer(i) ==
    /\ At(i, "defer")
    /\ ~Deleted(i)
    /\ Mark(cur[i], "QUEUED")
    /\ attempts' = [attempts EXCEPT ![cur[i]] = @ - 1]
    /\ Release(i)
    /\ UNCHANGED <<campaign, steps, removed, lead, suppressed, status, position,
                   inbox, faults, requestVars>>

\* Mutant: one retry too many.
RetryOnceMore(i) ==
    /\ At(i, "error")
    /\ tries[i] <= MaxAttempts
    /\ ~Deleted(i)
    /\ Mark(cur[i], "QUEUED")
    /\ Release(i)
    /\ UNCHANGED <<campaign, steps, removed, lead, suppressed, status, position,
                   attempts, inbox, faults, requestVars>>

\* a temporary error is retried while attempts are left,
Retry(i) ==
    /\ At(i, "error")
    /\ tries[i] < MaxAttempts
    /\ ~Deleted(i)
    /\ Mark(cur[i], "QUEUED")
    /\ Release(i)
    /\ UNCHANGED <<campaign, steps, removed, lead, suppressed, status, position,
                   attempts, inbox, faults, requestVars>>

\* Mutant: the run fails, its enrollment is forgotten.
GiveUpRunOnly(i) ==
    /\ At(i, "fatal") \/ (At(i, "error") /\ tries[i] >= MaxAttempts)
    /\ ~Deleted(i)
    /\ Mark(cur[i], "FAILED")
    /\ Release(i)
    /\ UNCHANGED <<campaign, steps, removed, lead, suppressed, status, position,
                   attempts, inbox, faults, requestVars>>

\* and anything else fails the run and its enrollment.
GiveUp(i) ==
    /\ At(i, "fatal") \/ (At(i, "error") /\ tries[i] >= MaxAttempts)
    /\ ~Deleted(i)
    /\ Mark(cur[i], "FAILED")
    /\ CloseOpen({cur[i][1]}, "FAILED")
    /\ Release(i)
    /\ UNCHANGED <<campaign, steps, removed, lead, suppressed, position,
                   attempts, inbox, faults, requestVars>>

-----------------------------------------------------------------------------
\* The statements that update a run by id; they throw when its row is gone.
UpdatesRun == {"requeue", "cancel", "record", "skip", "defer", "error", "fatal"}

\* The outer catch of execute only logs: the run keeps whatever status it has.
\* recordSent comes here when its second try fails as well.
Abandon(i) ==
    /\ pc[i] \in UpdatesRun \cup {"check", "advance", "move"}
    /\ IF (pc[i] \in UpdatesRun /\ Deleted(i)) \/ (At(i, "move") /\ NextDeleted(i))
       THEN UNCHANGED faults
       ELSE Fault({"db"})
    /\ Release(i)
    /\ UNCHANGED <<storeVars, inbox, requestVars>>

\* The process dies; its successor starts with an empty memory.  A failing read
\* in execute (line 124, outside its try) ends the pass just like that: tick
\* logs it and forgets the rest of the batch.
Crash(i) ==
    /\ ~At(i, "idle")
    /\ Fault(IF At(i, "take") THEN {"crash", "db"} ELSE {"crash"})
    /\ Goto(i, "idle")
    /\ batch' = [batch EXCEPT ![i] = {}]
    /\ cur' = [cur EXCEPT ![i] = None]
    /\ tries' = [tries EXCEPT ![i] = 0]
    /\ next' = [next EXCEPT ![i] = 0]
    /\ UNCHANGED <<storeVars, inbox, requestVars>>

\* What an instance does next by itself.
Execute(i) ==
    \/ \E r \in batch[i] : TakeGone(i, r) \/ Take(i, r)
    \/ Check(i) \/ Requeue(i) \/ Cancel(i)
    \/ Prepare(i) \/ Refuse(i) \/ Send(i) \/ SendUnconfirmed(i)
    \/ RecordSent(i) \/ Skip(i) \/ Advance(i) \/ Move(i)
    \/ Defer(i) \/ Retry(i) \/ GiveUp(i) \/ Abandon(i)

SchedulerStep(i) ==
    RecoverStuck(i) \/ Claim(i) \/ EndPass(i) \/ Execute(i) \/ Crash(i)
=============================================================================
