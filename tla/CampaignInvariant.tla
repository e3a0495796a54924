-------------------------- MODULE CampaignInvariant --------------------------
(***************************************************************************)
(* Why the engine keeps its promises: SafeWork is behind ExclusiveWork,    *)
(* OneLiveRun and DuplicatesAreBounded, CalmWork behind ActiveHasWork and  *)
(* CountedWork behind AttemptBudget.  CampaignProofs and CalmProofs prove  *)
(* them inductive for every value of the constants that is Orderly or      *)
(* Calm; TLC checks CountedWork, which contains the others.                *)
(***************************************************************************)
EXTENDS CampaignEngine

\* The use of the engine under which its promises hold.  TLC finds them broken
\* without the first, the second or the last conjunct (two retryEnrollment
\* requests at once queue a run that is being sent). That no row is deleted is
\* needed by KeepsPromise, since what Cadence remembers goes with the row, and
\* by ActiveHasWork; for ExclusiveWork it is an assumption of the proof only.
Orderly ==
    /\ "slow" \notin Faults                     \* no batch takes ten minutes
    /\ MaxStarts <= 1                           \* no campaign is resumed
    /\ "removeStep" \notin Ops                  \* no row is deleted
    /\ "remove" \notin Ops
    /\ \A q1, q2 \in Requests : q1 = q2         \* one handler at a time

\* pc values of an instance that executes no run, and of one that has written
\* its run's outcome and moves the enrollment on.
Resting == {"idle", "claim", "take"}
Settled == {"advance", "move"}

Working(i, r) == cur[i] = r /\ pc[i] \notin Settled
Settling(i, r) == cur[i] = r /\ pc[i] \in Settled

\* A resting instance executes nothing, and has ids only while it works through
\* them.
HandsOK ==
    \A i \in Instances :
        /\ pc[i] \in Resting <=> cur[i] = None
        /\ pc[i] \in {"idle", "claim"} => batch[i] = {}
        /\ cur[i] \notin batch[i]

\* A request about a campaign names one.
RequestTargets ==
    \A q \in Requests :
        req[q].op \in {"enroll", "start", "removeStep", "remove"} => req[q].c \in Campaigns
RequestsOK == RequestTypeOK /\ RequestTargets

\* What holds whatever happens.
TypedHands == StoreTypeOK /\ SchedTypeOK /\ RequestsOK /\ HandsOK

\* Only a RUNNING run is old; the runs in an instance's hands are RUNNING and not
\* old until it has written their outcome.
HeldRuns ==
    /\ \A r \in old : run[r] = "RUNNING"
    /\ \A i \in Instances : \A r \in RunIds :
         /\ r \in batch[i] \/ Working(i, r) => run[r] = "RUNNING" /\ r \notin old
         /\ Settling(i, r) => run[r] \in {"SENT", "SKIPPED"}

\* A run that may be executed, again or still, is the last row of its
\* enrollment: there is none for a later step.
Later(r, s) == s[1] = r[1] /\ s[2] > r[2]
Unfinished(r) ==
    \/ run[r] \in {"QUEUED", "RUNNING", "FAILED"}
    \/ \E i \in Instances : Settling(i, r)
LastRow ==
    \A r, s \in RunIds : Unfinished(r) /\ Later(r, s) => run[s] = "NONE"

\* The next step is a later one.
NextIsLater ==
    \A i \in Instances :
        pc[i] = "move" => next[i] = 0 \/ next[i] > cur[i][2]

\* There are no rows without an enrollment, and a failed enrollment has a failed
\* row, the one a retry will find.
RowsBelong ==
    /\ \A r \in RunIds : status[r[1]] = "NONE" => run[r] = "NONE"
    /\ \A e \in Enrollments :
         status[e] = "FAILED" => \E r \in RunIds : r[1] = e /\ run[r] = "FAILED"

\* Nothing runs before a campaign's start.
NotStarted(c) == starts[c] = 0 \/ \E q \in Requests : req[q].op = "start" /\ req[q].c = c
BeforeStart ==
    \A c \in Campaigns : NotStarted(c) =>
        /\ campaign[c] # "ACTIVE"
        /\ \A r \in RunIds : r[1][1] = c => run[r] = "NONE"

\* What a request in progress knows is still so.
RequestKnows ==
    \A q \in Requests :
        /\ req[q].op = "enroll" => /\ \A e \in req[q].who : e[1] = req[q].c
                                   /\ req[q].active => starts[req[q].c] > 0
        /\ req[q].op = "start" => /\ starts[req[q].c] > 0
                                  /\ \A e \in req[q].who : e[1] = req[q].c
        /\ req[q].op = "retry" =>
             \A r \in RunIds : r[1] \in req[q].who =>
                /\ status[r[1]] = "FAILED"
                /\ r[2] = req[q].p => run[r] = "FAILED"
        /\ req[q].op \in {"removeStep", "remove"} => req[q].op \in Ops

\* A step that may still be sent reached its lead at most once per failure.
MayBeSent(r) ==
    run[r] # "SENT" /\ ~(\E i \in Instances : cur[i] = r /\ pc[i] = "record")
InboxBounded ==
    \A r \in RunIds :
        /\ inbox[r] <= 1 + faults
        /\ MayBeSent(r) => inbox[r] <= faults

\* The inductive invariant of orderly use.
SafeWork ==
    /\ TypedHands
    /\ HeldRuns
    /\ ExclusiveWork
    /\ LastRow
    /\ NextIsLater
    /\ RowsBelong
    /\ BeforeStart
    /\ RequestKnows
    /\ InboxBounded

-----------------------------------------------------------------------------
\* The use under which nothing is left behind: no process dies and no statement
\* fails, a message may still go out without an answer.
Calm == Orderly /\ Faults \subseteq {"ambiguous"}

\* A campaign that has rows was started and not deleted; so was the one that a
\* request about to queue rows found ACTIVE.
Running == {"ACTIVE", "PAUSED"}
RowsRun ==
    /\ \A r \in RunIds : run[r] # "NONE" => campaign[CampaignIn(r)] \in Running
    /\ \A q \in Requests :
         req[q].op = "enroll" /\ req[q].active => campaign[req[q].c] \in Running

\* Only the run of a closed enrollment is dropped.
DropsClosed == \A i \in Instances : At(i, "cancel") => status[cur[i][1]] \in Terminal

\* The next step exists.
NextIsStep ==
    \A i \in Instances :
        At(i, "move") /\ next[i] # 0 => next[i] \in steps[CampaignIn(cur[i])]

\* The inductive invariant behind ActiveHasWork.
CalmWork == SafeWork /\ RowsRun /\ DropsClosed /\ NextIsStep /\ ActiveHasWork

\* A RUNNING run is in the hands of an instance, which knows its attempts: the
\* claim took one of them.
RunningIsHeld ==
    \A r \in RunIds : run[r] = "RUNNING" =>
        \E i \in Instances : r \in batch[i] \/ Working(i, r)
TriesKnown == \A i \in Instances : \A r \in RunIds : Working(i, r) => tries[i] = attempts[r]
ClaimTook ==
    \A r \in RunIds : run[r] = "RUNNING" =>
        attempts[r] >= 1 /\ (attempts[r] <= MaxAttempts \/ attempts[r] = 1)

\* The inductive invariant behind AttemptBudget.
CountedWork == CalmWork /\ RunningIsHeld /\ TriesKnown /\ ClaimTook /\ AttemptBudget
=============================================================================
