--------------------------- MODULE CampaignRequests ---------------------------
(***************************************************************************)
(* The API requests that change a campaign's tables.  Most handlers read,  *)
(* decide, and write in a later statement or transaction: a handler in     *)
(* progress keeps what it read in req, and everything else interleaves     *)
(* between its Begin action and its Commit action.  The transaction of a   *)
(* Commit is one action; where a constraint makes it fail it has no effect.*)
(*                                                                         *)
(* Source: apps/api/src/modules/campaigns/campaigns.service.ts, and the    *)
(* parts of email.service.ts and whatsapp.service.ts that stop a cadence.  *)
(***************************************************************************)
EXTENDS SequenceScheduler

CONSTANTS
    Requests,   \* the request handlers that can be in progress at once
    Ops,        \* the requests that are made, among OpKinds
    MaxStarts   \* bound: how often each campaign is started

OpKinds == {"enroll", "start", "pause", "stop", "retry", "addStep",
            "removeStep", "remove", "reply", "optOut"}

ASSUME OpsAssumption == Ops \subseteq OpKinds /\ MaxStarts \in Nat

vars == <<storeVars, schedVars, requestVars>>

NoRequest == [op |-> "idle", c |-> None, l |-> None, who |-> {},
              at |-> [e \in Enrollments |-> 0], steps |-> {},
              active |-> FALSE, p |-> 0]

\* What a handler remembers: the enrollments it found, where they stood, the
\* campaign's steps, whether it was ACTIVE, and the step it picked.
Request == [op : {"idle", "enroll", "start", "stop", "retry", "removeStep",
                  "remove", "stored", "marked", "optOut"},
            c : Campaigns \cup {None}, l : Leads \cup {None},
            who : SUBSET Enrollments,
            at : [Enrollments -> Positions \cup {0}],
            steps : SUBSET Positions,
            active : BOOLEAN, p : Positions \cup {0}]

RequestTypeOK ==
    /\ req \in [Requests -> Request]
    /\ heard \in SUBSET Leads
    /\ starts \in [Campaigns -> Nat]

RequestInit ==
    /\ req = [q \in Requests |-> NoRequest]
    /\ heard = {}
    /\ starts = [c \in Campaigns |-> 0]

Free(q, op) == op \in Ops /\ req[q] = NoRequest
Pending(q, op) == req[q].op = op
Finish(q) == req' = [req EXCEPT ![q] = NoRequest]
Exists(c) == campaign[c] # "GONE"

-----------------------------------------------------------------------------
\* enroll: leads that a step can reach and that were not enrolled when read.
CanEnroll(c, l) ==
    /\ status[<<c, l>>] = "NONE"
    /\ \E p \in steps[c] : <<l, p>> \in Reachable

EnrollBegin(q, c, L) ==
    /\ Free(q, "enroll")
    /\ Exists(c) /\ steps[c] # {}
    /\ L # {} /\ \A l \in L : CanEnroll(c, l)
    /\ req' = [req EXCEPT ![q] =
                 [NoRequest EXCEPT !.op = "enroll", !.c = c, !.who = {c} \X L,
                                   !.p = NextStep(c, 0),
                                   !.active = (campaign[c] = "ACTIVE")]]
    /\ UNCHANGED <<storeVars, schedVars, heard, starts>>

\* The insert violates the unique key or a foreign key.
EnrollFails(w) ==
    \/ ~Exists(w.c)
    \/ w.active /\ w.p \notin steps[w.c]
    \/ \E e \in w.who : status[e] # "NONE"

EnrollCommit(q) ==
    /\ Pending(q, "enroll")
    /\ LET w == req[q] IN
         IF EnrollFails(w) THEN UNCHANGED storeVars
         ELSE /\ status' = [e \in Enrollments |->
                              IF e \notin w.who THEN status[e]
                              ELSE IF w.active THEN "ACTIVE" ELSE "PAUSED"]
              /\ Schedule(IF w.active THEN w.who \X {w.p} ELSE {}, {})
              /\ UNCHANGED <<campaign, steps, removed, lead, suppressed, position>>
    /\ Finish(q)
    /\ UNCHANGED <<schedVars, heard, starts>>

-----------------------------------------------------------------------------
\* start: the steps and the open enrollments are read first ...
StartBegin(q, c) ==
    /\ Free(q, "start")
    /\ starts[c] < MaxStarts
    /\ Exists(c) /\ steps[c] # {}
    /\ LET W == {e \in EnrollmentsOf(c) : status[e] \in Open} IN
         req' = [req EXCEPT ![q] =
                   [NoRequest EXCEPT
                      !.op = "start", !.c = c, !.who = W, !.steps = steps[c],
                      !.at = [e \in Enrollments |->
                                IF e \in W THEN position[e] ELSE 0]]]
    /\ starts' = [starts EXCEPT ![c] = @ + 1]
    /\ UNCHANGED <<storeVars, schedVars, heard>>

\* ... and activated by id in the transaction, each at its next step; a run
\* that already waits there keeps its place in the queue (keepQueued).
StartNext(w, e) == NextIn(w.steps, w.at[e])

StartQueues(w) ==
    {r \in RunIds : r[1] \in w.who /\ r[2] = StartNext(w, r[1])}

StartCommit(q) ==
    /\ Pending(q, "start")
    /\ LET w == req[q]
           R == StartQueues(w)
       IN IF ~Exists(w.c) \/ \E r \in R : r[2] \notin steps[w.c]
          THEN UNCHANGED storeVars
          ELSE /\ campaign' = [campaign EXCEPT ![w.c] = "ACTIVE"]
               /\ status' = [e \in Enrollments |->
                               IF e \notin w.who THEN status[e]
                               ELSE IF StartNext(w, e) = 0 THEN "COMPLETED"
                               ELSE "ACTIVE"]
               /\ Schedule(R, {r \in R : run[r] = "QUEUED"})
               /\ UNCHANGED <<steps, removed, lead, suppressed, position>>
    /\ Finish(q)
    /\ UNCHANGED <<schedVars, heard, starts>>

Pause(c) ==
    /\ "pause" \in Ops
    /\ Exists(c)
    /\ campaign' = [campaign EXCEPT ![c] = "PAUSED"]
    /\ status' = [e \in Enrollments |->
                    IF e \in EnrollmentsOf(c) /\ status[e] = "ACTIVE"
                    THEN "PAUSED" ELSE status[e]]
    /\ UNCHANGED <<steps, removed, lead, suppressed, position, run, attempts, old,
                   schedVars, requestVars>>

-----------------------------------------------------------------------------
\* stopEnrollment: anything not in TERMINAL may be stopped, FAILED included.
StopBegin(q, e) ==
    /\ Free(q, "stop")
    /\ status[e] \notin Terminal \cup {"NONE"}
    /\ req' = [req EXCEPT ![q] = [NoRequest EXCEPT !.op = "stop", !.who = {e}]]
    /\ UNCHANGED <<storeVars, schedVars, heard, starts>>

StopCommit(q) ==
    /\ Pending(q, "stop")
    /\ \E e \in req[q].who :
         IF status[e] = "NONE" THEN UNCHANGED storeVars
         ELSE /\ run' = [r \in RunIds |-> IF r \in RunsOf(e) /\ run[r] = "QUEUED"
                                          THEN "CANCELED" ELSE run[r]]
              /\ status' = [status EXCEPT ![e] = "STOPPED"]
              /\ UNCHANGED <<campaign, steps, removed, lead, suppressed,
                             position, attempts, old>>
    /\ Finish(q)
    /\ UNCHANGED <<schedVars, heard, starts>>

\* retryEnrollment: the step whose run failed, else the next one.
RetrySteps(e) ==
    LET failed == {r[2] : r \in {x \in RunsOf(e) : run[x] = "FAILED"}}
    IN IF failed # {} THEN failed ELSE {NextStep(CampaignOf(e), position[e])} \ {0}

RetryBegin(q, e) ==
    /\ Free(q, "retry")
    /\ status[e] = "FAILED"
    /\ \E p \in RetrySteps(e) :
         req' = [req EXCEPT ![q] =
                   [NoRequest EXCEPT
                      !.op = "retry", !.who = {e}, !.p = p,
                      !.active = (campaign[CampaignOf(e)] = "ACTIVE")]]
    /\ UNCHANGED <<storeVars, schedVars, heard, starts>>

RetryCommit(q) ==
    /\ Pending(q, "retry")
    /\ LET w == req[q] IN
         \E e \in w.who :
           IF status[e] = "NONE" \/ w.p \notin steps[CampaignOf(e)]
           THEN UNCHANGED storeVars
           ELSE /\ Schedule({<<e, w.p>>}, {})
                /\ status' = [status EXCEPT ![e] =
                                IF w.active THEN "ACTIVE" ELSE "PAUSED"]
                /\ UNCHANGED <<campaign, steps, removed, lead, suppressed, position>>
    /\ Finish(q)
    /\ UNCHANGED <<schedVars, heard, starts>>

-----------------------------------------------------------------------------
\* addStep at a position that has no step yet; at one that has, the upsert
\* rewrites the text, the delay and the channel of its step, which are not
\* modelled (each position keeps its channel).  A deleted step's position is not used again, so that a
\* position names one step for good.
AddStep(c, p) ==
    /\ "addStep" \in Ops
    /\ Exists(c)
    /\ p \notin steps[c] \cup removed[c]
    /\ steps' = [steps EXCEPT ![c] = @ \cup {p}]
    /\ UNCHANGED <<campaign, removed, lead, suppressed, status, position, run,
                   attempts, old, schedVars, requestVars>>

RemoveStepBegin(q, c, p) ==
    /\ Free(q, "removeStep")
    /\ campaign[c] \notin {"ACTIVE", "GONE"}
    /\ req' = [req EXCEPT ![q] =
                 [NoRequest EXCEPT !.op = "removeStep", !.c = c, !.p = p]]
    /\ UNCHANGED <<storeVars, schedVars, heard, starts>>

\* Deletes the rows of the runs R (ON DELETE CASCADE).
DropRuns(R) ==
    /\ run' = [r \in RunIds |-> IF r \in R THEN "NONE" ELSE run[r]]
    /\ attempts' = [r \in RunIds |-> IF r \in R THEN 0 ELSE attempts[r]]
    /\ old' = old \ R

RemoveStepCommit(q) ==
    /\ Pending(q, "removeStep")
    /\ LET w == req[q] IN
         IF w.p \notin steps[w.c] THEN UNCHANGED storeVars
         ELSE /\ steps' = [steps EXCEPT ![w.c] = @ \ {w.p}]
              /\ removed' = [removed EXCEPT ![w.c] = @ \cup {w.p}]
              /\ DropRuns(EnrollmentsOf(w.c) \X {w.p})
              /\ UNCHANGED <<campaign, lead, suppressed, status, position>>
    /\ Finish(q)
    /\ UNCHANGED <<schedVars, heard, starts>>

RemoveBegin(q, c) ==
    /\ Free(q, "remove")
    /\ campaign[c] \notin {"ACTIVE", "GONE"}
    /\ req' = [req EXCEPT ![q] = [NoRequest EXCEPT !.op = "remove", !.c = c]]
    /\ UNCHANGED <<storeVars, schedVars, heard, starts>>

RemoveCommit(q) ==
    /\ Pending(q, "remove")
    /\ LET c == req[q].c
           E == EnrollmentsOf(c)
       IN /\ campaign' = [campaign EXCEPT ![c] = "GONE"]
          /\ steps' = [steps EXCEPT ![c] = {}]
          /\ status' = [e \in Enrollments |-> IF e \in E THEN "NONE" ELSE status[e]]
          /\ position' = [e \in Enrollments |-> IF e \in E THEN 0 ELSE position[e]]
          /\ DropRuns(E \X Positions)
    /\ Finish(q)
    /\ UNCHANGED <<removed, lead, suppressed, schedVars, heard, starts>>

-----------------------------------------------------------------------------
\* A reply arrives, by WhatsApp or by inbound e-mail: the message is stored (a
\* second delivery of it is ignored as a duplicate), the lead is marked, and
\* then its open enrollments are closed in all campaigns.
ReplyArrives(q, l) ==
    /\ Free(q, "reply")
    /\ l \notin heard
    /\ heard' = heard \cup {l}
    /\ req' = [req EXCEPT ![q] = [NoRequest EXCEPT !.op = "stored", !.l = l]]
    /\ UNCHANGED <<storeVars, schedVars, starts>>

ReplyMarksLead(q) ==
    /\ Pending(q, "stored")
    /\ lead' = [lead EXCEPT ![req[q].l] = "REPLIED"]
    /\ req' = [req EXCEPT ![q].op = "marked"]
    /\ UNCHANGED <<campaign, steps, removed, suppressed, status, position, run,
                   attempts, old, schedVars, heard, starts>>

EnrollmentsOfLead(l) == {e \in Enrollments : LeadOf(e) = l}

ReplyClosesCadences(q) ==
    /\ Pending(q, "marked")
    /\ CloseOpen(EnrollmentsOfLead(req[q].l), "REPLIED")
    /\ Finish(q)
    /\ UNCHANGED <<campaign, steps, removed, lead, suppressed, position, run,
                   attempts, old, schedVars, heard, starts>>

\* suppress: an entry for the address, then its open enrollments are stopped.
OptOutBegin(q, l) ==
    /\ Free(q, "optOut")
    /\ suppressed' = suppressed \cup {l}
    /\ req' = [req EXCEPT ![q] = [NoRequest EXCEPT !.op = "optOut", !.l = l]]
    /\ UNCHANGED <<campaign, steps, removed, lead, status, position, run,
                   attempts, old, schedVars, heard, starts>>

OptOutCommit(q) ==
    /\ Pending(q, "optOut")
    /\ CloseOpen(EnrollmentsOfLead(req[q].l), "STOPPED")
    /\ Finish(q)
    /\ UNCHANGED <<campaign, steps, removed, lead, suppressed, position, run,
                   attempts, old, schedVars, heard, starts>>

\* The process dies, or a statement fails, while a request is in progress.
RequestDies(q) ==
    /\ req[q] # NoRequest
    /\ Fault({"crash", "db"})
    /\ Finish(q)
    /\ UNCHANGED <<storeVars, pc, workVars, inbox, heard, starts>>

-----------------------------------------------------------------------------
BeginRequest(q) ==
    \/ \E c \in Campaigns :
         \/ \E L \in SUBSET Leads : EnrollBegin(q, c, L)
         \/ StartBegin(q, c)
         \/ \E p \in Positions : RemoveStepBegin(q, c, p)
         \/ RemoveBegin(q, c)
    \/ \E e \in Enrollments : StopBegin(q, e) \/ RetryBegin(q, e)
    \/ \E l \in Leads : ReplyArrives(q, l) \/ OptOutBegin(q, l)

CommitRequest(q) ==
    \/ EnrollCommit(q) \/ StartCommit(q) \/ StopCommit(q) \/ RetryCommit(q)
    \/ RemoveStepCommit(q) \/ RemoveCommit(q)
    \/ ReplyMarksLead(q) \/ ReplyClosesCadences(q) \/ OptOutCommit(q)

AtomicRequest(c) == Pause(c) \/ \E p \in Positions : AddStep(c, p)
=============================================================================
