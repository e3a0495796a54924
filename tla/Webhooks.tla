------------------------------ MODULE Webhooks ------------------------------
(***************************************************************************)
(* Outgoing webhooks: dispatch and test of                                 *)
(* apps/api/src/modules/webhooks/webhooks.service.ts, the worker of        *)
(* webhook.worker.ts, and the jobs of BullMQ as they use it: a job that    *)
(* throws is tried again up to Attempts times, a job whose process died is *)
(* found stalled and run once more, and a job stalled again fails.         *)
(***************************************************************************)
EXTENDS Naturals

CONSTANTS
  Deliveries,               \* rows of WebhookDelivery, one endpoint each
  Attempts,                 \* attempts of a job (5 in the code)
  MaxPauses                 \* bound: how often an endpoint is switched off

ASSUME WebhooksAssumption == Attempts \in Nat \ {0} /\ MaxPauses \in Nat

VARIABLES
  delivery,                 \* the rows: status and attempts
  job,                      \* the job of each delivery: state, tries, stalls
  run,                      \* the worker's run of it: next statement, answer
  switched,                 \* the endpoint is active; how often it was switched off
  \* history, of each delivery
  posts,                    \* requests that were sent
  unsent,                   \* posts refused before a request was sent
  heard,                   \* answers of success that a run received
  mishaps                    \* updates not confirmed and runs that died

historyVars == <<posts, unsent, heard, mishaps>>
webhookVars == <<delivery, job, run, switched, historyVars>>

RowStates == {"none", "PENDING", "DELIVERED", "FAILED"}
JobStates == {"none", "waiting", "active", "delayed", "completed", "failed"}
RunPCs == {"idle", "read", "post", "record", "mark", "throw", "return"}
Answers == {"none", "ok", "refused", "error", "unsent"}

NoRun == [pc |-> "idle", answer |-> "none"]
MaxRuns == Attempts + 1

WebhooksInit ==
  /\ delivery = [d \in Deliveries |-> [status |-> "none", attempts |-> 0]]
  /\ job = [d \in Deliveries |-> [state |-> "none", tries |-> 0, stalls |-> 0]]
  /\ run = [d \in Deliveries |-> NoRun]
  /\ switched = [d \in Deliveries |-> [active |-> TRUE, times |-> 0]]
  /\ posts = [d \in Deliveries |-> 0] /\ unsent = [d \in Deliveries |-> 0]
  /\ heard = [d \in Deliveries |-> 0] /\ mishaps = [d \in Deliveries |-> 0]

RunAt(d, pc) == run[d].pc = pc
RunGoto(d, pc) == run' = [run EXCEPT ![d].pc = pc]

Mishap(d) ==
  /\ mishaps' = [mishaps EXCEPT ![d] = @ + 1]
  /\ UNCHANGED <<posts, unsent, heard>>

----------------------------------------------------------------------------
(* dispatch and test: the row first, then the job *)

\* dispatch takes the endpoints that are active, test any.
CreateDelivery(d) ==
  /\ delivery[d].status = "none"
  /\ delivery' = [delivery EXCEPT ![d].status = "PENDING"]
  /\ UNCHANGED <<job, run, switched, historyVars>>

\* The process may die, or Redis refuse the job, before this step.
AddJob(d) ==
  /\ delivery[d].status = "PENDING" /\ job[d].state = "none"
  /\ job' = [job EXCEPT ![d].state = "waiting"]
  /\ UNCHANGED <<delivery, run, switched, historyVars>>

SwitchEndpoint(d) ==
  /\ switched[d].active => switched[d].times < MaxPauses
  /\ switched' = [switched EXCEPT ![d].active = ~@,
                                  ![d].times = IF switched[d].active THEN @ + 1 ELSE @]
  /\ UNCHANGED <<delivery, job, run, historyVars>>

----------------------------------------------------------------------------
(* The queue *)

TakeJob(d) ==
  /\ job[d].state = "waiting"
  /\ job' = [job EXCEPT ![d].state = "active"]
  /\ RunGoto(d, "read")
  /\ UNCHANGED <<delivery, switched, historyVars>>

Backoff(d) ==
  /\ job[d].state = "delayed"
  /\ job' = [job EXCEPT ![d].state = "waiting"]
  /\ UNCHANGED <<delivery, run, switched, historyVars>>

JobReturns(d) ==
  /\ RunAt(d, "return")
  /\ job' = [job EXCEPT ![d].state = "completed"]
  /\ run' = [run EXCEPT ![d] = NoRun]
  /\ UNCHANGED <<delivery, switched, historyVars>>

JobThrows(d) ==
  /\ RunAt(d, "throw")
  /\ job' = [job EXCEPT ![d].tries = @ + 1,
                        ![d].state = IF job[d].tries + 1 < Attempts THEN "delayed" ELSE "failed"]
  /\ run' = [run EXCEPT ![d] = NoRun]
  /\ UNCHANGED <<delivery, switched, historyVars>>

\* The worker's process dies; the job is found stalled.
Stall(d) ==
  /\ job[d].state = "active"
  /\ job' = [job EXCEPT ![d].stalls = @ + 1,
                        ![d].state = IF job[d].stalls = 0 THEN "waiting" ELSE "failed"]
  /\ run' = [run EXCEPT ![d] = NoRun]
  /\ Mishap(d)
  /\ UNCHANGED <<delivery, switched>>

----------------------------------------------------------------------------
(* process *)

\* The read and the decryption of the secret may throw: they are outside the try.
ReadDelivery(d) ==
  /\ RunAt(d, "read")
  /\ \/ RunGoto(d, IF switched[d].active THEN "post" ELSE "return")
     \/ RunGoto(d, "throw")
  /\ UNCHANGED <<delivery, job, switched, historyVars>>

\* The address is checked and its host resolved before a request is sent
\* ("unsent" when that fails); after an error of the request itself the
\* endpoint may have served it or not.
PostWebhook(d) ==
  /\ RunAt(d, "post")
  /\ \E answer \in Answers \ {"none"} :
       /\ run' = [run EXCEPT ![d] =
                    [pc |-> IF answer \in {"ok", "refused"} THEN "record" ELSE "mark",
                     answer |-> answer]]
       /\ posts' = [posts EXCEPT ![d] = IF answer = "unsent" THEN @ ELSE @ + 1]
       /\ unsent' = [unsent EXCEPT ![d] = IF answer = "unsent" THEN @ + 1 ELSE @]
       /\ heard' = [heard EXCEPT ![d] = IF answer = "ok" THEN @ + 1 ELSE @]
  /\ UNCHANGED <<delivery, job, switched, mishaps>>

\* A variant that notes that the attempt is recorded only after the throw.
RecordedLate(answer) == IF answer = "ok" THEN "return" ELSE "mark"

\* An answer that is not ok is thrown, but its attempt is recorded.
AfterRecord(answer) == IF answer = "ok" THEN "return" ELSE "throw"

StatusOf(answer) == IF answer = "ok" THEN "DELIVERED" ELSE "FAILED"

CountAttempt(d, status) ==
  delivery' = [delivery EXCEPT ![d] = [status |-> status, attempts |-> @.attempts + 1]]

\* An update that fails, or whose answer is lost after it was committed, is
\* treated by the catch block like a failed post.
RecordAttempt(d) ==
  /\ RunAt(d, "record")
  /\ \/ /\ CountAttempt(d, StatusOf(run[d].answer))
        /\ RunGoto(d, AfterRecord(run[d].answer))
        /\ UNCHANGED historyVars
     \/ /\ CountAttempt(d, StatusOf(run[d].answer)) \/ UNCHANGED delivery
        /\ RunGoto(d, "mark")
        /\ Mishap(d)
  /\ UNCHANGED <<job, switched>>

\* Whether this update is confirmed or not, the job throws.
MarkFailed(d) ==
  /\ RunAt(d, "mark")
  /\ \/ CountAttempt(d, "FAILED") /\ UNCHANGED historyVars
     \/ UNCHANGED delivery /\ Mishap(d)
  /\ RunGoto(d, "throw")
  /\ UNCHANGED <<job, switched>>

Work(d) ==
  \/ TakeJob(d) \/ Backoff(d) \/ JobReturns(d) \/ JobThrows(d)
  \/ ReadDelivery(d) \/ PostWebhook(d) \/ RecordAttempt(d) \/ MarkFailed(d)

WebhooksNext ==
  \E d \in Deliveries :
    CreateDelivery(d) \/ AddJob(d) \/ SwitchEndpoint(d) \/ Stall(d) \/ Work(d)

WebhooksSpec == WebhooksInit /\ [][WebhooksNext]_webhookVars

----------------------------------------------------------------------------
(* Properties *)

WebhooksTypeOK ==
  /\ delivery \in [Deliveries -> [status : RowStates, attempts : 0..2 * MaxRuns]]
  /\ job \in [Deliveries -> [state : JobStates, tries : 0..Attempts, stalls : 0..2]]
  /\ run \in [Deliveries -> [pc : RunPCs, answer : Answers]]
  /\ switched \in [Deliveries -> [active : BOOLEAN, times : 0..MaxPauses]]
  /\ posts \in [Deliveries -> 0..MaxRuns]
  /\ unsent \in [Deliveries -> 0..MaxRuns]
  /\ heard \in [Deliveries -> 0..MaxRuns]
  /\ mishaps \in [Deliveries -> 0..2 * MaxRuns + 2]

\* What a delivery costs the endpoint and what its row says of it, when the
\* record of a post is made after the post and a job that throws runs again
\* (webhook.worker.ts:53 to :80). DELIVERED is said only of a delivery that the
\* endpoint took, and an endpoint that took it is asked again only for a fault:
\* an update that was not confirmed, or a process that died. Without a fault
\* what was taken is shown as DELIVERED once it is recorded, and is not
\* overwritten. The attempts of the row are the posts, those refused before a
\* request was sent included, but for one a fault and the one not yet recorded.
RecordIsHonest ==
  \A d \in Deliveries :
    /\ delivery[d].status = "DELIVERED" => heard[d] > 0
    /\ heard[d] <= 1 + mishaps[d]
    /\ mishaps[d] = 0 /\ heard[d] > 0 /\ ~RunAt(d, "record") => delivery[d].status = "DELIVERED"
    /\ delivery[d].attempts <= posts[d] + unsent[d] + mishaps[d]
    /\ posts[d] + unsent[d] <=
         delivery[d].attempts + mishaps[d] + (IF run[d].pc \in {"record", "mark"} THEN 1 ELSE 0)
=============================================================================
