-------------------------- MODULE IntegrationProofs --------------------------
(***************************************************************************)
(* The parts that work with services outside, for any number of            *)
(* deliveries, searches, sessions, events and mishaps: the record of a      *)
(* webhook's deliveries is honest, the calls to the geocoder keep their    *)
(* distance, a pairing that is shown as under way has somebody who will    *)
(* end it, and a sync that was alone leaves both calendars in agreement.   *)
(***************************************************************************)
EXTENDS Webhooks, PlaceSearch, WhatsappBridge, Calendar, FiniteSetTheorems, TLAPS

USE WebhooksAssumption, PlaceSearchAssumption, BridgeAssumption

----------------------------------------------------------------------------
(* Outgoing webhooks *)

\* A job whose run has posted, or may have, and has not been counted as a try.
Posted(d) == job[d].state = "completed" \/ run[d].pc \in {"record", "mark", "throw", "return"}

\* The run or the job ended with what the endpoint took, or will.
Settled(d) ==
  \/ job[d].state = "completed" \/ run[d].pc = "return"
  \/ run[d].pc = "record" /\ run[d].answer = "ok"

\* The updates that a run may still make, and whether its post is to be recorded.
Owed(d) ==
  IF run[d].pc = "record" THEN 2 ELSE IF run[d].pc = "mark" THEN 1 ELSE 0
Unrecorded(d) == IF run[d].pc \in {"record", "mark"} THEN 1 ELSE 0

\* What is said of the endpoint is what it did, and but for a fault a delivery
\* that it took is taken once and shown as taken.
Honest(d) ==
  /\ delivery[d].status = "DELIVERED" => heard[d] > 0
  /\ delivery[d].status = "none" => job[d].state = "none"
  /\ run[d].pc = "record" /\ run[d].answer = "ok" => heard[d] > 0
  /\ mishaps[d] = 0 /\ heard[d] > 0 =>
       Settled(d) /\ (run[d].pc = "record" \/ delivery[d].status = "DELIVERED")
  /\ heard[d] <= mishaps[d] + (IF Settled(d) THEN 1 ELSE 0)

\* The attempts of the row are the posts, but for one a fault and the one that
\* is still to be recorded.
Recorded(d) ==
  /\ delivery[d].attempts + Unrecorded(d) <= posts[d] + unsent[d] + mishaps[d]
  /\ posts[d] + unsent[d] <= delivery[d].attempts + mishaps[d] + Unrecorded(d)

\* Each post is a try, a stall or the one under way, each comes to at most two
\* updates, and a job that can still run has tries left and has not stalled twice.
Counted(d) ==
  /\ posts[d] + unsent[d] <= job[d].tries + job[d].stalls + (IF Posted(d) THEN 1 ELSE 0)
  /\ run[d].pc # "idle" => job[d].state = "active"
  /\ job[d].state # "failed" => job[d].tries < Attempts /\ job[d].stalls < 2
  /\ job[d].tries + job[d].stalls <= Attempts + 1
  /\ heard[d] <= posts[d] + unsent[d]
  /\ delivery[d].attempts + Owed(d) <= 2 * (posts[d] + unsent[d])
  /\ mishaps[d] + Owed(d) <= 2 * (posts[d] + unsent[d]) + job[d].stalls

WebhooksShape ==
  /\ delivery \in [Deliveries -> [status : RowStates, attempts : Nat]]
  /\ job \in [Deliveries -> [state : JobStates, tries : 0..Attempts, stalls : 0..2]]
  /\ run \in [Deliveries -> [pc : RunPCs, answer : Answers]]
  /\ switched \in [Deliveries -> [active : BOOLEAN, times : 0..MaxPauses]]
  /\ posts \in [Deliveries -> Nat] /\ unsent \in [Deliveries -> Nat]
  /\ heard \in [Deliveries -> Nat] /\ mishaps \in [Deliveries -> Nat]

WebhooksInv ==
  WebhooksShape /\ \A d \in Deliveries : Honest(d) /\ Recorded(d) /\ Counted(d)

LEMMA WebhooksInitially == WebhooksInit => WebhooksInv
BY DEF WebhooksInit, WebhooksInv, WebhooksShape, Honest, Recorded, Counted,
       Posted, Settled, Owed, Unrecorded,
       NoRun, RowStates, JobStates, RunPCs, Answers

\* An action on one delivery is judged by what it makes of that delivery.
LEMMA WebhooksOneDelivery ==
  ASSUME WebhooksInv, NEW d \in Deliveries, WebhooksShape',
         \A x \in Deliveries \ {d} : /\ delivery'[x] = delivery[x] /\ job'[x] = job[x]
                                     /\ run'[x] = run[x] /\ posts'[x] = posts[x]
                                     /\ unsent'[x] = unsent[x] /\ heard'[x] = heard[x]
                                     /\ mishaps'[x] = mishaps[x],
         Honest(d)', Recorded(d)', Counted(d)'
  PROVE  WebhooksInv'
<1>1. ASSUME NEW x \in Deliveries, x # d PROVE Honest(x)' /\ Recorded(x)' /\ Counted(x)'
  BY <1>1 DEF WebhooksInv, Honest, Recorded, Counted,
     Posted, Settled, Owed, Unrecorded
<1> QED
  BY <1>1 DEF WebhooksInv

LEMMA WebhooksActionKeeps ==
  ASSUME WebhooksInv, NEW d \in Deliveries,
         CreateDelivery(d) \/ AddJob(d) \/ SwitchEndpoint(d) \/ Stall(d) \/ Work(d)
  PROVE  WebhooksInv'
<1>0. WebhooksShape /\ Honest(d) /\ Recorded(d) /\ Counted(d)
  BY DEF WebhooksInv
<1>a. /\ delivery[d] \in [status : RowStates, attempts : Nat]
      /\ job[d] \in [state : JobStates, tries : 0..Attempts, stalls : 0..2]
      /\ run[d] \in [pc : RunPCs, answer : Answers]
  BY <1>0 DEF WebhooksShape
<1>b. /\ delivery[d].attempts \in Nat /\ mishaps[d] \in Nat
      /\ posts[d] \in Nat /\ unsent[d] \in Nat /\ heard[d] \in Nat
      /\ job[d].tries \in Nat /\ job[d].stalls \in Nat
  BY <1>0, <1>a DEF WebhooksShape
<1> USE DEF RowStates, JobStates, RunPCs, Answers
<1>1. CASE CreateDelivery(d)
  <2>0. /\ [delivery[d] EXCEPT !.status = "PENDING"] = [status |-> "PENDING", attempts |-> delivery[d].attempts]
    BY <1>a
  <2>1. /\ delivery' = [delivery EXCEPT ![d] = [status |-> "PENDING", attempts |-> delivery[d].attempts]]
        /\ UNCHANGED <<job, run, posts, unsent, heard, mishaps, switched>>
        /\ delivery[d].status = "none"
    BY <1>0, <1>1, <2>0 DEF CreateDelivery, historyVars, WebhooksShape
  <2>2. WebhooksShape'
    BY <1>0, <2>1 DEF WebhooksShape, Counted
  <2>3. Honest(d)' /\ Recorded(d)' /\ Counted(d)'
    BY <1>0, <1>a, <1>b, <2>1 DEF WebhooksShape, Honest, Recorded, Counted,
           Posted, Settled, Owed, Unrecorded
  <2> QED
    BY <1>0, <2>1, <2>2, <2>3, WebhooksOneDelivery DEF WebhooksShape
<1>2. CASE AddJob(d)
  <2>0. /\ [job[d] EXCEPT !.state = "waiting"] = [state |-> "waiting", tries |-> job[d].tries, stalls |-> job[d].stalls]
    BY <1>a
  <2>1. /\ job' = [job EXCEPT ![d] = [state |-> "waiting", tries |-> job[d].tries, stalls |-> job[d].stalls]]
        /\ UNCHANGED <<delivery, run, posts, unsent, heard, mishaps, switched>>
        /\ job[d].state = "none" /\ delivery[d].status = "PENDING"
    BY <1>0, <1>2, <2>0 DEF AddJob, historyVars, WebhooksShape
  <2>2. WebhooksShape'
    BY <1>0, <2>1 DEF WebhooksShape, Counted
  <2>3. Honest(d)' /\ Recorded(d)' /\ Counted(d)'
    BY <1>0, <1>a, <1>b, <2>1 DEF WebhooksShape, Honest, Recorded, Counted,
           Posted, Settled, Owed, Unrecorded
  <2> QED
    BY <1>0, <2>1, <2>2, <2>3, WebhooksOneDelivery DEF WebhooksShape
<1>3. CASE SwitchEndpoint(d)
  <2>1. UNCHANGED <<delivery, job, run, posts, unsent, heard, mishaps>>
    BY <1>3 DEF SwitchEndpoint, historyVars
  <2>2. switched' \in [Deliveries -> [active : BOOLEAN, times : 0..MaxPauses]]
    <3>1. PICK n \in Nat : n = IF switched[d].active THEN switched[d].times + 1 ELSE switched[d].times
      BY SMTT(30), <1>0 DEF WebhooksShape
    <3>2. n <= MaxPauses
      BY <1>0, <1>3, <3>1 DEF SwitchEndpoint, historyVars, WebhooksShape
    <3>3. [switched[d] EXCEPT !.active = ~switched[d].active, !.times = n] \in
            [active : BOOLEAN, times : 0..MaxPauses]
      <4>1. n \in 0..MaxPauses
        BY <3>2
      <4>2. PICK b \in BOOLEAN : b = ~switched[d].active
        OBVIOUS
      <4>3. [switched[d] EXCEPT !.active = b, !.times = n] \in
              [active : BOOLEAN, times : 0..MaxPauses]
        <5>1. switched[d] \in [active : BOOLEAN, times : 0..MaxPauses]
          BY <1>0 DEF WebhooksShape
        <5> QED
          BY <4>1, <5>1
      <4> QED
        BY <4>2, <4>3
    <3>4. switched' = [switched EXCEPT ![d] =
                         [switched[d] EXCEPT !.active = ~switched[d].active, !.times = n]]
      BY <1>3, <3>1 DEF SwitchEndpoint, historyVars
    <3> QED
      BY <1>0, <3>3, <3>4 DEF WebhooksShape
  <2>4. WebhooksShape'
    BY <1>0, <2>1, <2>2 DEF WebhooksShape, Counted
  <2>5. Honest(d)' /\ Recorded(d)' /\ Counted(d)'
    BY <1>0, <2>1, <2>2 DEF WebhooksShape, Honest, Recorded, Counted,
           Posted, Settled, Owed, Unrecorded
  <2> QED
    BY <1>0, <2>1, <2>2, <2>4, <2>5, WebhooksOneDelivery DEF WebhooksShape
<1>4. CASE Stall(d)
  <2>0. PICK st \in {"waiting", "failed"} : st = IF job[d].stalls = 0 THEN "waiting" ELSE "failed"
    OBVIOUS
  <2>1. /\ UNCHANGED <<delivery, posts, unsent, heard, switched>> /\ job[d].state = "active"
        /\ run' = [run EXCEPT ![d] = [pc |-> "idle", answer |-> "none"]]
        /\ mishaps' = [mishaps EXCEPT ![d] = mishaps[d] + 1]
    BY <1>4 DEF Stall, Mishap, NoRun
  <2>2. job' = [job EXCEPT ![d] =
                 [state |-> st, tries |-> job[d].tries, stalls |-> job[d].stalls + 1]]
    <3>1. PICK q \in [state : JobStates, tries : 0..Attempts, stalls : 0..2] :
            q = [job[d] EXCEPT !.stalls = job[d].stalls + 1, !.state = st]
      <4>1. job[d].stalls + 1 \in 0..2
        BY <1>0, <1>a, <2>1 DEF Counted
      <4> QED
        BY <1>a, <4>1
    <3>2. q.state = st /\ q.tries = job[d].tries /\ q.stalls = job[d].stalls + 1
      BY <1>a, <3>1
    <3>3. q = [state |-> st, tries |-> job[d].tries, stalls |-> job[d].stalls + 1]
      BY <3>2
    <3> QED
      BY <1>4, <2>0, <3>1, <3>3 DEF Stall
  <2>4. WebhooksShape'
    BY <1>0, <2>0, <2>1, <2>2 DEF WebhooksShape, Counted
  <2>5. Honest(d)' /\ Recorded(d)' /\ Counted(d)'
    BY <1>0, <2>0, <2>1, <2>2 DEF WebhooksShape, Honest, Recorded, Counted,
           Posted, Settled, Owed, Unrecorded
  <2> QED
    BY <1>0, <2>0, <2>1, <2>2, <2>4, <2>5, WebhooksOneDelivery DEF WebhooksShape
<1>5. CASE TakeJob(d)
  <2>0. /\ [job[d] EXCEPT !.state = "active"] = [state |-> "active", tries |-> job[d].tries, stalls |-> job[d].stalls]
        /\ [run[d] EXCEPT !.pc = "read"] = [pc |-> "read", answer |-> run[d].answer]
    BY <1>a
  <2>1. /\ job' = [job EXCEPT ![d] = [state |-> "active", tries |-> job[d].tries, stalls |-> job[d].stalls]]
        /\ run' = [run EXCEPT ![d] = [pc |-> "read", answer |-> run[d].answer]]
        /\ UNCHANGED <<delivery, posts, unsent, heard, mishaps, switched>>
        /\ job[d].state = "waiting"
    BY <1>0, <1>5, <2>0 DEF TakeJob, historyVars, RunGoto, WebhooksShape
  <2>2. WebhooksShape'
    BY <1>0, <2>1 DEF WebhooksShape, Counted
  <2>3. Honest(d)' /\ Recorded(d)' /\ Counted(d)'
    BY <1>0, <2>1 DEF WebhooksShape, Honest, Recorded, Counted,
           Posted, Settled, Owed, Unrecorded
  <2> QED
    BY <1>0, <2>1, <2>2, <2>3, WebhooksOneDelivery DEF WebhooksShape
<1>6. CASE Backoff(d)
  <2>0. /\ [job[d] EXCEPT !.state = "waiting"] = [state |-> "waiting", tries |-> job[d].tries, stalls |-> job[d].stalls]
    BY <1>a
  <2>1. /\ job' = [job EXCEPT ![d] = [state |-> "waiting", tries |-> job[d].tries, stalls |-> job[d].stalls]]
        /\ UNCHANGED <<delivery, run, posts, unsent, heard, mishaps, switched>>
        /\ job[d].state = "delayed"
    BY <1>0, <1>6, <2>0 DEF Backoff, historyVars, WebhooksShape
  <2>2. WebhooksShape'
    BY <1>0, <2>1 DEF WebhooksShape, Counted
  <2>3. Honest(d)' /\ Recorded(d)' /\ Counted(d)'
    BY <1>0, <2>1 DEF WebhooksShape, Honest, Recorded, Counted,
           Posted, Settled, Owed, Unrecorded
  <2> QED
    BY <1>0, <2>1, <2>2, <2>3, WebhooksOneDelivery DEF WebhooksShape
<1>7. CASE JobReturns(d)
  <2>0. /\ [job[d] EXCEPT !.state = "completed"] = [state |-> "completed", tries |-> job[d].tries, stalls |-> job[d].stalls]
    BY <1>a
  <2>1. /\ job' = [job EXCEPT ![d] = [state |-> "completed", tries |-> job[d].tries, stalls |-> job[d].stalls]]
        /\ run' = [run EXCEPT ![d] = [pc |-> "idle", answer |-> "none"]]
        /\ UNCHANGED <<delivery, posts, unsent, heard, mishaps, switched>>
        /\ run[d].pc = "return"
    BY <1>0, <1>7, <2>0 DEF JobReturns, historyVars, NoRun, RunAt, WebhooksShape
  <2>2. WebhooksShape'
    BY <1>0, <2>1 DEF WebhooksShape, Counted
  <2>3. Honest(d)' /\ Recorded(d)' /\ Counted(d)'
    BY <1>0, <2>1 DEF WebhooksShape, Honest, Recorded, Counted,
           Posted, Settled, Owed, Unrecorded
  <2> QED
    BY <1>0, <2>1, <2>2, <2>3, WebhooksOneDelivery DEF WebhooksShape
<1>8. CASE JobThrows(d)
  <2>0. PICK st \in {"delayed", "failed"} :
          st = IF job[d].tries + 1 < Attempts THEN "delayed" ELSE "failed"
    OBVIOUS
  <2>1. /\ UNCHANGED <<delivery, posts, unsent, heard, mishaps, switched>> /\ run[d].pc = "throw"
        /\ run' = [run EXCEPT ![d] = [pc |-> "idle", answer |-> "none"]]
    BY <1>8 DEF JobThrows, historyVars, NoRun, RunAt
  <2>2. job' = [job EXCEPT ![d] =
                 [state |-> st, tries |-> job[d].tries + 1, stalls |-> job[d].stalls]]
    <3>1. PICK q \in [state : JobStates, tries : 0..Attempts, stalls : 0..2] :
            q = [job[d] EXCEPT !.tries = job[d].tries + 1, !.state = st]
      <4>1. job[d].tries + 1 \in 0..Attempts
        BY <1>0, <1>a, <2>1 DEF Counted
      <4> QED
        BY <1>a, <4>1
    <3>2. q.state = st /\ q.tries = job[d].tries + 1 /\ q.stalls = job[d].stalls
      BY <1>a, <3>1
    <3>3. q = [state |-> st, tries |-> job[d].tries + 1, stalls |-> job[d].stalls]
      BY <3>2
    <3> QED
      BY <1>8, <2>0, <3>1, <3>3 DEF JobThrows, historyVars
  <2>4. WebhooksShape'
    BY <1>0, <2>0, <2>1, <2>2 DEF WebhooksShape, Counted
  <2>5. /\ job'[d].state = st /\ job'[d].tries = job[d].tries + 1 /\ job'[d].stalls = job[d].stalls
        /\ run'[d].pc = "idle" /\ run'[d].answer = "none"
    BY <1>0, <2>1, <2>2 DEF WebhooksShape
  <2>6. Honest(d)' /\ Recorded(d)'
    BY <1>0, <1>b, <2>0, <2>1, <2>5 DEF Honest, Recorded, Settled, Unrecorded, Counted
  <2>7. Counted(d)'
    <3>1. /\ posts[d] + unsent[d] <= job[d].tries + job[d].stalls + 1
          /\ job[d].tries < Attempts /\ job[d].stalls < 2
      BY <1>0, <1>a, <2>1 DEF Counted, Posted
    <3> QED
      BY <1>0, <1>b, <2>0, <2>1, <2>5, <3>1 DEF Counted, Posted, Owed
  <2> QED
    BY <1>0, <2>0, <2>1, <2>2, <2>4, <2>6, <2>7, WebhooksOneDelivery DEF WebhooksShape
<1>9. CASE ReadDelivery(d)
  <2>0. PICK pc \in {"post", "return", "throw"} : RunGoto(d, pc)
    BY <1>9 DEF ReadDelivery
  <2>1. UNCHANGED <<delivery, job, posts, unsent, heard, mishaps, switched>> /\ run[d].pc = "read"
    BY <1>9 DEF ReadDelivery, historyVars, RunAt
  <2>2. run' = [run EXCEPT ![d] = [pc |-> pc, answer |-> run[d].answer]]
    <3>1. [run[d] EXCEPT !.pc = pc] = [pc |-> pc, answer |-> run[d].answer]
      BY <1>a
    <3> QED
      BY <2>0, <3>1 DEF RunGoto
  <2>4. WebhooksShape'
    BY <1>0, <2>1, <2>2 DEF WebhooksShape, Counted
  <2>5. Honest(d)' /\ Recorded(d)' /\ Counted(d)'
    BY <1>0, <1>b, <2>1, <2>2 DEF WebhooksShape, Honest, Recorded, Counted,
           Posted, Settled, Owed, Unrecorded
  <2> QED
    BY <1>0, <2>1, <2>2, <2>4, <2>5, WebhooksOneDelivery DEF WebhooksShape
<1>10. CASE PostWebhook(d)
  <2>0. PICK answer \in Answers \ {"none"} :
          /\ run' = [run EXCEPT ![d] =
                      [pc |-> IF answer \in {"ok", "refused"} THEN "record" ELSE "mark",
                       answer |-> answer]]
          /\ posts' = [posts EXCEPT ![d] = IF answer = "unsent" THEN posts[d] ELSE posts[d] + 1]
          /\ unsent' = [unsent EXCEPT ![d] = IF answer = "unsent" THEN unsent[d] + 1 ELSE unsent[d]]
          /\ heard' = [heard EXCEPT ![d] = IF answer = "ok" THEN heard[d] + 1 ELSE heard[d]]
    BY <1>10 DEF PostWebhook
  <2>1. UNCHANGED <<delivery, job, switched, mishaps>> /\ run[d].pc = "post"
    BY <1>10 DEF PostWebhook, RunAt
  <2>2. PICK pc \in {"record", "mark"} :
          pc = IF answer \in {"ok", "refused"} THEN "record" ELSE "mark"
    OBVIOUS
  <2>3. run' = [run EXCEPT ![d] = [pc |-> pc, answer |-> answer]]
    BY <2>0, <2>2
  <2>4. PICK p \in Nat, u \in Nat, v \in Nat :
          /\ p = IF answer = "unsent" THEN posts[d] ELSE posts[d] + 1
          /\ u = IF answer = "unsent" THEN unsent[d] + 1 ELSE unsent[d]
          /\ v = IF answer = "ok" THEN heard[d] + 1 ELSE heard[d]
    BY <1>b
  <2>5. p + u = posts[d] + unsent[d] + 1 /\ (answer # "ok" => v = heard[d])
    BY <2>4, <1>b
  <2>6. /\ posts' = [posts EXCEPT ![d] = p] /\ unsent' = [unsent EXCEPT ![d] = u]
        /\ heard' = [heard EXCEPT ![d] = v]
    BY <2>0, <2>4
  <2>7. WebhooksShape'
    BY <1>0, <2>1, <2>3, <2>6 DEF WebhooksShape
  <2>8. /\ run'[d].pc = pc /\ run'[d].answer = answer
        /\ posts'[d] = p /\ unsent'[d] = u /\ heard'[d] = v
    BY <1>0, <2>3, <2>6 DEF WebhooksShape
  <2>9. Honest(d)'
    BY <1>0, <1>b, <2>1, <2>2, <2>4, <2>8 DEF WebhooksShape, Honest, Settled, Counted
  <2>10. Recorded(d)'
    BY <1>0, <1>a, <1>b, <2>1, <2>5, <2>8 DEF WebhooksShape, Recorded, Unrecorded
  <2>11. Counted(d)'
    BY <1>0, <1>a, <1>b, <2>1, <2>4, <2>5, <2>8 DEF WebhooksShape, Counted, Posted, Owed
  <2> QED
    BY <1>0, <2>1, <2>3, <2>6, <2>7, <2>9, <2>10, <2>11, WebhooksOneDelivery DEF WebhooksShape
<1>11. CASE RecordAttempt(d)
  <2>1. UNCHANGED <<job, posts, unsent, heard, switched>> /\ run[d].pc = "record"
    BY <1>11 DEF RecordAttempt, RunAt, Mishap, historyVars
  <2>0. ASSUME NEW pc \in {"return", "throw", "mark"}
        PROVE  [run[d] EXCEPT !.pc = pc] = [pc |-> pc, answer |-> run[d].answer]
    BY <1>a
  <2>2. CASE /\ CountAttempt(d, StatusOf(run[d].answer))
             /\ RunGoto(d, AfterRecord(run[d].answer))
             /\ UNCHANGED historyVars
    <3>1. /\ delivery' = [delivery EXCEPT ![d] = [status |-> StatusOf(run[d].answer),
                                                attempts |-> delivery[d].attempts + 1]]
          /\ UNCHANGED mishaps
      BY <2>2 DEF CountAttempt, historyVars
    <3>2. PICK pc \in {"return", "throw"} : pc = AfterRecord(run[d].answer)
      BY DEF AfterRecord
    <3>3. run' = [run EXCEPT ![d] = [pc |-> pc, answer |-> run[d].answer]]
      BY <2>0, <2>2, <3>2 DEF RunGoto
    <3>4. WebhooksShape'
      BY <1>0, <1>a, <1>b, <2>1, <3>1, <3>3 DEF WebhooksShape, StatusOf
    <3>5. /\ run'[d].pc = pc /\ delivery'[d].attempts = delivery[d].attempts + 1
          /\ delivery'[d].status = StatusOf(run[d].answer)
      BY <1>0, <3>1, <3>3 DEF WebhooksShape
    <3>6. Honest(d)'
      BY <1>0, <1>a, <1>b, <2>1, <3>1, <3>2, <3>5 DEF Honest, Settled, StatusOf, AfterRecord, Counted
    <3>7. Recorded(d)' /\ Counted(d)'
      BY <1>0, <1>a, <1>b, <2>1, <3>1, <3>2, <3>5
         DEF Recorded, Unrecorded, Counted, Posted, Owed
    <3> QED
      BY <1>0, <2>1, <3>1, <3>3, <3>4, <3>6, <3>7, WebhooksOneDelivery DEF WebhooksShape
  <2>3. CASE /\ CountAttempt(d, StatusOf(run[d].answer)) \/ UNCHANGED delivery
             /\ RunGoto(d, "mark")
             /\ Mishap(d)
    <3>1. run' = [run EXCEPT ![d] = [pc |-> "mark", answer |-> run[d].answer]]
      BY <2>0, <2>3 DEF RunGoto
    <3>2. mishaps' = [mishaps EXCEPT ![d] = mishaps[d] + 1]
      BY <2>3 DEF Mishap
    <3>3. PICK n \in Nat, st \in RowStates :
            /\ delivery' = [delivery EXCEPT ![d] = [status |-> st, attempts |-> n]]
            /\ \/ n = delivery[d].attempts + 1 /\ st = StatusOf(run[d].answer)
               \/ n = delivery[d].attempts /\ st = delivery[d].status
      <4>1. CASE CountAttempt(d, StatusOf(run[d].answer))
        <5>1. StatusOf(run[d].answer) \in RowStates /\ delivery[d].attempts + 1 \in Nat
          BY <1>b DEF StatusOf
        <5> QED
          BY <4>1, <5>1 DEF CountAttempt
      <4>2. CASE UNCHANGED delivery
        <5>1. delivery[d] = [status |-> delivery[d].status, attempts |-> delivery[d].attempts]
          BY <1>a
        <5>2. delivery' = [delivery EXCEPT ![d] = delivery[d]]
          BY <1>0, <4>2 DEF WebhooksShape
        <5> QED
          BY <1>a, <5>1, <5>2
      <4> QED
        BY <2>3, <4>1, <4>2
    <3>4. WebhooksShape'
      BY <1>0, <1>a, <1>b, <2>1, <3>1, <3>2, <3>3 DEF WebhooksShape
    <3>5. /\ run'[d].pc = "mark" /\ delivery'[d].attempts = n /\ delivery'[d].status = st
          /\ mishaps'[d] = mishaps[d] + 1
      BY <1>0, <3>1, <3>2, <3>3 DEF WebhooksShape
    <3>6. Honest(d)'
      BY <1>0, <1>a, <1>b, <2>1, <3>3, <3>5 DEF Honest, Settled, StatusOf, Counted
    <3>7. Recorded(d)' /\ Counted(d)'
      BY <1>0, <1>a, <1>b, <2>1, <3>3, <3>5 DEF Recorded, Unrecorded, Counted, Posted, Owed
    <3> QED
      BY <1>0, <2>1, <3>1, <3>2, <3>3, <3>4, <3>6, <3>7, WebhooksOneDelivery DEF WebhooksShape
  <2> QED
    BY <1>11, <2>2, <2>3 DEF RecordAttempt
<1>12. CASE MarkFailed(d)
  <2>1. UNCHANGED <<job, posts, unsent, heard, switched>> /\ run[d].pc = "mark"
    BY <1>12 DEF MarkFailed, RunAt, Mishap, historyVars
  <2>2. run' = [run EXCEPT ![d] = [pc |-> "throw", answer |-> run[d].answer]]
    <3>1. [run[d] EXCEPT !.pc = "throw"] = [pc |-> "throw", answer |-> run[d].answer]
      BY <1>a
    <3>2. run' = [run EXCEPT ![d] = [run[d] EXCEPT !.pc = "throw"]]
      BY <1>12 DEF MarkFailed, RunGoto
    <3> QED
      BY <3>1, <3>2
  <2>3. CASE CountAttempt(d, "FAILED") /\ UNCHANGED historyVars
    <3>1. /\ delivery' = [delivery EXCEPT ![d] = [status |-> "FAILED",
                                                attempts |-> delivery[d].attempts + 1]]
          /\ UNCHANGED mishaps
      BY <2>3 DEF CountAttempt, historyVars
    <3>2. WebhooksShape'
      BY <1>0, <1>a, <1>b, <2>1, <2>2, <3>1 DEF WebhooksShape
    <3>3. Honest(d)' /\ Recorded(d)' /\ Counted(d)'
      BY <1>0, <1>b, <2>1, <2>2, <3>1 DEF WebhooksShape, Honest, Recorded, Counted,
           Posted, Settled, Owed, Unrecorded
    <3> QED
      BY <1>0, <2>1, <2>2, <3>1, <3>2, <3>3, WebhooksOneDelivery DEF WebhooksShape
  <2>4. CASE UNCHANGED delivery /\ Mishap(d)
    <3>1. UNCHANGED delivery /\ mishaps' = [mishaps EXCEPT ![d] = mishaps[d] + 1]
      BY <2>4 DEF Mishap
    <3>2. WebhooksShape'
      BY <1>0, <1>a, <1>b, <2>1, <2>2, <3>1 DEF WebhooksShape
    <3>3. Honest(d)' /\ Recorded(d)' /\ Counted(d)'
      BY <1>0, <1>b, <2>1, <2>2, <3>1 DEF WebhooksShape, Honest, Recorded, Counted,
           Posted, Settled, Owed, Unrecorded
    <3> QED
      BY <1>0, <2>1, <2>2, <3>1, <3>2, <3>3, WebhooksOneDelivery DEF WebhooksShape
  <2> QED
    BY <1>12, <2>3, <2>4 DEF MarkFailed
<1> QED
  BY <1>1, <1>2, <1>3, <1>4, <1>5, <1>6, <1>7, <1>8, <1>9, <1>10, <1>11, <1>12 DEF Work

LEMMA WebhooksStepKeeps == WebhooksInv /\ [WebhooksNext]_webhookVars => WebhooksInv'
<1> SUFFICES ASSUME WebhooksInv, [WebhooksNext]_webhookVars PROVE WebhooksInv'
  OBVIOUS
<1>1. CASE UNCHANGED webhookVars
  BY <1>1 DEF webhookVars, historyVars, WebhooksInv, WebhooksShape, Honest, Recorded, Counted,
     Posted, Settled, Owed, Unrecorded
<1> QED
  BY <1>1, WebhooksActionKeeps DEF WebhooksNext

\* What a delivery costs the endpoint and what its row says of it: DELIVERED only
\* of what the endpoint took; taken twice, shown otherwise or counted wrong only
\* for as many updates and workers as failed (webhook.worker.ts:53 to :80).
THEOREM RecordsAreHonest == WebhooksSpec => []RecordIsHonest
<1>1. WebhooksInv => RecordIsHonest
  <2> SUFFICES ASSUME WebhooksInv, NEW d \in Deliveries
               PROVE  /\ delivery[d].status = "DELIVERED" => heard[d] > 0
                      /\ heard[d] <= 1 + mishaps[d]
                      /\ mishaps[d] = 0 /\ heard[d] > 0 /\ run[d].pc # "record"
                           => delivery[d].status = "DELIVERED"
                      /\ delivery[d].attempts <= posts[d] + unsent[d] + mishaps[d]
                      /\ posts[d] + unsent[d] <= delivery[d].attempts + mishaps[d]
                           + (IF run[d].pc \in {"record", "mark"} THEN 1 ELSE 0)
    BY DEF RecordIsHonest, RunAt
  <2>1. /\ delivery[d].attempts \in Nat /\ mishaps[d] \in Nat
        /\ posts[d] \in Nat /\ unsent[d] \in Nat /\ heard[d] \in Nat
    BY DEF WebhooksInv, WebhooksShape
  <2>2. Honest(d) /\ Recorded(d)
    BY DEF WebhooksInv
  <2> QED
    BY <2>1, <2>2 DEF Honest, Recorded, Unrecorded
<1> QED
  BY <1>1, WebhooksInitially, WebhooksStepKeeps, PTL DEF WebhooksSpec

\* A delivery is posted at most once more than its job has attempts: each
\* request is a try, or ended in the one stall after which BullMQ runs a job
\* again (webhooks.service.ts:50 and :82), and each comes to two updates at most.
THEOREM PostsAreBounded == WebhooksSpec => []WebhooksTypeOK
<1>1. WebhooksInv => WebhooksTypeOK
  <2> SUFFICES ASSUME WebhooksInv PROVE WebhooksTypeOK
    OBVIOUS
  <2>1. ASSUME NEW d \in Deliveries
        PROVE  /\ posts[d] \in 0..MaxRuns /\ unsent[d] \in 0..MaxRuns /\ heard[d] \in 0..MaxRuns
               /\ delivery[d].attempts \in 0..2 * MaxRuns /\ mishaps[d] \in 0..2 * MaxRuns + 2
    <3>1. WebhooksShape /\ Counted(d)
      BY DEF WebhooksInv
    <3>0. /\ job[d].tries \in Nat /\ job[d].stalls \in 0..2
          /\ posts[d] \in Nat /\ unsent[d] \in Nat /\ heard[d] \in Nat
          /\ delivery[d].attempts \in Nat /\ mishaps[d] \in Nat
      BY <3>1 DEF WebhooksShape
    <3>2. posts[d] + unsent[d] <= Attempts + 1
      <4>2. CASE job[d].state = "failed"
        BY <3>1, <3>0, <4>2 DEF Counted, Posted
      <4>3. CASE job[d].state # "failed"
        BY <3>1, <3>0, <4>3 DEF Counted
      <4> QED
        BY <4>2, <4>3
    <3>3. /\ delivery[d].attempts <= 2 * (posts[d] + unsent[d])
          /\ mishaps[d] <= 2 * (posts[d] + unsent[d]) + job[d].stalls
      BY <3>0, <3>1 DEF Counted, Owed
    <3> QED
      BY <3>0, <3>1, <3>2, <3>3 DEF Counted, MaxRuns
  <2>2. ASSUME NEW d \in Deliveries
        PROVE  delivery[d] \in [status : RowStates, attempts : 0..2 * MaxRuns]
    <3>1. delivery[d] \in [status : RowStates, attempts : Nat]
      BY DEF WebhooksInv, WebhooksShape
    <3> QED
      BY <2>1, <3>1
  <2> QED
    BY <2>1, <2>2 DEF WebhooksInv, WebhooksShape, WebhooksTypeOK
<1> QED
  BY <1>1, WebhooksInitially, WebhooksStepKeeps, PTL DEF WebhooksSpec

----------------------------------------------------------------------------
(* The search of places *)

PlaceShape ==
  /\ search \in [Searches -> [pc : SearchPCs, key : CacheKeys]]
  /\ queue \in Seq(Searches)
  /\ pause \in [Searches -> 0..NotStarted]
  /\ since \in 0..Interval

\* Only the job at the head of the chain has started, and its timer and the
\* time since the last call fill the interval.
HeadWaits ==
  \A q \in Searches :
    pause[q] # NotStarted => Chained(q) /\ pause[q] <= Interval /\ pause[q] + since >= Interval

PlaceInv == PlaceShape /\ HeadWaits

LEMMA PlaceInitially == PlaceInit => PlaceInv
BY DEF PlaceInit, PlaceInv, PlaceShape, HeadWaits, SearchPCs, NotStarted

\* What joins the chain does not change its head.
LEMMA EnqueueKeepsHead ==
  ASSUME PlaceShape, NEW q \in Searches, NEW pc \in SearchPCs, Enqueue(q, pc)
  PROVE  /\ queue' \in Seq(Searches)
         /\ search' \in [Searches -> [pc : SearchPCs, key : CacheKeys]]
         /\ \A x \in Searches : Chained(x) => Chained(x)'
<1>1. queue' = Append(queue, q) /\ search' = [search EXCEPT ![q].pc = pc]
  BY DEF Enqueue, SearchGoto
<1>2. queue \in Seq(Searches) /\ search \in [Searches -> [pc : SearchPCs, key : CacheKeys]]
  BY DEF PlaceShape
<1>3. queue' \in Seq(Searches) /\ (queue # <<>> => queue' # <<>> /\ Head(queue') = Head(queue))
  BY <1>1, <1>2
<1>4. search' \in [Searches -> [pc : SearchPCs, key : CacheKeys]]
  BY <1>1, <1>2
<1> QED
  BY <1>3, <1>4 DEF Chained

\* Steps that leave the timers alone.
LEMMA TimersLeft ==
  ASSUME PlaceInv, UNCHANGED <<pause, since>>, queue' \in Seq(Searches),
         search' \in [Searches -> [pc : SearchPCs, key : CacheKeys]],
         \A x \in Searches : Chained(x) => Chained(x)'
  PROVE  PlaceInv'
BY DEF PlaceInv, PlaceShape, HeadWaits, NotStarted

LEMMA PlaceStepKeeps == PlaceInv /\ [PlaceNext]_placeVars => PlaceInv'
<1> SUFFICES ASSUME PlaceInv, [PlaceNext]_placeVars PROVE PlaceInv'
  OBVIOUS
<1>0. PlaceShape /\ HeadWaits
  BY DEF PlaceInv
<1>1. CASE PlaceTick
  <2>1. UNCHANGED <<search, queue>> /\ since' = (IF since = Interval THEN since ELSE since + 1)
    BY <1>1 DEF PlaceTick
  <2>2. \A q \in Searches : pause'[q] = IF pause[q] = NotStarted THEN pause[q] ELSE Less(pause[q])
    BY <1>1 DEF PlaceTick
  <2>3. since' \in 0..Interval /\ since' >= since
    BY <1>0, <2>1 DEF PlaceShape
  <2>4. pause' \in [Searches -> 0..NotStarted]
    BY <1>0, <1>1, <2>2 DEF PlaceTick, PlaceShape, Less, NotStarted
  <2>5. HeadWaits'
    <3> SUFFICES ASSUME NEW q \in Searches, pause'[q] # NotStarted
                 PROVE  Chained(q)' /\ pause'[q] <= Interval /\ pause'[q] + since' >= Interval
      BY DEF HeadWaits, NotStarted
    <3>1. pause[q] # NotStarted /\ pause'[q] = Less(pause[q])
      BY <2>2
    <3>2. Chained(q) /\ pause[q] <= Interval /\ pause[q] + since >= Interval
      BY <1>0, <3>1 DEF HeadWaits
    <3>3. pause[q] \in Nat /\ since \in Nat /\ since <= Interval
      BY <1>0 DEF PlaceShape
    <3>4. pause'[q] <= Interval /\ pause'[q] + since' >= Interval
      BY <2>1, <3>1, <3>2, <3>3 DEF Less
    <3> QED
      BY <2>1, <3>2, <3>4 DEF Chained
  <2> QED
    BY <1>0, <2>1, <2>3, <2>4, <2>5 DEF PlaceInv, PlaceShape
<1>2. ASSUME NEW q \in Searches, NEW k \in CacheKeys, Post(q, k) PROVE PlaceInv'
  <2>1. search' \in [Searches -> [pc : SearchPCs, key : CacheKeys]]
    BY <1>0, <1>2 DEF Post, PlaceShape, SearchPCs
  <2> QED
    BY <1>0, <1>2, <2>1, TimersLeft DEF Post, PlaceShape, Chained
<1>3. ASSUME NEW q \in Searches, ValidateSession(q) \/ ConsumeQuota(q) \/ ReadBody(q) \/ Located(q) \/ Found(q)
      PROVE  PlaceInv'
  <2>1. UNCHANGED <<pause, since>>
    BY <1>3 DEF ValidateSession, ConsumeQuota, ReadBody, Located, Found
  <2>2. \E pc \in SearchPCs : Enqueue(q, pc) \/ (SearchGoto(q, pc) /\ UNCHANGED queue)
    BY <1>3 DEF ValidateSession, ConsumeQuota, ReadBody, Located, Found, SearchPCs
  <2>3. PICK pc \in SearchPCs : Enqueue(q, pc) \/ (SearchGoto(q, pc) /\ UNCHANGED queue)
    BY <2>2
  <2>4. CASE Enqueue(q, pc)
    BY <1>0, <2>1, <2>4, EnqueueKeepsHead, TimersLeft
  <2>5. CASE SearchGoto(q, pc) /\ UNCHANGED queue
    <3>1. search' \in [Searches -> [pc : SearchPCs, key : CacheKeys]]
      BY <1>0, <2>5 DEF SearchGoto, PlaceShape
    <3> QED
      BY <1>0, <2>1, <2>5, <3>1, TimersLeft DEF PlaceShape, Chained
  <2> QED
    BY <2>3, <2>4, <2>5
<1>4. ASSUME NEW q \in Searches, StartPause(q) PROVE PlaceInv'
  <2>1. /\ pause' = [pause EXCEPT ![q] = Interval - since]
        /\ UNCHANGED <<search, queue, since>> /\ Chained(q)
    BY <1>4 DEF StartPause
  <2>2. Interval - since \in 0..Interval
    BY <1>0 DEF PlaceShape
  <2>3. HeadWaits'
    BY <1>0, <2>1, <2>2 DEF PlaceShape, HeadWaits, Chained, NotStarted
  <2> QED
    BY <1>0, <2>1, <2>2, <2>3 DEF PlaceInv, PlaceShape, NotStarted
<1>5. ASSUME NEW q \in Searches, EndPause(q) PROVE PlaceInv'
  <2>1. /\ pause' = [pause EXCEPT ![q] = NotStarted] /\ since' = 0
        /\ queue' = Tail(queue) /\ Chained(q)
    BY <1>5 DEF EndPause, Rest
  <2>2. queue' \in Seq(Searches)
    BY <1>0, <2>1 DEF PlaceShape, Chained
  <2>3. search' \in [Searches -> [pc : SearchPCs, key : CacheKeys]]
    BY <1>0, <1>5 DEF EndPause, SearchGoto, PlaceShape, SearchPCs
  <2>4. \A x \in Searches : pause'[x] = NotStarted
    BY <1>0, <2>1 DEF PlaceShape, HeadWaits, Chained
  <2>5. pause' \in [Searches -> 0..NotStarted]
    BY <1>0, <2>1 DEF PlaceShape, NotStarted
  <2>6. HeadWaits'
    BY <2>4 DEF HeadWaits, NotStarted
  <2> QED
    BY <2>1, <2>2, <2>3, <2>5, <2>6 DEF PlaceInv, PlaceShape
<1>6. CASE UNCHANGED placeVars
  BY <1>6 DEF placeVars, PlaceInv, PlaceShape, HeadWaits, Chained
<1> QED
  BY <1>1, <1>2, <1>3, <1>4, <1>5, <1>6 DEF PlaceNext, Serve

\* A search that leaves the chain does so when its timer has fired.
LEMMA CallsAreTimed ==
  ASSUME PlaceInv, [PlaceNext]_placeVars, NEW q \in Searches,
         \/ SearchAt(q, "locate") /\ search'[q].pc = "located"
         \/ SearchAt(q, "find") /\ search'[q].pc = "found"
  PROVE  since = Interval
<1>1. search'[q].pc # search[q].pc /\ search[q].pc \in {"locate", "find"}
      /\ search \in [Searches -> [pc : SearchPCs, key : CacheKeys]]
  BY DEF SearchAt, PlaceInv, PlaceShape
<1>2. ~PlaceTick /\ ~UNCHANGED placeVars
  BY <1>1 DEF PlaceTick, placeVars
<1>3. \A x \in Searches, k \in CacheKeys : ~Post(x, k)
  BY <1>1 DEF Post, SearchAt
<1>4. \A x \in Searches : ~(ValidateSession(x) \/ ConsumeQuota(x) \/ ReadBody(x) \/ Located(x) \/ Found(x) \/ StartPause(x))
  BY <1>1 DEF ValidateSession, ConsumeQuota, ReadBody, Located, Found, StartPause, Enqueue, SearchGoto, SearchAt
<1>5. PICK x \in Searches : EndPause(x)
  BY <1>2, <1>3, <1>4 DEF PlaceNext, Serve
<1>6. pause[x] = 0
  BY <1>5 DEF EndPause
<1> QED
  BY <1>6 DEF PlaceInv, PlaceShape, HeadWaits, NotStarted

\* However many searches wait, and whichever of them fail, a call to the
\* geocoder goes out a whole interval after the one before it (route.ts:264).
THEOREM CallsAreSpaced == PlaceSpec => UpstreamPaced
<1>1. PlaceInv /\ [PlaceNext]_placeVars =>
        [\A q \in Searches :
           \/ SearchAt(q, "locate") /\ search'[q].pc = "located"
           \/ SearchAt(q, "find") /\ search'[q].pc = "found"
           => since = Interval]_placeVars
  BY CallsAreTimed
<1> QED
  BY <1>1, PlaceInitially, PlaceStepKeeps, PTL DEF PlaceSpec, UpstreamPaced

----------------------------------------------------------------------------
(* Pairing a phone *)

SessionRow ==
  [state : PairingStates, active : BOOLEAN, readers : 0..1, cancelled : BOOLEAN,
   connected : BOOLEAN, paired : BOOLEAN, loggedIn : BOOLEAN,
   item : {"none", "success", "timeout", "error", "closed"}]

BridgeShape ==
  /\ mapped \in 0..MaxSessions
  /\ session \in [SessionIds -> SessionRow]
  /\ connect \in [pc : ConnectPCs, session : 0..MaxSessions, new : BOOLEAN]
  /\ device \in BOOLEAN

ConnectWorks == {"pair", "channel", "dial", "redial", "restore"}

\* A Connect under way works on the session in the map. While it opens a channel
\* nobody reads the codes of that session, nobody has read those of a session it
\* made itself, and such a session has no pairing to join.
ConnectOwns ==
  ConnectAt(connect.pc) /\ connect.pc \in ConnectWorks =>
    /\ connect.session = mapped /\ mapped \in SessionIds
    /\ ConnectAt("channel") => session[mapped].active /\ session[mapped].readers = 0
    /\ connect.new /\ connect.pc \in {"pair", "restore"} =>
         ~session[mapped].active /\ session[mapped].readers = 0
    /\ ConnectAt("redial") => ~connect.new

BridgeInv == BridgeShape /\ ConnectOwns /\ PairingAlive

LEMMA BridgeInitially == BridgeInit => BridgeInv
<1> SUFFICES ASSUME BridgeInit PROVE BridgeInv
  OBVIOUS
<1>1. NoSession \in SessionRow
  BY DEF NoSession, SessionRow, PairingStates
<1>2. BridgeShape
  <2>1. session \in [SessionIds -> SessionRow]
    BY <1>1 DEF BridgeInit
  <2>2. connect \in [pc : ConnectPCs, session : 0..MaxSessions, new : BOOLEAN]
    BY DEF BridgeInit, ConnectPCs
  <2> QED
    BY <2>1, <2>2 DEF BridgeInit, BridgeShape
<1>3. ConnectOwns
  BY DEF BridgeInit, ConnectOwns, ConnectWorks
<1>4. PairingAlive
  BY DEF BridgeInit, PairingAlive, NoSession, Pending
<1> QED
  BY <1>2, <1>3, <1>4 DEF BridgeInv

\* What the phone, the client and its events change is neither who reads the
\* codes nor whether a pairing is active, and they start none.
LEMMA ClientKeeps ==
  ASSUME BridgeInv, NEW s \in SessionIds, NEW r \in SessionRow,
         session' = [session EXCEPT ![s] = r], UNCHANGED <<mapped, connect>>, device' \in BOOLEAN,
         r.active = session[s].active, r.readers = session[s].readers,
         r.cancelled = session[s].cancelled,
         r.state \in Pending => session[s].state \in Pending \/ session[s].readers > 0
  PROVE  BridgeInv'
<1>1. /\ \A t \in SessionIds \ {s} : session'[t] = session[t]
      /\ session'[s] = r /\ session' \in [SessionIds -> SessionRow]
  BY DEF BridgeInv, BridgeShape
<1>2. BridgeShape'
  BY <1>1 DEF BridgeInv, BridgeShape
<1>3. ConnectOwns'
  BY <1>1 DEF BridgeInv, ConnectOwns, ConnectAt
<1>4. PairingAlive'
  <2> SUFFICES ASSUME NEW t \in SessionIds
               PROVE  /\ session'[t].readers <= 1
                      /\ session'[t].readers > 0 =>
                           session'[t].active /\ (t # mapped => session'[t].cancelled)
                      /\ session'[t].state \in Pending =>
                           session'[t].readers > 0 \/ (ConnectAt("channel") /\ connect.session = t)
    BY DEF PairingAlive, ConnectAt
  <2>1. CASE t # s
    BY <1>1, <2>1 DEF BridgeInv, PairingAlive
  <2>2. CASE t = s
    BY <1>1, <2>2 DEF BridgeInv, PairingAlive
  <2> QED
    BY <2>1, <2>2
<1> QED
  BY <1>2, <1>3, <1>4 DEF BridgeInv

LEMMA ClientStepKeeps ==
  ASSUME BridgeInv, NEW s \in SessionIds,
         ReadCode(s) \/ ReadItem(s) \/ Scan(s) \/ GiveUp(s) \/ Connected(s) \/ LinkLost(s)
           \/ LoggedOut(s)
  PROVE  BridgeInv'
<1> USE DEF PairingStates, Pending
<1>0. session \in [SessionIds -> SessionRow] /\ session[s] \in SessionRow /\ device \in BOOLEAN
  BY DEF BridgeInv, BridgeShape
<1>1. CASE ReadCode(s)
  <2>1. PICK r \in SessionRow : r = [session[s] EXCEPT !.state = "waiting_for_scan"]
    BY <1>0 DEF SessionRow
  <2>2. /\ r.active = session[s].active /\ r.readers = session[s].readers
        /\ r.cancelled = session[s].cancelled
    BY <1>0, <2>1 DEF SessionRow
  <2>3. /\ session' = [session EXCEPT ![s] = r] /\ UNCHANGED <<mapped, connect>> /\ device' \in BOOLEAN
        /\ session[s].readers > 0
    BY <1>0, <1>1, <2>1 DEF ReadCode, ChannelOpen
  <2> QED
    BY <2>2, <2>3, ClientKeeps
<1>2. CASE ReadItem(s)
  <2>1. Shown(session[s].item) \in {"paired", "expired", "error"}
    BY DEF Shown
  <2>2. PICK r \in SessionRow :
          r = [session[s] EXCEPT !.item = "closed", !.state = Shown(session[s].item)]
    BY <1>0, <2>1 DEF SessionRow
  <2>3. /\ r.active = session[s].active /\ r.readers = session[s].readers
        /\ r.cancelled = session[s].cancelled /\ r.state = Shown(session[s].item)
    BY <1>0, <2>2 DEF SessionRow
  <2>4. /\ session' = [session EXCEPT ![s] = r] /\ UNCHANGED <<mapped, connect>> /\ device' \in BOOLEAN
    BY <1>0, <1>2, <2>2 DEF ReadItem
  <2> QED
    BY <2>1, <2>3, <2>4, ClientKeeps
<1>3. CASE Scan(s)
  <2>1. PICK r \in SessionRow : r = [session[s] EXCEPT !.item = "success", !.paired = TRUE]
    BY <1>0 DEF SessionRow
  <2>2. /\ r.active = session[s].active /\ r.readers = session[s].readers
        /\ r.cancelled = session[s].cancelled /\ r.state = session[s].state
    BY <1>0, <2>1 DEF SessionRow
  <2>3. /\ session' = [session EXCEPT ![s] = r] /\ UNCHANGED <<mapped, connect>> /\ device' \in BOOLEAN
    BY <1>0, <1>3, <2>1 DEF Scan
  <2> QED
    BY <2>2, <2>3, ClientKeeps
<1>4. CASE GiveUp(s)
  <2>1. CASE \E item \in {"timeout", "error"} :
               session' = [session EXCEPT ![s].item = item, ![s].connected = FALSE]
    <3>1. PICK item \in {"timeout", "error"} :
            session' = [session EXCEPT ![s].item = item, ![s].connected = FALSE]
      BY <2>1
    <3>2. PICK r \in SessionRow : r = [session[s] EXCEPT !.item = item, !.connected = FALSE]
      BY <1>0 DEF SessionRow
    <3>3. /\ r.active = session[s].active /\ r.readers = session[s].readers
          /\ r.cancelled = session[s].cancelled /\ r.state = session[s].state
      BY <1>0, <3>2 DEF SessionRow
    <3>4. session' = [session EXCEPT ![s] = r] /\ UNCHANGED <<mapped, connect>> /\ device' \in BOOLEAN
      BY <1>0, <1>4, <3>1, <3>2 DEF GiveUp
    <3> QED
      BY <3>3, <3>4, ClientKeeps
  <2>2. CASE session' = [session EXCEPT ![s].connected = FALSE]
    <3>1. PICK r \in SessionRow : r = [session[s] EXCEPT !.connected = FALSE]
      BY <1>0 DEF SessionRow
    <3>2. /\ r.active = session[s].active /\ r.readers = session[s].readers
          /\ r.cancelled = session[s].cancelled /\ r.state = session[s].state
      BY <1>0, <3>1 DEF SessionRow
    <3>3. session' = [session EXCEPT ![s] = r] /\ UNCHANGED <<mapped, connect>> /\ device' \in BOOLEAN
      BY <1>0, <1>4, <2>2, <3>1 DEF GiveUp
    <3> QED
      BY <3>2, <3>3, ClientKeeps
  <2> QED
    BY <1>4, <2>1, <2>2 DEF GiveUp
<1>5. CASE Connected(s)
  <2>1. PICK r \in SessionRow :
          r = [session[s] EXCEPT !.connected = TRUE, !.loggedIn = TRUE, !.state = "connected"]
    BY <1>0 DEF SessionRow
  <2>2. /\ r.active = session[s].active /\ r.readers = session[s].readers
        /\ r.cancelled = session[s].cancelled /\ r.state = "connected"
    BY <1>0, <2>1 DEF SessionRow
  <2>3. session' = [session EXCEPT ![s] = r] /\ UNCHANGED <<mapped, connect>> /\ device' \in BOOLEAN
    BY <1>0, <1>5, <2>1 DEF Connected
  <2> QED
    BY <2>2, <2>3, ClientKeeps
<1>6. CASE LinkLost(s)
  <2>1. PICK r \in SessionRow : r = [session[s] EXCEPT !.connected = FALSE, !.loggedIn = FALSE]
    BY <1>0 DEF SessionRow
  <2>2. /\ r.active = session[s].active /\ r.readers = session[s].readers
        /\ r.cancelled = session[s].cancelled /\ r.state = session[s].state
    BY <1>0, <2>1 DEF SessionRow
  <2>3. session' = [session EXCEPT ![s] = r] /\ UNCHANGED <<mapped, connect>> /\ device' \in BOOLEAN
    BY <1>0, <1>6, <2>1 DEF LinkLost
  <2> QED
    BY <2>2, <2>3, ClientKeeps
<1>7. CASE LoggedOut(s)
  <2>1. PICK r \in SessionRow :
          r = [session[s] EXCEPT !.connected = FALSE, !.loggedIn = FALSE, !.paired = FALSE,
                                 !.state = "logged_out"]
    BY <1>0 DEF SessionRow
  <2>2. /\ r.active = session[s].active /\ r.readers = session[s].readers
        /\ r.cancelled = session[s].cancelled /\ r.state = "logged_out"
    BY <1>0, <2>1 DEF SessionRow
  <2>3. session' = [session EXCEPT ![s] = r] /\ UNCHANGED <<mapped, connect>> /\ device' \in BOOLEAN
    BY <1>0, <1>7, <2>1 DEF LoggedOut
  <2> QED
    BY <2>2, <2>3, ClientKeeps
<1> QED
  BY <1>1, <1>2, <1>3, <1>4, <1>5, <1>6, <1>7

\* A goroutine ends: the pairing is no longer active, nor shown as under way.
LEMMA EndReaderKeeps ==
  ASSUME BridgeInv, NEW s \in SessionIds, EndReader(s)
  PROVE  BridgeInv'
<1>0. /\ session \in [SessionIds -> SessionRow] /\ session[s] \in SessionRow
      /\ session[s].readers = 1 /\ UNCHANGED <<mapped, connect, device>>
  BY DEF BridgeInv, BridgeShape, EndReader, SessionRow
<1>1. StateAfter(session[s].state) \in PairingStates \ Pending
  BY <1>0 DEF StateAfter, SessionRow, PairingStates, Pending
<1>2. PICK r \in SessionRow :
        r = [session[s] EXCEPT !.readers = session[s].readers - 1, !.active = FALSE,
                               !.state = StateAfter(session[s].state)]
  <2>1. session[s].readers - 1 \in 0..1
    BY <1>0
  <2> QED
    BY <1>0, <1>1, <2>1 DEF SessionRow
<1>3. r.readers = 0 /\ ~r.active /\ r.state \notin Pending
  BY <1>0, <1>1, <1>2 DEF SessionRow
<1>4. session' = [session EXCEPT ![s] = r]
  BY <1>0, <1>2 DEF EndReader
<1>5. /\ \A t \in SessionIds \ {s} : session'[t] = session[t]
      /\ session'[s] = r /\ session' \in [SessionIds -> SessionRow]
  BY <1>0, <1>4
<1>6. BridgeShape'
  BY <1>0, <1>5 DEF BridgeInv, BridgeShape
<1>7. ConnectOwns'
  BY <1>0, <1>3, <1>5 DEF BridgeInv, ConnectOwns, ConnectAt
<1>8. PairingAlive'
  BY <1>0, <1>3, <1>5 DEF BridgeInv, PairingAlive, ConnectAt
<1> QED
  BY <1>6, <1>7, <1>8 DEF BridgeInv

----------------------------------------------------------------------------
(* Connect *)

\* A step of Connect that ends it, or leaves the channel to be opened by nobody.
LEMMA ConnectEnds ==
  ASSUME BridgeInv, connect' \in [pc : ConnectPCs, session : 0..MaxSessions, new : BOOLEAN],
         connect'.pc \notin ConnectWorks, ~ConnectAt("channel"),
         UNCHANGED <<mapped, session, device>>
  PROVE  BridgeInv'
<1>1. BridgeShape'
  BY DEF BridgeInv, BridgeShape
<1>2. ConnectOwns'
  BY DEF ConnectOwns
<1>3. PairingAlive'
  BY DEF BridgeInv, PairingAlive
<1> QED
  BY <1>1, <1>2, <1>3 DEF BridgeInv

LEMMA ConnectType ==
  ASSUME BridgeShape, NEW pc \in ConnectPCs, ConnectGoto(pc)
  PROVE  /\ connect' \in [pc : ConnectPCs, session : 0..MaxSessions, new : BOOLEAN]
         /\ connect'.pc = pc /\ connect'.session = connect.session /\ connect'.new = connect.new
BY DEF BridgeShape, ConnectGoto

LEMMA FindSessionKeeps ==
  ASSUME BridgeInv, FindSession
  PROVE  BridgeInv'
<1>1. PICK pc \in {"restore", "pair"} :
        connect' = [pc |-> pc, session |-> mapped, new |-> FALSE]
  BY DEF FindSession, Route
<1>2. /\ mapped \in SessionIds /\ UNCHANGED <<mapped, session, device>> /\ ~ConnectAt("channel")
  BY DEF FindSession, BridgeInv, BridgeShape, SessionIds, ConnectAt
<1>3. BridgeShape'
  BY <1>1, <1>2 DEF BridgeInv, BridgeShape, ConnectPCs, SessionIds
<1>4. ConnectOwns'
  BY <1>1, <1>2 DEF ConnectOwns, ConnectAt
<1>5. PairingAlive'
  BY <1>1, <1>2 DEF BridgeInv, PairingAlive, ConnectAt
<1> QED
  BY <1>3, <1>4, <1>5 DEF BridgeInv

LEMMA NewSessionKeeps ==
  ASSUME BridgeInv, NEW s \in SessionIds, NewSession(s)
  PROVE  BridgeInv'
<1>0. /\ session \in [SessionIds -> SessionRow] /\ device \in BOOLEAN
      /\ session[s].readers = 0 /\ mapped = 0
  BY DEF BridgeInv, BridgeShape, NewSession, Referred, SessionRow
<1>1. PICK r \in SessionRow :
        r = [NoSession EXCEPT !.state = "initializing", !.paired = device]
  BY <1>0 DEF NoSession, SessionRow, PairingStates
<1>2. r.readers = 0 /\ ~r.active /\ r.state \notin Pending
  BY <1>1 DEF NoSession, Pending
<1>3. /\ mapped' = s /\ UNCHANGED device
      /\ session' = [session EXCEPT ![s] = r]
  BY <1>1 DEF NewSession
<1>4. PICK pc \in {"restore", "pair"} : connect' = [pc |-> pc, session |-> s, new |-> TRUE]
  BY DEF NewSession, Route
<1>5. /\ \A t \in SessionIds \ {s} : session'[t] = session[t]
      /\ session'[s] = r /\ session' \in [SessionIds -> SessionRow]
  BY <1>0, <1>3
<1>6. BridgeShape'
  BY <1>0, <1>3, <1>4, <1>5 DEF BridgeShape, ConnectPCs, SessionIds
<1>7. ConnectOwns'
  BY <1>2, <1>3, <1>4, <1>5 DEF ConnectOwns, ConnectAt
<1>8. PairingAlive'
  <2>1. ~ConnectAt("channel")
    BY DEF NewSession, ConnectAt
  <2>2. \A t \in SessionIds \ {s} :
          /\ session[t].readers <= 1
          /\ session[t].readers > 0 => session[t].active /\ session[t].cancelled
          /\ session[t].state \in Pending => session[t].readers > 0
    BY <1>0, <2>1 DEF BridgeInv, PairingAlive, SessionIds
  <2> QED
    BY <1>2, <1>5, <2>2 DEF PairingAlive
<1> QED
  BY <1>6, <1>7, <1>8 DEF BridgeInv

\* Connect answers, and takes its session from the map only when nobody reads its
\* codes or the reader was cancelled.
LEMMA ConnectLeaves ==
  ASSUME BridgeInv, connect.pc \in ConnectWorks, NEW r \in SessionRow,
         session' = [session EXCEPT ![mapped] = r], mapped' \in {mapped, 0}, device' = device,
         NEW pc \in {"ok", "error"}, ConnectGoto(pc),
         r.readers > 0 => r.active /\ (mapped' = 0 => r.cancelled),
         r.state \in Pending => r.readers > 0
  PROVE  BridgeInv'
<1>0. mapped \in SessionIds /\ connect.session = mapped /\ BridgeShape
  BY DEF BridgeInv, ConnectOwns, ConnectAt
<1>1. /\ \A t \in SessionIds \ {mapped} : session'[t] = session[t]
      /\ session'[mapped] = r /\ session' \in [SessionIds -> SessionRow]
  BY <1>0 DEF BridgeShape
<1>2. connect' \in [pc : ConnectPCs, session : 0..MaxSessions, new : BOOLEAN] /\ connect'.pc = pc
  BY <1>0, ConnectType DEF ConnectPCs
<1>3. BridgeShape'
  BY <1>0, <1>1, <1>2 DEF BridgeShape
<1>4. ConnectOwns'
  BY <1>2 DEF ConnectOwns, ConnectWorks
<1>5. PairingAlive'
  <2> SUFFICES ASSUME NEW t \in SessionIds
               PROVE  /\ session'[t].readers <= 1
                      /\ session'[t].readers > 0 =>
                           session'[t].active /\ (t # mapped' => session'[t].cancelled)
                      /\ session'[t].state \in Pending => session'[t].readers > 0
    BY DEF PairingAlive
  <2>1. CASE t # mapped
    BY <1>0, <1>1, <2>1 DEF BridgeInv, PairingAlive
  <2>2. CASE t = mapped
    BY <1>0, <1>1, <2>2 DEF SessionRow, SessionIds
  <2> QED
    BY <2>1, <2>2
<1> QED
  BY <1>3, <1>4, <1>5 DEF BridgeInv

\* The same of a Connect that changes nothing but its own state and the map.
LEMMA ConnectFails ==
  ASSUME BridgeInv, connect.pc \in {"restore", "redial"}, Fails, UNCHANGED <<session, device>>
  PROVE  BridgeInv'
<1>0. mapped \in SessionIds /\ session \in [SessionIds -> SessionRow] /\ connect.pc \in ConnectWorks
  BY DEF BridgeInv, BridgeShape, ConnectOwns, ConnectAt, ConnectWorks
<1>1. session' = [session EXCEPT ![mapped] = session[mapped]] /\ session[mapped] \in SessionRow
  BY <1>0
<1>2. mapped' \in {mapped, 0} /\ (mapped' = 0 => connect.new) /\ ConnectGoto("error")
  BY <1>0 DEF Fails, SessionIds
<1>3. connect.new => session[mapped].readers = 0
  BY <1>0 DEF BridgeInv, ConnectOwns, ConnectAt
<1>4. /\ session[mapped].readers > 0 => session[mapped].active
      /\ session[mapped].state \in Pending => session[mapped].readers > 0
  BY <1>0 DEF BridgeInv, PairingAlive, ConnectAt
<1>5. PICK r \in SessionRow : r = session[mapped]
  BY <1>1
<1>6. /\ r.readers > 0 => r.active /\ (mapped' = 0 => r.cancelled)
      /\ r.state \in Pending => r.readers > 0
  BY <1>2, <1>3, <1>4, <1>5
<1>7. session' = [session EXCEPT ![mapped] = r] /\ device' = device
  BY <1>1, <1>5
<1> QED
  BY <1>0, <1>2, <1>6, <1>7, ConnectLeaves

LEMMA RestoreClientKeeps ==
  ASSUME BridgeInv, RestoreClient
  PROVE  BridgeInv'
<1>0. /\ mapped \in SessionIds /\ connect.session = mapped /\ UNCHANGED device
      /\ session \in [SessionIds -> SessionRow] /\ session[mapped] \in SessionRow
      /\ connect.pc = "restore"
  BY DEF BridgeInv, BridgeShape, ConnectOwns, ConnectAt, ConnectWorks, RestoreClient
<1>1. CASE /\ session' = [session EXCEPT ![mapped].connected = TRUE,
                                         ![mapped].state = IF session[mapped].loggedIn
                                                           THEN "connected" ELSE "reconnecting"]
           /\ ConnectGoto("ok") /\ UNCHANGED mapped
  <2>1. PICK state \in {"connected", "reconnecting"} :
          state = IF session[mapped].loggedIn THEN "connected" ELSE "reconnecting"
    OBVIOUS
  <2>2. PICK r \in SessionRow : r = [session[mapped] EXCEPT !.connected = TRUE, !.state = state]
    BY <1>0 DEF SessionRow, PairingStates
  <2>3. r.readers = session[mapped].readers /\ r.active = session[mapped].active /\ r.state = state
    BY <1>0, <2>2 DEF SessionRow
  <2>4. session' = [session EXCEPT ![mapped] = r]
    BY <1>0, <1>1, <2>1, <2>2
  <2>5. r.readers > 0 => r.active
    BY <1>0, <2>3 DEF BridgeInv, PairingAlive
  <2> QED
    <3>1. connect.pc \in ConnectWorks /\ r.state \notin Pending /\ mapped' # 0
      BY <1>0, <1>1, <2>1, <2>3 DEF ConnectWorks, Pending, SessionIds
    <3> QED
      BY <1>0, <1>1, <2>4, <2>5, <3>1, ConnectLeaves
<1>2. CASE Fails /\ UNCHANGED session
  BY <1>0, <1>2, ConnectFails
<1> QED
  BY <1>0, <1>1, <1>2 DEF RestoreClient

\* Either somebody reads the codes already, or a channel is to be opened.
LEMMA EnsurePairingKeeps ==
  ASSUME BridgeInv, EnsurePairing
  PROVE  BridgeInv'
<1>0. /\ mapped \in SessionIds /\ connect.session = mapped /\ UNCHANGED <<mapped, device>>
      /\ session \in [SessionIds -> SessionRow] /\ session[mapped] \in SessionRow
      /\ connect.pc = "pair" /\ BridgeShape
      /\ connect.new => ~session[mapped].active /\ session[mapped].readers = 0
  BY DEF BridgeInv, BridgeShape, ConnectOwns, ConnectAt, ConnectWorks, EnsurePairing
<1>1. CASE session[mapped].active
  <2>1. ConnectGoto("redial") /\ UNCHANGED session
    BY <1>0, <1>1 DEF EnsurePairing, PairingActive
  <2>2. /\ connect' \in [pc : ConnectPCs, session : 0..MaxSessions, new : BOOLEAN]
        /\ connect'.pc = "redial" /\ connect'.session = connect.session
        /\ connect'.new = connect.new
    BY <1>0, <2>1, ConnectType DEF ConnectPCs
  <2>3. BridgeShape' /\ ConnectOwns'
    BY <1>0, <1>1, <2>1, <2>2 DEF BridgeShape, ConnectOwns, ConnectAt
  <2>4. PairingAlive'
    BY <1>0, <2>1, <2>2 DEF BridgeInv, PairingAlive, ConnectAt
  <2> QED
    BY <2>3, <2>4 DEF BridgeInv
<1>2. CASE ~session[mapped].active
  <2>1. PICK r \in SessionRow : r = [session[mapped] EXCEPT !.active = TRUE, !.state = "starting"]
    BY <1>0 DEF SessionRow, PairingStates, Pending
  <2>2. r.active /\ r.readers = 0
    BY <1>0, <1>2, <2>1 DEF BridgeInv, PairingAlive, SessionRow
  <2>3. ConnectGoto("channel") /\ session' = [session EXCEPT ![mapped] = r]
    BY <1>0, <1>2, <2>1 DEF EnsurePairing, PairingActive
  <2>4. /\ connect' \in [pc : ConnectPCs, session : 0..MaxSessions, new : BOOLEAN]
        /\ connect'.pc = "channel" /\ connect'.session = mapped
    BY <1>0, <2>3, ConnectType DEF ConnectPCs
  <2>5. /\ \A t \in SessionIds \ {mapped} : session'[t] = session[t]
        /\ session'[mapped] = r /\ session' \in [SessionIds -> SessionRow]
    BY <1>0, <2>3
  <2>6. BridgeShape' /\ ConnectOwns'
    BY <1>0, <2>2, <2>4, <2>5 DEF BridgeShape, ConnectOwns, ConnectAt
  <2>7. PairingAlive'
    BY <1>0, <2>2, <2>4, <2>5 DEF BridgeInv, PairingAlive, ConnectAt
  <2> QED
    BY <2>6, <2>7 DEF BridgeInv
<1> QED
  BY <1>1, <1>2

LEMMA OpenChannelKeeps ==
  ASSUME BridgeInv, OpenChannel
  PROVE  BridgeInv'
<1>0. /\ mapped \in SessionIds /\ connect.session = mapped /\ UNCHANGED device
      /\ session \in [SessionIds -> SessionRow] /\ session[mapped] \in SessionRow
      /\ connect.pc = "channel" /\ BridgeShape
      /\ session[mapped].active /\ session[mapped].readers = 0
  BY DEF BridgeInv, BridgeShape, ConnectOwns, ConnectAt, ConnectWorks, OpenChannel
<1>1. CASE session[mapped].connected
  <2>1. PICK r \in SessionRow : r = [session[mapped] EXCEPT !.active = FALSE, !.state = "error"]
    BY ZenonT(60), <1>0 DEF SessionRow, PairingStates
  <2>2. r.readers = 0 /\ r.state = "error"
    BY <1>0, <2>1 DEF SessionRow
  <2>3. Fails /\ session' = [session EXCEPT ![mapped] = r]
    BY <1>0, <1>1, <2>1 DEF OpenChannel
  <2>4. mapped' \in {mapped, 0} /\ ConnectGoto("error")
    BY <2>3 DEF Fails
  <2>5. connect.pc \in ConnectWorks /\ r.state \notin Pending /\ ~(r.readers > 0)
    BY <1>0, <2>2 DEF ConnectWorks, Pending
  <2> QED
    BY <1>0, <2>3, <2>4, <2>5, ConnectLeaves
<1>2. CASE ~session[mapped].connected
  <2>1. PICK r \in SessionRow :
          r = [session[mapped] EXCEPT !.readers = session[mapped].readers + 1,
                                      !.cancelled = FALSE, !.item = "none"]
    <3>1. session[mapped].readers + 1 \in 0..1
      BY <1>0
    <3> QED
      BY <1>0, <3>1 DEF SessionRow
  <2>2. r.readers = 1 /\ r.active
    BY <1>0, <2>1 DEF SessionRow
  <2>3. /\ session' = [session EXCEPT ![mapped] = r] /\ ConnectGoto("dial") /\ UNCHANGED mapped
    BY ZenonT(60), <1>0, <1>2, <2>1 DEF OpenChannel
  <2>4. /\ connect' \in [pc : ConnectPCs, session : 0..MaxSessions, new : BOOLEAN]
        /\ connect'.pc = "dial" /\ connect'.session = mapped
    BY <1>0, <2>3, ConnectType DEF ConnectPCs
  <2>5. /\ \A t \in SessionIds \ {mapped} : session'[t] = session[t]
        /\ session'[mapped] = r /\ session' \in [SessionIds -> SessionRow]
    BY <1>0, <2>3
  <2>6. BridgeShape' /\ ConnectOwns'
    BY <1>0, <2>3, <2>4, <2>5 DEF BridgeShape, ConnectOwns, ConnectAt
  <2>7. PairingAlive'
    BY <1>0, <2>2, <2>3, <2>4, <2>5 DEF BridgeInv, PairingAlive, ConnectAt
  <2> QED
    BY <2>6, <2>7 DEF BridgeInv
<1> QED
  BY <1>1, <1>2

\* Both dial the server; only the Connect that opened the channel cancels it.
LEMMA DialKeeps ==
  ASSUME BridgeInv, Dial \/ Redial
  PROVE  BridgeInv'
<1>0. /\ mapped \in SessionIds /\ connect.session = mapped /\ UNCHANGED device
      /\ session \in [SessionIds -> SessionRow] /\ session[mapped] \in SessionRow
      /\ connect.pc \in {"dial", "redial"} /\ connect.pc \in ConnectWorks
  BY DEF BridgeInv, BridgeShape, ConnectOwns, ConnectAt, ConnectWorks, Dial, Redial
<1>1. /\ session[mapped].readers > 0 => session[mapped].active
      /\ session[mapped].state \in Pending => session[mapped].readers > 0
  BY <1>0 DEF BridgeInv, PairingAlive, ConnectAt
<1>2. CASE /\ session' = [session EXCEPT ![mapped].connected = TRUE]
           /\ ConnectGoto("ok") /\ UNCHANGED mapped
  <2>1. PICK r \in SessionRow : r = [session[mapped] EXCEPT !.connected = TRUE]
    BY <1>0 DEF SessionRow
  <2>2. /\ r.readers = session[mapped].readers /\ r.active = session[mapped].active
        /\ r.state = session[mapped].state
    BY <1>0, <2>1 DEF SessionRow
  <2>3. session' = [session EXCEPT ![mapped] = r] /\ mapped' # 0
    BY <1>0, <1>2, <2>1 DEF SessionIds
  <2> QED
    BY <1>0, <1>1, <1>2, <2>2, <2>3, ConnectLeaves
<1>3. CASE Fails /\ session' = [session EXCEPT ![mapped] = Cancelled(session[mapped])]
  <2>1. PICK r \in SessionRow : r = [session[mapped] EXCEPT !.state = "error", !.cancelled = TRUE]
    BY <1>0 DEF SessionRow, PairingStates
  <2>2. /\ r.readers = session[mapped].readers /\ r.active = session[mapped].active
        /\ r.state \notin Pending /\ r.cancelled
    BY <1>0, <2>1 DEF SessionRow, Pending
  <2>3. session' = [session EXCEPT ![mapped] = r]
    BY <1>3, <2>1 DEF Cancelled
  <2>4. mapped' \in {mapped, 0} /\ ConnectGoto("error")
    BY <1>3 DEF Fails
  <2> QED
    BY <1>0, <1>1, <2>2, <2>3, <2>4, ConnectLeaves
<1>4. CASE connect.pc = "redial" /\ Fails /\ UNCHANGED session
  BY <1>0, <1>4, ConnectFails
<1> QED
  BY <1>0, <1>2, <1>3, <1>4 DEF Dial, Redial, ConnectAt

LEMMA RestartKeeps ==
  ASSUME BridgeInv, RestartBridge
  PROVE  BridgeInv'
<1>1. /\ mapped' = 0 /\ UNCHANGED device
      /\ session' = [s \in SessionIds |-> NoSession]
      /\ \/ connect' = connect /\ ConnectAt("idle")
         \/ connect' = [pc |-> "error", session |-> 0, new |-> FALSE]
  BY DEF RestartBridge
<1>2. NoSession \in SessionRow /\ NoSession.readers = 0 /\ NoSession.state \notin Pending
  BY DEF NoSession, SessionRow, PairingStates, Pending
<1>3. /\ session' \in [SessionIds -> SessionRow]
      /\ \A s \in SessionIds : session'[s].readers = 0 /\ session'[s].state \notin Pending
  BY <1>1, <1>2
<1>4. /\ connect' \in [pc : ConnectPCs, session : 0..MaxSessions, new : BOOLEAN]
      /\ connect'.pc \notin ConnectWorks
  <2>1. CASE connect' = connect /\ ConnectAt("idle")
    BY <2>1 DEF BridgeInv, BridgeShape, ConnectWorks, ConnectAt
  <2>2. CASE connect' = [pc |-> "error", session |-> 0, new |-> FALSE]
    BY <2>2 DEF ConnectPCs, ConnectWorks
  <2> QED
    BY <1>1, <2>1, <2>2
<1>5. BridgeShape' /\ ConnectOwns'
  BY <1>1, <1>3, <1>4 DEF BridgeInv, BridgeShape, ConnectOwns
<1>6. PairingAlive'
  BY <1>3 DEF PairingAlive
<1> QED
  BY <1>5, <1>6 DEF BridgeInv

\* The page asks, and takes the answer.
LEMMA PageKeeps ==
  ASSUME BridgeInv,
         OpenPage \/ CloseDialog \/ SendWithoutLogin \/ ClickConnect \/ PageStep
  PROVE  BridgeInv'
<1>0. BridgeShape
  BY DEF BridgeInv
<1>1. UNCHANGED <<mapped, session, device>>
  BY DEF OpenPage, CloseDialog, SendWithoutLogin, ClickConnect, PageStep, ConnectAnswered,
         ConnectFailed, Poll, ReadAnswered, ApplyRead
<1>2. CASE ClickConnect
  BY <1>0, <1>1, <1>2, ConnectType, ConnectEnds
     DEF ClickConnect, ConnectAt, ConnectPCs, ConnectWorks
<1>3. CASE ConnectAnswered \/ ConnectFailed
  BY <1>0, <1>1, <1>3, ConnectType, ConnectEnds
     DEF ConnectAnswered, ConnectFailed, ConnectAt, ConnectPCs, ConnectWorks
<1>4. CASE UNCHANGED connect
  BY <1>1, <1>4 DEF BridgeInv, BridgeShape, ConnectOwns, PairingAlive, ConnectAt
<1> QED
  BY <1>2, <1>3, <1>4 DEF OpenPage, CloseDialog, SendWithoutLogin, PageStep, Poll,
                          ReadAnswered, ApplyRead

LEMMA BridgeStepKeeps == BridgeInv /\ [BridgeNext]_bridgeVars => BridgeInv'
<1> SUFFICES ASSUME BridgeInv, [BridgeNext]_bridgeVars PROVE BridgeInv'
  OBVIOUS
<1>1. CASE ConnectStep
  BY <1>1, FindSessionKeeps, NewSessionKeeps, RestoreClientKeeps, EnsurePairingKeeps,
     OpenChannelKeeps, DialKeeps DEF ConnectStep
<1>2. CASE UNCHANGED bridgeVars
  BY <1>2 DEF bridgeVars, BridgeInv, BridgeShape, ConnectOwns, PairingAlive, ConnectAt
<1> QED
  BY <1>1, <1>2, RestartKeeps, ClientStepKeeps, EndReaderKeeps, PageKeeps DEF BridgeNext

\* No session is shown as starting or waiting for a scan with nobody to end it,
\* and a session a failed Connect left behind has been cancelled, for any number
\* of sessions, faults, restarts and clicks (manager.go:241 to :300).
THEOREM PairingsEnd == BridgeSpec => []PairingAlive
<1>1. BridgeInv => PairingAlive
  BY DEF BridgeInv
<1> QED
  BY <1>1, BridgeInitially, BridgeStepKeeps, PTL DEF BridgeSpec

----------------------------------------------------------------------------
(* The calendar *)
(* Nothing is claimed once a request overlapped a sync. Until then no two  *)
(* rows share a copy, whatever failed or lost its answer, and what a sync  *)
(* still has to push is as it was read. In a sync that was alone, what was *)
(* pushed stays mirrored while Google's events are taken over one by one.  *)

CalRequest == [pc : {"idle", "push", "store", "delete"}, event : Events \cup {None},
               copy : Copies \cup {None}, content : Contents \cup {None}]
CalSync == [pc : {"idle", "push", "import"},
            push : SUBSET (Events \X (Copies \cup {None}) \X (Contents \cup {None})),
            items : SUBSET (Copies \X CopyState), event : Events \cup {None},
            copy : Copies \cup {None}, content : Contents \cup {None}, quiet : BOOLEAN,
            mine : SUBSET (Events \X (Contents \cup {None}))]

CalendarShape ==
  /\ row \in [Events -> RowState] /\ google \in [Copies -> CopyState]
  /\ synced \in BOOLEAN /\ calm \in BOOLEAN
  /\ request \in CalRequest /\ sync \in CalSync

\* A copy belongs to one row, and exists; a row of Google's has one.
OneOwner ==
  /\ \A e, f \in Live : row[e].copy = row[f].copy /\ row[e].copy # None => e = f
  /\ \A e \in Events : /\ row[e].copy # None => google[row[e].copy].state # "none"
                       /\ row[e].state # "none" /\ row[e].source = "GOOGLE" => row[e].copy # None

\* Nobody but e has the copy g.
OwnedBy(e, g) ==
  /\ e \in Live /\ g \in Copies /\ google[g].state # "none"
  /\ \A f \in Live : row[f].copy = g => f = e

RequestOnItsRow ==
  /\ request.pc = "push" => request.event \in Live /\ request.copy = row[request.event].copy
  /\ request.pc = "store" => OwnedBy(request.event, request.copy)
  /\ request.pc = "delete" => request.copy \in Copies /\ google[request.copy].state # "none"

\* What is still to be pushed is what is stored; what is imported exists.
SyncOnItsRows ==
  /\ sync.pc = "push" =>
       /\ \A p \in sync.push : /\ p[1] \in Live /\ p[1] # sync.event
                               /\ p[2] = row[p[1]].copy /\ p[3] = row[p[1]].content
       /\ sync.event # None => OwnedBy(sync.event, sync.copy)
  /\ sync.pc = "import" => \A item \in sync.items : google[item[1]].state # "none"

ToPush(e) == \E p \in sync.push : p[1] = e
Mirrors(e) == row[e].copy \in LiveCopies /\ google[row[e].copy].content = row[e].content

\* A sync that is alone has nothing left to push but what it is about to.
PushingAlone ==
  /\ \A e \in Live : row[e].copy = None => e = sync.event \/ ToPush(e)
  /\ sync.event # None => /\ google[sync.copy].state = "live"
                          /\ google[sync.copy].content = row[sync.event].content
  /\ \A m \in sync.mine : /\ m[1] \in Live /\ row[m[1]].content = m[2]
                          /\ m[1] = sync.event \/ ToPush(m[1]) \/ Mirrors(m[1])

\* Google's events that it has taken over are mirrored.
Taken(g) ==
  /\ google[g].state = "live" => \E e \in Live : row[e].copy = g /\ row[e].content = google[g].content
  /\ google[g].state = "cancelled" => \A e \in Live : row[e].copy # g
ImportingAlone ==
  /\ \A item \in sync.items : item[2] = google[item[1]]
  /\ \A g \in Copies : google[g].state = "none" \/ <<g, google[g]>> \in sync.items \/ Taken(g)
  /\ \A e \in Live : row[e].copy # None
  /\ \A m \in sync.mine : m[1] \in Live /\ row[m[1]].content = m[2] /\ Mirrors(m[1])

CalmCalendar ==
  /\ Syncing => request.pc = "idle"
  /\ OneOwner /\ RequestOnItsRow /\ SyncOnItsRows
  /\ sync.pc = "push" /\ sync.quiet => PushingAlone
  /\ sync.pc = "import" /\ sync.quiet => ImportingAlone

CalendarInv == CalendarShape /\ (calm => CalmCalendar)

HIDE WebhooksAssumption
HIDE PlaceSearchAssumption
HIDE BridgeAssumption
USE CalendarAssumption

----------------------------------------------------------------------------
(* What the statements write *)

\* A row is written (calendarEvent.create, update and updateMany).
LEMMA RowWritten ==
  ASSUME row \in [Events -> RowState], NEW e \in Events, NEW v \in RowState,
         row' = [row EXCEPT ![e] = v]
  PROVE  row' \in [Events -> RowState] /\ \A f \in Events : row'[f] = IF f = e THEN v ELSE row[f]
OBVIOUS

\* A row that is deleted stays what it was otherwise.
LEMMA StateWritten ==
  ASSUME NEW r \in RowState, NEW s \in {"none", "live", "deleted"}
  PROVE  \E v \in RowState : /\ v = [r EXCEPT !.state = s] /\ v.state = s /\ v.copy = r.copy
                              /\ v.content = r.content /\ v.source = r.source
<1> DEFINE v == [state |-> s, copy |-> r.copy, source |-> r.source, content |-> r.content, changed |-> r.changed]
<1>1. v \in RowState /\ v = [r EXCEPT !.state = s]
  BY DEF RowState
<1> QED
  BY <1>1

\* A push that Google serves leaves a live copy with the content: the one the
\* row had, or a new one (CalendarIntegrationService.push).
LEMMA PushServed ==
  ASSUME google \in [Copies -> CopyState], NEW copy \in Copies \cup {None},
         NEW content \in Contents \cup {None}, NEW g \in Copies, PushTo(copy, content, g)
  PROVE  /\ google' \in [Copies -> CopyState]
         /\ google'[g].state = "live" /\ google'[g].content = content
         /\ \A h \in Copies : h # g => google'[h] = google[h]
         /\ google[g].state = "none" \/ g = copy
<1>1. [state |-> "live", content |-> content] \in CopyState
  BY DEF CopyState
<1>2. CASE copy # None /\ google[copy].state = "live"
  <2>1. g = copy /\ google' = [google EXCEPT ![g].content = content] /\ google[g].state = "live"
    BY <1>2 DEF PushTo
  <2>2. google[g] \in CopyState
    OBVIOUS
  <2>3. google'[g] = [google[g] EXCEPT !.content = content]
    BY <2>1
  <2>4. google'[g] = [state |-> "live", content |-> content]
    BY <2>1, <2>2, <2>3 DEF CopyState
  <2>5. google' = [google EXCEPT ![g] = [state |-> "live", content |-> content]]
    BY <2>1, <2>4
  <2> QED
    BY ZenonT(60), <1>1, <2>1, <2>5
<1>3. CASE ~(copy # None /\ google[copy].state = "live")
  <2>1. google[g].state = "none" /\ google' = [google EXCEPT ![g] = [state |-> "live", content |-> content]]
    BY <1>3 DEF PushTo, NewCopy
  <2> QED
    BY <1>1, <2>1
<1> QED
  BY <1>2, <1>3

\* Another statement only notes that the sync is not alone.
LEMMA Disturbed ==
  ASSUME CalendarShape, Disturb
  PROVE  /\ sync' \in CalSync /\ sync'.pc = sync.pc /\ sync'.push = sync.push
         /\ sync'.items = sync.items /\ sync'.event = sync.event /\ sync'.copy = sync.copy
         /\ sync'.mine = sync.mine /\ (sync'.pc # "idle" => ~sync'.quiet)
<1>1. PICK b \in BOOLEAN : b = (~Syncing /\ sync.quiet) /\ (Syncing => ~b)
  BY DEF CalendarShape, CalSync
<1>2. sync' = [sync EXCEPT !.quiet = b] /\ sync \in CalSync
  BY <1>1 DEF Disturb, CalendarShape
<1>3. sync' \in CalSync /\ sync'.quiet = b /\ sync'.pc = sync.pc
  BY <1>1, <1>2 DEF CalSync
<1> QED
  BY <1>1, <1>2, <1>3 DEF CalSync, Syncing

----------------------------------------------------------------------------
(* The requests *)

\* What a request finds is there still: no sync runs with it.
LEMMA RequestAlone ==
  ASSUME CalendarInv, calm, request.pc # "idle"
  PROVE  sync.pc = "idle" /\ OneOwner /\ RequestOnItsRow
BY DEF CalendarInv, CalmCalendar, Syncing

\* With no sync under way, only rows and the request matter.
LEMMA OutsideSync ==
  ASSUME sync'.pc = "idle", OneOwner', RequestOnItsRow'
  PROVE  CalmCalendar'
BY DEF CalmCalendar, SyncOnItsRows, Syncing

\* createEvent.
LEMMA CreateKeeps ==
  ASSUME CalendarInv, NEW e \in Events, NEW content \in Contents, CreateEvent(e, content)
  PROVE  CalendarInv'
<1> DEFINE v == [state |-> "live", copy |-> None, source |-> "KLYVERO", content |-> content, changed |-> TRUE]
<1>1. /\ CalendarShape /\ row[e].state = "none" /\ row' = [row EXCEPT ![e] = v]
      /\ google' = google /\ synced' = synced /\ Asked("push", e, None, content) /\ request.pc = "idle"
  BY DEF CalendarInv, CreateEvent
<1>2. v \in RowState
  BY DEF RowState
<1>3. row' \in [Events -> RowState] /\ \A f \in Events : row'[f] = IF f = e THEN v ELSE row[f]
  BY <1>1, <1>2, RowWritten DEF CalendarShape
<1>4. /\ request' = [pc |-> "push", event |-> e, copy |-> None, content |-> content]
      /\ request' \in CalRequest /\ calm' = (calm /\ ~Syncing) /\ Disturb
  BY <1>1 DEF Asked, CalRequest
<1>5. /\ sync' \in CalSync /\ sync'.pc = sync.pc
  BY <1>1, <1>4, Disturbed
<1>6. calm' \in BOOLEAN
  BY <1>1, <1>4 DEF CalendarShape
<1>7. CalendarShape'
  BY <1>1, <1>3, <1>4, <1>5, <1>6 DEF CalendarShape, RowState, CopyState, CalRequest, CalSync
<1>8. ASSUME calm' PROVE CalmCalendar'
  <2>1. calm /\ sync'.pc = "idle" /\ OneOwner
    BY <1>4, <1>5, <1>8 DEF Syncing, CalendarInv, CalmCalendar
  <2>2. v.copy = None /\ v.state = "live" /\ v.source = "KLYVERO"
    OBVIOUS
  <2> HIDE DEF v
  <2>3. OneOwner'
    BY <1>1, <1>3, <2>1, <2>2 DEF OneOwner, Live
  <2>4. RequestOnItsRow'
    BY <1>3, <1>4, <2>2 DEF RequestOnItsRow, Live
  <2> QED
    BY <2>1, <2>3, <2>4, OutsideSync
<1> QED
  BY <1>7, <1>8 DEF CalendarInv

\* updateEvent.
LEMMA UpdateKeeps ==
  ASSUME CalendarInv, NEW e \in Events, NEW content \in Contents, UpdateEvent(e, content)
  PROVE  CalendarInv'
<1>1. /\ CalendarShape /\ row[e] \in RowState /\ row[e].state = "live"
      /\ row' = [row EXCEPT ![e].content = content, ![e].changed = TRUE]
      /\ google' = google /\ synced' = synced /\ Asked("push", e, row[e].copy, content)
  BY DEF CalendarInv, CalendarShape, UpdateEvent, Live
<1>2. PICK v \in RowState : /\ v = [row[e] EXCEPT !.content = content, !.changed = TRUE]
                            /\ v.state = "live" /\ v.copy = row[e].copy /\ v.content = content
                            /\ v.source = row[e].source
  <2>1. content \in Contents \cup {None}
    OBVIOUS
  <2>2. PICK v : v = [row[e] EXCEPT !.content = content, !.changed = TRUE]
    OBVIOUS
  <2>3. /\ v \in RowState /\ v.state = row[e].state /\ v.copy = row[e].copy
        /\ v.content = content /\ v.source = row[e].source
    BY <1>1, <2>1, <2>2 DEF RowState
  <2> QED
    BY <1>1, <2>2, <2>3
<1>3. row' \in [Events -> RowState] /\ \A f \in Events : row'[f] = IF f = e THEN v ELSE row[f]
  <2>1. row' = [row EXCEPT ![e] = v]
    BY <1>1, <1>2 DEF CalendarShape
  <2> QED
    BY <1>1, <2>1, RowWritten DEF CalendarShape
<1>4. /\ request' = [pc |-> "push", event |-> e, copy |-> row[e].copy, content |-> content]
      /\ request' \in CalRequest /\ calm' = (calm /\ ~Syncing) /\ Disturb
  BY <1>1 DEF Asked, CalRequest, RowState
<1>5. sync' \in CalSync /\ sync'.pc = sync.pc
  BY <1>1, <1>4, Disturbed
<1>6. calm' \in BOOLEAN
  BY <1>1, <1>4 DEF CalendarShape
<1>7. CalendarShape'
  BY <1>1, <1>3, <1>4, <1>5, <1>6 DEF CalendarShape, RowState, CopyState, CalRequest, CalSync
<1>8. ASSUME calm' PROVE CalmCalendar'
  <2>1. calm /\ sync'.pc = "idle" /\ OneOwner
    BY <1>4, <1>5, <1>8 DEF Syncing, CalendarInv, CalmCalendar
  <2>2. OneOwner'
    BY <1>1, <1>2, <1>3, <2>1 DEF OneOwner, Live
  <2>3. RequestOnItsRow'
    BY <1>2, <1>3, <1>4 DEF RequestOnItsRow, Live
  <2> QED
    BY <2>1, <2>2, <2>3, OutsideSync
<1> QED
  BY <1>7, <1>8 DEF CalendarInv

\* deleteEvent.
LEMMA DeleteKeeps ==
  ASSUME CalendarInv, NEW e \in Events, DeleteEvent(e)
  PROVE  CalendarInv'
<1>1. /\ CalendarShape /\ row[e] \in RowState /\ row[e].state = "live"
      /\ row' = [row EXCEPT ![e].state = "deleted"]
      /\ google' = google /\ synced' = synced
  BY DEF CalendarInv, CalendarShape, DeleteEvent, Live
<1>2. PICK v \in RowState : /\ v = [row[e] EXCEPT !.state = "deleted"]
                            /\ v.state = "deleted" /\ v.copy = row[e].copy /\ v.source = row[e].source
  BY <1>1, StateWritten
<1>3. row' \in [Events -> RowState] /\ \A f \in Events : row'[f] = IF f = e THEN v ELSE row[f]
  <2>1. row' = [row EXCEPT ![e] = v]
    BY <1>1, <1>2 DEF CalendarShape
  <2> QED
    BY <1>1, <2>1, RowWritten DEF CalendarShape
<1>4. PICK pc \in {"idle", "delete"} :
         /\ request' = [pc |-> pc, event |-> e, copy |-> row[e].copy, content |-> None]
         /\ pc = "idle" <=> row[e].copy = None
         /\ calm' = (calm /\ ~Syncing) /\ Disturb
  BY DEF DeleteEvent, Asked
<1>5. sync' \in CalSync /\ sync'.pc = sync.pc
  BY <1>1, <1>4, Disturbed
<1>6. calm' \in BOOLEAN
  BY <1>1, <1>4 DEF CalendarShape
<1>7. request' \in CalRequest
  BY <1>1, <1>4 DEF CalRequest, RowState
<1>8. CalendarShape'
  BY <1>1, <1>3, <1>5, <1>6, <1>7 DEF CalendarShape, RowState, CopyState, CalRequest, CalSync
<1>9. ASSUME calm' PROVE CalmCalendar'
  <2>1. calm /\ sync'.pc = "idle" /\ OneOwner
    BY <1>4, <1>5, <1>9 DEF Syncing, CalendarInv, CalmCalendar
  <2>2. OneOwner'
    BY <1>1, <1>2, <1>3, <2>1 DEF OneOwner, Live
  <2>3. RequestOnItsRow'
    <3>1. row[e].copy # None => row[e].copy \in Copies /\ google[row[e].copy].state # "none"
      BY <1>1, <2>1 DEF OneOwner, RowState
    <3> QED
      BY <1>1, <1>4, <3>1 DEF RequestOnItsRow
  <2> QED
    BY <2>1, <2>2, <2>3, OutsideSync
<1> QED
  BY <1>8, <1>9 DEF CalendarInv

\* The call of a request is served, with an answer or without one.
LEMMA RequestPushKeeps ==
  ASSUME CalendarInv, NEW g \in Copies, RequestPush(g)
  PROVE  CalendarInv'
<1>1. /\ CalendarShape /\ request.pc = "push" /\ PushTo(request.copy, request.content, g)
      /\ Disturb /\ UNCHANGED <<row, synced, calm>>
  BY DEF CalendarInv, RequestPush
<1>2. PICK answered \in BOOLEAN :
        request' = IF answered THEN [request EXCEPT !.pc = "store", !.copy = g] ELSE NoRequest
  BY DEF RequestPush
<1>3. /\ google' \in [Copies -> CopyState] /\ google'[g].state = "live"
      /\ \A h \in Copies : h # g => google'[h] = google[h]
      /\ google[g].state = "none" \/ g = request.copy
  BY <1>1, PushServed DEF CalendarShape, CalRequest
<1>4. /\ request' \in CalRequest /\ request'.pc \in {"idle", "store"}
      /\ request'.pc = "store" => request'.event = request.event /\ request'.copy = g
  BY <1>1, <1>2 DEF CalendarShape, CalRequest, NoRequest
<1>5. sync' \in CalSync /\ sync'.pc = sync.pc
  BY <1>1, Disturbed
<1>6. CalendarShape'
  BY <1>1, <1>3, <1>4, <1>5 DEF CalendarShape, RowState, CopyState, CalRequest, CalSync
<1>7. ASSUME calm' PROVE CalmCalendar'
  <2>1. sync.pc = "idle" /\ OneOwner /\ RequestOnItsRow
    BY <1>1, <1>7, RequestAlone
  <2>2. OneOwner'
    BY <1>1, <1>3, <2>1 DEF OneOwner, Live, CalendarShape, RowState
  <2>3. request.event \in Live /\ request.copy = row[request.event].copy
    BY <1>1, <2>1 DEF RequestOnItsRow
  <2>4. \A f \in Live : row[f].copy = g => f = request.event
    <3>1. CASE google[g].state = "none"
      BY <3>1, <2>1 DEF OneOwner, Live
    <3>2. CASE g = request.copy
      BY <3>2, <2>1, <2>3 DEF OneOwner
    <3> QED
      BY <1>3, <3>1, <3>2
  <2>5. RequestOnItsRow'
    BY <1>1, <1>3, <1>4, <2>3, <2>4 DEF RequestOnItsRow, OwnedBy, Live
  <2> QED
    BY <1>5, <2>1, <2>2, <2>5, OutsideSync
<1> QED
  BY <1>6, <1>7 DEF CalendarInv

\* A copy is noted on its row (the update of externalId).
LEMMA CopyNoted ==
  ASSUME CalendarShape, OneOwner, NEW e \in Live, NEW g \in Copies, OwnedBy(e, g), google' = google,
         row' = [row EXCEPT ![e].copy = g, ![e].changed = TRUE]
  PROVE  /\ row' \in [Events -> RowState] /\ OneOwner' /\ Live' = Live
         /\ \A f \in Events : /\ row'[f].content = row[f].content
                              /\ row'[f].copy = IF f = e THEN g ELSE row[f].copy
<1>1. row[e] \in RowState /\ e \in Events /\ g \in Copies \cup {None} /\ g # None
  BY DEF CalendarShape, Live
<1>2. PICK v \in RowState : /\ v = [row[e] EXCEPT !.copy = g, !.changed = TRUE]
                            /\ v.state = row[e].state /\ v.copy = g
                            /\ v.content = row[e].content /\ v.source = row[e].source
  <2>1. PICK v : v = [row[e] EXCEPT !.copy = g, !.changed = TRUE]
    OBVIOUS
  <2>2. /\ v \in RowState /\ v.state = row[e].state /\ v.copy = g
        /\ v.content = row[e].content /\ v.source = row[e].source
    BY <1>1, <2>1 DEF RowState
  <2> QED
    BY <2>1, <2>2
<1>4. row' = [row EXCEPT ![e] = v]
  BY <1>1, <1>2 DEF CalendarShape
<1>5. row' \in [Events -> RowState] /\ \A f \in Events : row'[f] = IF f = e THEN v ELSE row[f]
  BY <1>1, <1>2, <1>4, RowWritten DEF CalendarShape
<1>6. Live' = Live
  BY <1>1, <1>2, <1>5 DEF Live
<1>7. \A f \in Events : /\ row'[f].content = row[f].content
                        /\ row'[f].copy = IF f = e THEN g ELSE row[f].copy
                        /\ row'[f].source = row[f].source /\ row'[f].state = row[f].state
  BY <1>2, <1>5
<1>8. OneOwner'
  <2>1. ASSUME NEW f \in Live, NEW h \in Live, row'[f].copy = row'[h].copy, row'[f].copy # None
        PROVE  f = h
    BY <1>7, <2>1 DEF OneOwner, OwnedBy, Live
  <2>2. ASSUME NEW f \in Events, row'[f].copy # None PROVE google'[row'[f].copy].state # "none"
    <3>1. CASE f = e
      <4>1. row'[f].copy = g
        BY <1>7, <3>1
      <4>2. google'[g].state # "none"
        BY DEF OwnedBy
      <4> QED
        BY <4>1, <4>2
    <3>2. CASE f # e
      <4>1. row'[f].copy = row[f].copy
        BY <1>7, <3>2
      <4>2. google[row[f].copy].state # "none"
        BY <2>2, <4>1 DEF OneOwner
      <4> QED
        BY <4>1, <4>2
    <3> QED
      BY <3>1, <3>2
  <2>3. ASSUME NEW f \in Events, row'[f].state # "none", row'[f].source = "GOOGLE"
        PROVE  row'[f].copy # None
    <3>1. row[f].state # "none" /\ row[f].source = "GOOGLE"
      BY <1>7, <2>3
    <3>2. row[f].copy # None
      BY <3>1 DEF OneOwner
    <3> QED
      BY <1>1, <1>7, <3>2
  <2> QED
    BY <1>6, <2>1, <2>2, <2>3 DEF OneOwner
<1> QED
  BY <1>5, <1>6, <1>7, <1>8

\* The answer of a request's call is stored, if the row is still there.
LEMMA RequestStoreKeeps ==
  ASSUME CalendarInv, RequestStore
  PROVE  CalendarInv'
<1>1. /\ CalendarShape /\ request.pc = "store" /\ request' = NoRequest /\ Disturb
      /\ UNCHANGED <<google, synced, calm>>
  BY DEF CalendarInv, RequestStore
<1>2. NoRequest \in CalRequest /\ NoRequest.pc = "idle"
  BY DEF NoRequest, CalRequest
<1>3. sync' \in CalSync /\ sync'.pc = sync.pc
  BY <1>1, Disturbed
<1>4. row' \in [Events -> RowState]
  <2>1. CASE request.event \in Live
    <3>1. row[request.event] \in RowState /\ request.event \in Events /\ request.copy \in Copies \cup {None}
      BY <1>1, <2>1 DEF CalendarShape, Live, CalRequest
    <3>2. PICK v : v = [row[request.event] EXCEPT !.copy = request.copy, !.changed = TRUE]
      OBVIOUS
    <3>3. v \in RowState
      BY <3>1, <3>2 DEF RowState
    <3>4. row' = [row EXCEPT ![request.event] = v]
      BY <2>1, <3>1, <3>2 DEF CalendarShape, RequestStore
    <3> QED
      BY <1>1, <3>1, <3>3, <3>4 DEF CalendarShape
  <2>2. CASE request.event \notin Live
    BY <1>1, <2>2 DEF CalendarShape, RequestStore
  <2> QED
    BY <2>1, <2>2
<1>5. CalendarShape'
  BY <1>1, <1>2, <1>3, <1>4 DEF CalendarShape, RowState, CopyState, CalRequest, CalSync
<1>6. ASSUME calm' PROVE CalmCalendar'
  <2>1. sync.pc = "idle" /\ OneOwner /\ RequestOnItsRow
    BY <1>1, <1>6, RequestAlone
  <2>2. OwnedBy(request.event, request.copy)
    BY <1>1, <2>1 DEF RequestOnItsRow
  <2>3. OneOwner'
    <3>1. request.event \in Live /\ request.copy \in Copies
      BY <2>2 DEF OwnedBy
    <3>2. row' = [row EXCEPT ![request.event].copy = request.copy, ![request.event].changed = TRUE]
      BY <3>1 DEF RequestStore
    <3> QED
      BY <1>1, <2>1, <2>2, <3>1, <3>2, CopyNoted
  <2>4. RequestOnItsRow'
    BY <1>1, <1>2 DEF RequestOnItsRow
  <2> QED
    BY <1>3, <2>1, <2>3, <2>4, OutsideSync
<1> QED
  BY <1>5, <1>6 DEF CalendarInv

\* Copies that exist go on existing, and the rows stay.
LEMMA OnlyGoogle ==
  ASSUME CalendarInv, UNCHANGED <<row, synced, calm>>, google' \in [Copies -> CopyState],
         \A g \in Copies : google[g].state # "none" => google'[g].state # "none",
         request' \in CalRequest, request' = request \/ request'.pc = "idle", Disturb
  PROVE  CalendarInv'
<1>1. CalendarShape
  BY DEF CalendarInv
<1>2. /\ sync' \in CalSync /\ sync'.pc = sync.pc /\ sync'.push = sync.push
      /\ sync'.event = sync.event /\ sync'.copy = sync.copy /\ sync'.items = sync.items
      /\ sync'.pc # "idle" => ~sync'.quiet
  BY <1>1, Disturbed
<1>3. CalendarShape'
  BY <1>1, <1>2 DEF CalendarShape, RowState, CopyState, CalRequest, CalSync
<1>4. ASSUME calm' PROVE CalmCalendar'
  <2>1. CalmCalendar
    BY <1>4 DEF CalendarInv
  <2>2. \A e \in Events : row[e].copy \in Copies \cup {None}
    BY <1>1 DEF CalendarShape, RowState
  <2>3. OneOwner'
    BY <2>1, <2>2 DEF CalmCalendar, OneOwner, Live
  <2>4. \A e, g : OwnedBy(e, g) => OwnedBy(e, g)'
    BY DEF OwnedBy, Live
  <2>5. RequestOnItsRow'
    BY <2>1, <2>4 DEF CalmCalendar, RequestOnItsRow, Live
  <2>6. SyncOnItsRows'
    <3>1. \A item \in sync.items : item[1] \in Copies
      BY <1>1 DEF CalendarShape, CalSync
    <3> QED
      BY <1>2, <2>1, <2>4, <3>1 DEF CalmCalendar, SyncOnItsRows, Live
  <2>7. Syncing' => request'.pc = "idle"
    BY <1>2, <2>1 DEF CalmCalendar, Syncing
  <2> QED
    BY <1>2, <2>3, <2>5, <2>6, <2>7 DEF CalmCalendar
<1> QED
  BY <1>3, <1>4 DEF CalendarInv

\* A request that deletes or fails, and the owner of the calendar.
LEMMA GoogleKeeps ==
  ASSUME CalendarInv,
         \/ RequestDelete \/ RequestFails
         \/ \E g \in Copies : GoogleDeletes(g) \/ \E c \in Contents : GoogleCreates(g, c) \/ GoogleEdits(g, c)
  PROVE  CalendarInv'
<1>0. /\ google \in [Copies -> CopyState] /\ request \in CalRequest
      /\ NoRequest \in CalRequest /\ NoRequest.pc = "idle"
  BY DEF CalendarInv, CalendarShape, NoRequest, CalRequest
<1>1. ASSUME NEW g \in Copies, NEW s \in {"live", "cancelled"}, google' = [google EXCEPT ![g].state = s]
      PROVE  /\ google' \in [Copies -> CopyState]
             /\ \A h \in Copies : google[h].state # "none" => google'[h].state # "none"
  <2>1. PICK v \in CopyState : v = [google[g] EXCEPT !.state = s] /\ v.state = s
    <3>1. google[g] \in CopyState
      BY <1>0
    <3>2. [google[g] EXCEPT !.state = s] = [state |-> s, content |-> google[g].content]
      BY <3>1 DEF CopyState
    <3>3. [state |-> s, content |-> google[g].content] \in CopyState
      BY <3>1 DEF CopyState
    <3> QED
      BY <3>2, <3>3
  <2>2. google' = [google EXCEPT ![g] = v]
    BY <1>1, <2>1
  <2> QED
    BY <1>0, <2>1, <2>2
<1>2. CASE RequestDelete
  <2>1. UNCHANGED <<row, synced, calm>> /\ Disturb /\ request' = NoRequest
    BY <1>2 DEF RequestDelete
  <2>2. /\ google' \in [Copies -> CopyState]
        /\ \A h \in Copies : google[h].state # "none" => google'[h].state # "none"
    <3>1. google' = [google EXCEPT ![request.copy].state = "cancelled"]
      BY <1>2 DEF RequestDelete
    <3>2. CASE request.copy \in Copies
      BY <1>1, <3>1, <3>2
    <3>3. CASE request.copy \notin Copies
      <4>1. google' = google
        BY <1>0, <3>1, <3>3
      <4> QED
        BY <1>0, <4>1
    <3> QED
      BY <3>2, <3>3
  <2> QED
    BY <1>0, <2>1, <2>2, OnlyGoogle
<1>3. CASE RequestFails
  BY <1>0, <1>3, OnlyGoogle DEF RequestFails
<1>4. ASSUME NEW g \in Copies, GoogleDeletes(g) PROVE CalendarInv'
  <2>1. UNCHANGED <<row, synced, calm, request>> /\ Disturb /\ google' = [google EXCEPT ![g].state = "cancelled"]
    BY <1>4 DEF GoogleDeletes
  <2>2. /\ google' \in [Copies -> CopyState]
        /\ \A h \in Copies : google[h].state # "none" => google'[h].state # "none"
    BY <1>1, <2>1
  <2> QED
    BY <1>0, <2>1, <2>2, OnlyGoogle
<1>5. ASSUME NEW g \in Copies, NEW c \in Contents, GoogleCreates(g, c) PROVE CalendarInv'
  <2>1. /\ UNCHANGED <<row, synced, calm, request>> /\ Disturb
        /\ google' = [google EXCEPT ![g] = [state |-> "live", content |-> c]]
    BY <1>5 DEF GoogleCreates, NewCopy
  <2>2. [state |-> "live", content |-> c] \in CopyState
    BY DEF CopyState
  <2>3. /\ google' \in [Copies -> CopyState]
        /\ \A h \in Copies : google[h].state # "none" => google'[h].state # "none"
    BY <1>0, <2>1, <2>2
  <2> QED
    BY <1>0, <2>1, <2>3, OnlyGoogle
<1>6. ASSUME NEW g \in Copies, NEW c \in Contents, GoogleEdits(g, c) PROVE CalendarInv'
  <2>1. UNCHANGED <<row, synced, calm, request>> /\ Disturb /\ google' = [google EXCEPT ![g].content = c]
    BY <1>6 DEF GoogleEdits
  <2>2. PICK v \in CopyState : v = [google[g] EXCEPT !.content = c] /\ v.state = google[g].state
    <3>1. google[g] \in CopyState
      BY <1>0
    <3>2. [google[g] EXCEPT !.content = c] = [state |-> google[g].state, content |-> c]
      BY <3>1 DEF CopyState
    <3>3. [state |-> google[g].state, content |-> c] \in CopyState
      BY <3>1 DEF CopyState
    <3> QED
      BY <3>2, <3>3
  <2>3. google' = [google EXCEPT ![g] = v]
    BY <1>0, <2>1, <2>2
  <2>4. /\ google' \in [Copies -> CopyState]
        /\ \A h \in Copies : google[h].state # "none" => google'[h].state # "none"
    BY <1>0, <2>2, <2>3
  <2> QED
    BY <1>0, <2>1, <2>4, OnlyGoogle
<1> QED
  BY <1>2, <1>3, <1>4, <1>5, <1>6

----------------------------------------------------------------------------
(* The sync *)

\* With no request under way, only rows and the sync matter.
LEMMA InSync ==
  ASSUME request'.pc = "idle", OneOwner', SyncOnItsRows',
         sync'.pc = "push" /\ sync'.quiet => PushingAlone',
         sync'.pc = "import" /\ sync'.quiet => ImportingAlone'
  PROVE  CalmCalendar'
BY DEF CalmCalendar, RequestOnItsRow

\* The rows to push are read: every one that has no copy is among them.
LEMMA StartKeeps ==
  ASSUME CalendarInv, StartSync
  PROVE  CalendarInv'
<1> DEFINE ours == {e \in Live : row[e].source = "KLYVERO"}
<1> DEFINE push == {<<e, row[e].copy, row[e].content>> : e \in {e \in ours : NewOrChanged(e)}}
<1> DEFINE mine == {<<e, row[e].content>> : e \in {e \in ours : row[e].copy = None \/ row[e].changed}}
<1>1. /\ CalendarShape /\ UNCHANGED <<row, google, synced, request>>
      /\ calm' = (calm /\ request.pc = "idle") /\ calm' \in BOOLEAN
  BY DEF CalendarInv, CalendarShape, StartSync
<1>2. \A e \in Live : /\ e \in Events /\ row[e].copy \in Copies \cup {None}
                      /\ row[e].content \in Contents \cup {None}
  BY <1>1 DEF Live, CalendarShape, RowState
<1>3. /\ push \in SUBSET (Events \X (Copies \cup {None}) \X (Contents \cup {None}))
      /\ mine \in SUBSET (Events \X (Contents \cup {None}))
  BY <1>2
<1>4. PICK quiet \in BOOLEAN : quiet = (request.pc = "idle")
  OBVIOUS
<1>5. sync' = [NoSync EXCEPT !.pc = "push", !.push = push, !.quiet = quiet, !.mine = mine]
  BY <1>4 DEF StartSync
<1>6. /\ \A p \in push : /\ p[1] \in Live /\ p[1] # None
                         /\ p[2] = row[p[1]].copy /\ p[3] = row[p[1]].content
      /\ \A e \in Live : row[e].copy = None /\ row[e].source = "KLYVERO" => \E p \in push : p[1] = e
      /\ \A m \in mine : m[1] \in Live /\ row[m[1]].content = m[2] /\ \E p \in push : p[1] = m[1]
  <2>1. \A p \in push : /\ p[1] \in Live /\ p[1] # None
                        /\ p[2] = row[p[1]].copy /\ p[3] = row[p[1]].content
    BY <1>2
  <2>2. ASSUME NEW e \in ours, NewOrChanged(e) PROVE \E p \in push : p[1] = e
    <3>1. <<e, row[e].copy, row[e].content>> \in push
      BY <2>2
    <3> QED
      BY <3>1
  <2>3. \A e \in Live : row[e].copy = None /\ row[e].source = "KLYVERO" => \E p \in push : p[1] = e
    <3>1. ASSUME NEW e \in Live, row[e].copy = None, row[e].source = "KLYVERO"
          PROVE  \E p \in push : p[1] = e
      <4>1. e \in ours /\ NewOrChanged(e)
        BY <3>1 DEF NewOrChanged
      <4> HIDE DEF push, ours
      <4> QED
        BY <2>2, <4>1
    <3> HIDE DEF push, ours
    <3> QED
      BY <3>1
  <2>4. ASSUME NEW m \in mine
        PROVE  m[1] \in Live /\ row[m[1]].content = m[2] /\ \E p \in push : p[1] = m[1]
    <3>1. PICK e \in ours : m = <<e, row[e].content>> /\ (row[e].copy = None \/ row[e].changed)
      OBVIOUS
    <3>2. NewOrChanged(e) /\ m[1] = e /\ m[2] = row[e].content /\ e \in Live
      BY <3>1 DEF NewOrChanged
    <3>3. \E p \in push : p[1] = e
      BY <2>2, <3>2
    <3> HIDE DEF push, ours, mine
    <3> QED
      BY <3>2, <3>3
  <2> HIDE DEF push, ours, mine
  <2> QED
    BY <2>1, <2>3, <2>4
<1> HIDE DEF push, mine, ours
<1>7. /\ sync' \in CalSync /\ sync'.pc = "push" /\ sync'.push = push /\ sync'.event = None
      /\ sync'.quiet = quiet /\ sync'.mine = mine
  BY <1>3, <1>5 DEF NoSync, CalSync
<1>8. CalendarShape'
  BY <1>1, <1>7 DEF CalendarShape, RowState, CopyState, CalRequest, CalSync
<1>9. ASSUME calm' PROVE CalmCalendar'
  <2>1. calm /\ request.pc = "idle" /\ OneOwner
    BY <1>1, <1>9 DEF CalendarInv, CalmCalendar
  <2>2. OneOwner'
    BY <1>1, <2>1 DEF OneOwner, Live
  <2>3. SyncOnItsRows'
    BY <1>1, <1>6, <1>7 DEF SyncOnItsRows, Live
  <2>4. PushingAlone'
    <3>1. \A e \in Live : row[e].copy = None => \E p \in push : p[1] = e
      BY <1>1, <1>6, <2>1 DEF OneOwner, Live, CalendarShape, RowState
    <3> QED
      BY <1>1, <1>6, <1>7, <3>1 DEF PushingAlone, ToPush, Live
  <2> QED
    BY <1>1, <1>7, <2>1, <2>2, <2>3, <2>4, InSync
<1> QED
  BY <1>8, <1>9 DEF CalendarInv

\* A push of the sync is served, or refused: the others wait.
LEMMA SyncPushKeeps ==
  ASSUME CalendarInv, SyncPushFails \/ \E g \in Copies : SyncPush(g)
  PROVE  CalendarInv'
<1>0. /\ CalendarShape /\ sync \in CalSync /\ sync.pc = "push" /\ sync.event = None
      /\ UNCHANGED <<row, synced, request, calm>>
  BY DEF CalendarInv, CalendarShape, SyncPushFails, SyncPush
<1>1. PICK p \in sync.push, quiet \in BOOLEAN, event \in Events \cup {None} :
        /\ event \in {None, p[1]} /\ sync' \in CalSync /\ sync'.pc = "push" /\ sync'.push = sync.push \ {p}
        /\ sync'.mine = sync.mine /\ sync'.quiet = quiet /\ (quiet => sync.quiet /\ event = p[1])
        /\ sync'.event = event
        /\ \/ google' = google /\ event = None
           \/ \E g \in Copies : PushTo(p[2], p[3], g) /\ (event = p[1] => sync'.copy = g)
  <2>1. ASSUME NEW p \in sync.push, sync' = [sync EXCEPT !.push = @ \ {p}, !.quiet = FALSE]
        PROVE  /\ sync' \in CalSync /\ sync'.pc = "push" /\ sync'.push = sync.push \ {p}
               /\ sync'.mine = sync.mine /\ sync'.quiet = FALSE /\ sync'.event = None
    BY <1>0, <2>1 DEF CalSync
  <2>2. CASE SyncPushFails
    <3>1. PICK p \in sync.push : sync' = [sync EXCEPT !.push = @ \ {p}, !.quiet = FALSE]
      BY <2>2 DEF SyncPushFails
    <3>2. google' = google
      BY <2>2 DEF SyncPushFails
    <3> QED
      BY <2>1, <3>1, <3>2
  <2>3. ASSUME NEW g \in Copies, SyncPush(g)
        PROVE  \E p \in sync.push, quiet \in BOOLEAN, event \in Events \cup {None} :
                 /\ event \in {None, p[1]} /\ sync' \in CalSync /\ sync'.pc = "push" /\ sync'.push = sync.push \ {p}
                 /\ sync'.mine = sync.mine /\ sync'.quiet = quiet
                 /\ (quiet => sync.quiet /\ event = p[1]) /\ sync'.event = event
                 /\ PushTo(p[2], p[3], g) /\ (event = p[1] => sync'.copy = g)
    <3>1. PICK p \in sync.push, answered \in BOOLEAN :
            /\ PushTo(p[2], p[3], g)
            /\ sync' = IF answered
                       THEN [sync EXCEPT !.push = @ \ {p}, !.event = p[1], !.copy = g]
                       ELSE [sync EXCEPT !.push = @ \ {p}, !.quiet = FALSE]
      BY <2>3 DEF SyncPush
    <3>2. p[1] \in Events /\ p[1] # None
      BY <1>0 DEF CalSync
    <3>3. CASE answered
      <4>1. /\ sync' \in CalSync /\ sync'.pc = "push" /\ sync'.push = sync.push \ {p}
            /\ sync'.mine = sync.mine /\ sync'.event = p[1] /\ sync'.copy = g
            /\ sync'.quiet = sync.quiet /\ sync.quiet \in BOOLEAN
        BY <1>0, <3>1, <3>2, <3>3 DEF CalSync
      <4>2. PICK quiet \in BOOLEAN : quiet = sync.quiet
        BY <4>1
      <4> p \in sync.push /\ p[1] \in Events \cup {None}
        BY <3>1, <3>2
      <4> WITNESS p \in sync.push, quiet \in BOOLEAN, p[1] \in Events \cup {None}
      <4> QED
        BY <3>1, <4>1, <4>2
    <3>4. CASE ~answered
      <4>1. /\ sync' \in CalSync /\ sync'.pc = "push" /\ sync'.push = sync.push \ {p}
            /\ sync'.mine = sync.mine /\ sync'.quiet = FALSE /\ sync'.event = None
        BY <2>1, <3>1, <3>4
      <4> QED
        BY <3>1, <3>2, <4>1
    <3> QED
      BY <3>3, <3>4
  <2> QED
    BY <2>2, <2>3
<1>2. p \in Events \X (Copies \cup {None}) \X (Contents \cup {None}) /\ p[1] # None
  BY <1>0 DEF CalSync
<1>3. /\ google' \in [Copies -> CopyState]
      /\ \A h \in Copies : google[h].state # "none" => google'[h].state # "none"
      /\ event = p[1] => /\ sync'.copy \in Copies /\ google'[sync'.copy].state = "live"
                         /\ google'[sync'.copy].content = p[3]
                         /\ \A h \in Copies : h # sync'.copy => google'[h] = google[h]
                         /\ google[sync'.copy].state = "none" \/ sync'.copy = p[2]
  <2>1. CASE google' = google /\ event = None
    BY <1>0, <1>2, <2>1 DEF CalendarShape
  <2>2. ASSUME NEW g \in Copies, PushTo(p[2], p[3], g), event = p[1] => sync'.copy = g
        PROVE  /\ google' \in [Copies -> CopyState]
               /\ \A h \in Copies : google[h].state # "none" => google'[h].state # "none"
               /\ event = p[1] => /\ sync'.copy \in Copies /\ google'[sync'.copy].state = "live"
                                  /\ google'[sync'.copy].content = p[3]
                                  /\ \A h \in Copies : h # sync'.copy => google'[h] = google[h]
                                  /\ google[sync'.copy].state = "none" \/ sync'.copy = p[2]
    <3>1. /\ google' \in [Copies -> CopyState]
          /\ google'[g].state = "live" /\ google'[g].content = p[3]
          /\ \A h \in Copies : h # g => google'[h] = google[h]
          /\ google[g].state = "none" \/ g = p[2]
      BY <1>0, <1>2, <2>2, PushServed DEF CalendarShape
    <3> QED
      BY <2>2, <3>1
  <2> QED
    BY <1>1, <2>1, <2>2
<1>4. CalendarShape'
  BY <1>0, <1>1, <1>3 DEF CalendarShape, RowState, CopyState, CalRequest, CalSync
<1>5. ASSUME calm' PROVE CalmCalendar'
  <2>1. request.pc = "idle" /\ OneOwner /\ SyncOnItsRows
    BY <1>0, <1>5 DEF CalendarInv, CalmCalendar, Syncing
  <2>2. \A e \in Events : row[e].copy \in Copies \cup {None}
    BY <1>0 DEF CalendarShape, RowState
  <2>3. OneOwner'
    BY <1>0, <1>3, <2>1, <2>2 DEF OneOwner, Live
  <2>4. p[1] \in Live /\ p[2] = row[p[1]].copy /\ p[3] = row[p[1]].content
    BY <1>0, <2>1 DEF SyncOnItsRows
  <2>5. \A q \in sync.push \ {p} : q[1] # p[1]
    <3>1. ASSUME NEW q \in sync.push, q[1] = p[1] PROVE q = p
      <4>1. q[2] = p[2] /\ q[3] = p[3]
        BY <1>0, <2>1, <2>4, <3>1 DEF SyncOnItsRows
      <4>2. q \in Events \X (Copies \cup {None}) \X (Contents \cup {None})
        BY <1>0 DEF CalSync
      <4> QED
        BY <1>2, <3>1, <4>1, <4>2
    <3> QED
      BY <3>1
  <2>6. event = p[1] => \A f \in Live : row[f].copy = sync'.copy => f = p[1]
    <3>1. ASSUME event = p[1], NEW f \in Live, row[f].copy = sync'.copy PROVE f = p[1]
      <4>1. CASE google[sync'.copy].state = "none"
        BY <1>3, <2>1, <3>1, <4>1 DEF OneOwner, Live
      <4>2. CASE sync'.copy = p[2]
        BY <1>3, <2>1, <2>4, <3>1, <4>2 DEF OneOwner
      <4> QED
        BY <1>3, <3>1, <4>1, <4>2
    <3> QED
      BY <3>1
  <2>7. SyncOnItsRows'
    <3>1. \A q \in sync'.push : /\ q[1] \in Live' /\ q[1] # sync'.event
                                /\ q[2] = row'[q[1]].copy /\ q[3] = row'[q[1]].content
      <4>1. \A q \in sync.push : q[1] # None
        BY <1>0 DEF CalSync
      <4> QED
        BY <1>0, <1>1, <2>1, <2>5, <4>1 DEF SyncOnItsRows, Live
    <3>2. sync'.event # None => OwnedBy(sync.event, sync.copy)'
      BY <1>0, <1>1, <1>3, <2>4, <2>6 DEF OwnedBy, Live
    <3> QED
      BY <1>1, <3>1, <3>2 DEF SyncOnItsRows
  <2>8. ASSUME sync'.quiet PROVE PushingAlone'
    <3>1. PushingAlone /\ event = p[1] /\ sync'.event = p[1]
      BY <1>0, <1>1, <1>5, <2>8 DEF CalendarInv, CalmCalendar
    <3>2. \A e : ToPush(e) => e = p[1] \/ ToPush(e)'
      BY <1>1 DEF ToPush
    <3>3. \A e \in Live : e # p[1] /\ Mirrors(e) => Mirrors(e)'
      <4>1. ASSUME NEW e \in Live, e # p[1], Mirrors(e) PROVE Mirrors(e)'
        <5>1. row[e].copy \in Copies /\ google[row[e].copy].state = "live" /\ row[e].copy # sync'.copy
          BY <2>6, <3>1, <4>1 DEF Mirrors, LiveCopies
        <5>2. google'[row[e].copy] = google[row[e].copy]
          BY <1>3, <3>1, <5>1
        <5> QED
          BY <1>0, <4>1, <5>1, <5>2 DEF Mirrors, LiveCopies
      <4> QED
        BY <4>1
    <3>4. \A e \in Live' : row'[e].copy = None => e = sync'.event \/ ToPush(e)'
      BY <1>0, <3>1, <3>2 DEF PushingAlone, Live
    <3>5. /\ google'[sync'.copy].state = "live"
          /\ google'[sync'.copy].content = row'[sync'.event].content
      BY <1>0, <1>3, <2>4, <3>1
    <3>6. ASSUME NEW m \in sync'.mine
          PROVE  /\ m[1] \in Live' /\ row'[m[1]].content = m[2]
                 /\ m[1] = sync'.event \/ ToPush(m[1])' \/ Mirrors(m[1])'
      <4>1. /\ m[1] \in Live /\ row[m[1]].content = m[2]
            /\ m[1] = sync.event \/ ToPush(m[1]) \/ Mirrors(m[1])
        BY <1>1, <3>1, <3>6 DEF PushingAlone
      <4>2. m[1] # None
        BY <4>1 DEF Live
      <4>3. m[1] \in Live' /\ row'[m[1]].content = m[2]
        BY <1>0, <4>1 DEF Live
      <4> QED
        BY <1>0, <3>1, <3>2, <3>3, <4>1, <4>2, <4>3
    <3> QED
      BY <3>4, <3>5, <3>6 DEF PushingAlone
  <2> QED
    BY <1>0, <1>1, <2>1, <2>3, <2>7, <2>8, InSync
<1> QED
  BY <1>4, <1>5 DEF CalendarInv

\* The answer of the sync's call is stored: its row is mirrored now.
LEMMA SyncStoreKeeps ==
  ASSUME CalendarInv, SyncStore
  PROVE  CalendarInv'
<1>0. /\ CalendarShape /\ sync \in CalSync /\ sync.pc = "push" /\ sync.event # None
      /\ UNCHANGED <<google, synced, request, calm>>
      /\ sync' = [sync EXCEPT !.event = None, !.copy = None]
  BY DEF CalendarInv, CalendarShape, SyncStore
<1>1. /\ sync' \in CalSync /\ sync'.pc = "push" /\ sync'.push = sync.push /\ sync'.event = None
      /\ sync'.mine = sync.mine /\ sync'.quiet = sync.quiet
  BY <1>0 DEF CalSync
<1>2. row' \in [Events -> RowState]
  <2>1. CASE sync.event \in Live
    <3>1. row[sync.event] \in RowState /\ sync.event \in Events /\ sync.copy \in Copies \cup {None}
      BY <1>0, <2>1 DEF CalendarShape, Live, CalSync
    <3>2. PICK v : v = [row[sync.event] EXCEPT !.copy = sync.copy, !.changed = TRUE]
      OBVIOUS
    <3>3. v \in RowState
      BY <3>1, <3>2 DEF RowState
    <3>4. row' = [row EXCEPT ![sync.event] = v]
      BY <1>0, <2>1, <3>1, <3>2 DEF CalendarShape, SyncStore
    <3> QED
      BY <1>0, <3>1, <3>3, <3>4 DEF CalendarShape
  <2>2. CASE sync.event \notin Live
    BY <1>0, <2>2 DEF CalendarShape, SyncStore
  <2> QED
    BY <2>1, <2>2
<1>3. CalendarShape'
  BY <1>0, <1>1, <1>2 DEF CalendarShape, RowState, CopyState, CalRequest, CalSync
<1>4. ASSUME calm' PROVE CalmCalendar'
  <2>1. request.pc = "idle" /\ OneOwner /\ SyncOnItsRows /\ OwnedBy(sync.event, sync.copy)
    BY <1>0, <1>4 DEF CalendarInv, CalmCalendar, Syncing, SyncOnItsRows
  <2>2. sync.event \in Live /\ sync.copy \in Copies /\ sync.copy # None
    BY <2>1 DEF OwnedBy
  <2>3. row' = [row EXCEPT ![sync.event].copy = sync.copy, ![sync.event].changed = TRUE]
    BY <2>2 DEF SyncStore
  <2>4. /\ OneOwner' /\ Live' = Live
        /\ \A f \in Events : /\ row'[f].content = row[f].content
                             /\ row'[f].copy = IF f = sync.event THEN sync.copy ELSE row[f].copy
    BY <1>0, <2>1, <2>2, <2>3, CopyNoted
  <2>5. \A f \in Live : f \in Events
    BY DEF Live
  <2>6. SyncOnItsRows'
    BY <1>0, <1>1, <2>1, <2>4, <2>5 DEF SyncOnItsRows
  <2>7. ASSUME sync'.quiet PROVE PushingAlone'
    <3>1. PushingAlone
      BY <1>0, <1>1, <1>4, <2>7 DEF CalendarInv, CalmCalendar
    <3>2. LiveCopies' = LiveCopies /\ \A e : ToPush(e) => ToPush(e)'
      BY <1>0, <1>1 DEF LiveCopies, ToPush
    <3>3. \A e \in Live : e = sync.event => Mirrors(e)'
      BY <1>0, <2>2, <2>4, <2>5, <3>1 DEF Mirrors, LiveCopies, PushingAlone
    <3>4. \A e \in Live : e # sync.event /\ Mirrors(e) => Mirrors(e)'
      BY <1>0, <2>4, <2>5, <3>2 DEF Mirrors
    <3>5. \A e \in Live' : row'[e].copy = None => e = sync'.event \/ ToPush(e)'
      BY <2>2, <2>4, <2>5, <3>1, <3>2 DEF PushingAlone
    <3>6. ASSUME NEW m \in sync'.mine
          PROVE  /\ m[1] \in Live' /\ row'[m[1]].content = m[2]
                 /\ m[1] = sync'.event \/ ToPush(m[1])' \/ Mirrors(m[1])'
      <4>1. /\ m[1] \in Live /\ row[m[1]].content = m[2]
            /\ m[1] = sync.event \/ ToPush(m[1]) \/ Mirrors(m[1])
        BY <1>1, <3>1, <3>6 DEF PushingAlone
      <4>2. m[1] \in Live' /\ row'[m[1]].content = m[2]
        BY <2>4, <2>5, <4>1
      <4> QED
        BY <3>2, <3>3, <3>4, <4>1, <4>2
    <3> QED
      BY <1>1, <3>5, <3>6 DEF PushingAlone
  <2> QED
    BY <1>0, <1>1, <2>1, <2>4, <2>6, <2>7, InSync
<1> QED
  BY <1>3, <1>4 DEF CalendarInv

\* Google's events are listed: what was pushed is mirrored, the rest to import.
LEMMA ListKeeps ==
  ASSUME CalendarInv, ListCopies
  PROVE  CalendarInv'
<1> DEFINE items == {<<g, google[g]>> : g \in {g \in Copies : google[g].state # "none"}}
<1>0. /\ CalendarShape /\ sync \in CalSync /\ sync.pc = "push" /\ sync.event = None /\ sync.push = {}
      /\ UNCHANGED <<row, google, synced, request, calm>>
      /\ sync' = [sync EXCEPT !.pc = "import", !.items = items]
  BY DEF CalendarInv, CalendarShape, ListCopies
<1>1. /\ items \in SUBSET (Copies \X CopyState)
      /\ \A item \in items : item[2] = google[item[1]]
      /\ \A g \in Copies : google[g].state = "none" \/ <<g, google[g]>> \in items
  BY <1>0 DEF CalendarShape
<1> HIDE DEF items
<1>2. /\ sync' \in CalSync /\ sync'.pc = "import" /\ sync'.items = items
      /\ sync'.mine = sync.mine /\ sync'.quiet = sync.quiet
  BY <1>0, <1>1 DEF CalSync
<1>3. CalendarShape'
  BY <1>0, <1>2 DEF CalendarShape, RowState, CopyState, CalRequest, CalSync
<1>4. ASSUME calm' PROVE CalmCalendar'
  <2>1. request.pc = "idle" /\ OneOwner
    BY <1>0, <1>4 DEF CalendarInv, CalmCalendar, Syncing
  <2>2. OneOwner'
    BY <1>0, <2>1 DEF OneOwner, Live
  <2>3. SyncOnItsRows'
    <3>1. \A item \in items : google'[item[1]].state # "none"
      BY <1>0 DEF items
    <3> QED
      BY <1>2, <3>1 DEF SyncOnItsRows
  <2>4. ASSUME sync'.quiet PROVE ImportingAlone'
    <3>1. PushingAlone
      BY <1>0, <1>2, <1>4, <2>4 DEF CalendarInv, CalmCalendar
    <3>2. \A e \in Live : e # sync.event /\ ~ToPush(e)
      BY <1>0 DEF Live, ToPush
    <3>3. \A e \in Live' : row'[e].copy # None
      BY <1>0, <3>1, <3>2 DEF PushingAlone, Live
    <3>4. \A m \in sync'.mine : m[1] \in Live' /\ row'[m[1]].content = m[2] /\ Mirrors(m[1])'
      BY <1>0, <1>2, <3>1, <3>2 DEF PushingAlone, Live, Mirrors, LiveCopies
    <3> QED
      BY <1>0, <1>1, <1>2, <3>3, <3>4 DEF ImportingAlone
  <2> QED
    BY <1>0, <1>2, <2>1, <2>2, <2>3, <2>4, InSync
<1> QED
  BY <1>3, <1>4 DEF CalendarInv

\* The sync ends or fails: the rows are as they were.
LEMMA EndKeeps ==
  ASSUME CalendarInv, EndSync \/ SyncFails
  PROVE  CalendarInv'
<1>0. CalendarShape /\ UNCHANGED <<google, request, calm>> /\ sync' = NoSync /\ synced' \in BOOLEAN
  BY DEF CalendarInv, CalendarShape, EndSync, SyncFails
<1>1. NoSync \in CalSync /\ NoSync.pc = "idle"
  BY DEF NoSync, CalSync
<1>2. /\ row' \in [Events -> RowState]
      /\ \A e \in Events : /\ row'[e].state = row[e].state /\ row'[e].copy = row[e].copy
                           /\ row'[e].source = row[e].source
  <2>1. CASE EndSync
    <3>1. row' = [e \in Events |-> [row[e] EXCEPT !.changed = FALSE]]
      BY <2>1 DEF EndSync
    <3>2. ASSUME NEW e \in Events
          PROVE  /\ row'[e] \in RowState /\ row'[e].state = row[e].state
                 /\ row'[e].copy = row[e].copy /\ row'[e].source = row[e].source
      <4>1. row[e] \in RowState /\ row'[e] = [row[e] EXCEPT !.changed = FALSE]
        BY <1>0, <3>1 DEF CalendarShape
      <4> QED
        BY <4>1 DEF RowState
    <3>3. DOMAIN row' = Events /\ row' = [e \in Events |-> row'[e]]
      BY <3>1
    <3> QED
      BY <3>2, <3>3
  <2>2. CASE SyncFails
    BY <1>0, <2>2 DEF SyncFails, CalendarShape
  <2> QED
    BY <2>1, <2>2
<1>3. CalendarShape'
  BY <1>0, <1>1, <1>2 DEF CalendarShape, RowState, CopyState, CalRequest, CalSync
<1>4. ASSUME calm' PROVE CalmCalendar'
  <2>1. request.pc = "idle" /\ OneOwner
    BY <1>0, <1>4 DEF CalendarInv, CalmCalendar, EndSync, SyncFails, Syncing
  <2>2. OneOwner'
    BY <1>0, <1>2, <2>1 DEF OneOwner, Live
  <2>3. RequestOnItsRow'
    BY <1>0, <2>1 DEF RequestOnItsRow
  <2> QED
    BY <1>0, <1>1, <2>2, <2>3, OutsideSync
<1> QED
  BY <1>3, <1>4 DEF CalendarInv

\* What the import of an item does to the rows: one of them is written, or none.
LEMMA ItemRow ==
  ASSUME CalendarShape, NEW g \in Copies, ImportCopy(g)
  PROVE  \E copy \in CopyState :
           /\ <<g, copy>> \in sync.items /\ sync' = [sync EXCEPT !.items = @ \ {<<g, copy>>}]
           /\ \/ copy.state = "cancelled" /\ row' = row /\ \A e \in Live : row[e].copy # g
              \/ \E e \in Events : \E v \in RowState :
                   /\ row' = [row EXCEPT ![e] = v] /\ v.copy = g
                   /\ \/ /\ row[e].state = "live" /\ row[e].copy = g
                         /\ v.source = row[e].source
                         /\ v.state = IF copy.state = "cancelled" THEN "deleted" ELSE "live"
                      \/ /\ row[e].state = "none" /\ v.state = "live"
                         /\ copy.state # "cancelled" /\ \A f \in Live : row[f].copy # g
                   /\ copy.state # "cancelled" => v.content = copy.content
<1> DEFINE known == {e \in Live : row[e].copy = g}
<1>1. PICK item \in sync.items :
        /\ item[1] = g
        /\ IF item[2].state = "cancelled"
           THEN \/ known = {} /\ row' = row
                \/ \E e \in known : RemoveCancelled(e)
           ELSE \/ \E e \in known :
                     row' = [row EXCEPT ![e].content = item[2].content, ![e].changed = TRUE]
                \/ /\ known = {}
                   /\ \E e \in Events :
                        /\ row[e].state = "none"
                        /\ row' = [row EXCEPT ![e] =
                             [state |-> "live", copy |-> g, source |-> "GOOGLE",
                              content |-> item[2].content, changed |-> TRUE]]
        /\ sync' = [sync EXCEPT !.items = @ \ {item}]
  BY DEF ImportCopy
<1>2. PICK copy \in CopyState : item = <<g, copy>> /\ item[2] = copy
  BY <1>1 DEF CalendarShape, CalSync
<1>3. \A e \in known : /\ e \in Events /\ row[e] \in RowState
                       /\ row[e].state = "live" /\ row[e].copy = g
  BY DEF Live, CalendarShape
<1>4. known = {} => \A f \in Live : row[f].copy # g
  OBVIOUS
<1> HIDE DEF known
<1> DEFINE Written(e, v) ==
             /\ row' = [row EXCEPT ![e] = v] /\ v.copy = g
             /\ \/ /\ row[e].state = "live" /\ row[e].copy = g
                   /\ v.source = row[e].source
                   /\ v.state = IF copy.state = "cancelled" THEN "deleted" ELSE "live"
                \/ /\ row[e].state = "none" /\ v.state = "live"
                   /\ copy.state # "cancelled" /\ \A f \in Live : row[f].copy # g
             /\ copy.state # "cancelled" => v.content = copy.content
<1>5. \/ copy.state = "cancelled" /\ row' = row /\ \A e \in Live : row[e].copy # g
      \/ \E e \in Events : \E v \in RowState : Written(e, v)
  <2>1. CASE copy.state = "cancelled"
    <3>1. CASE known = {} /\ row' = row
      BY <1>4, <2>1, <3>1
    <3>2. ASSUME NEW e \in known, RemoveCancelled(e) PROVE \E v \in RowState : Written(e, v)
      <4>1. PICK v \in RowState : /\ v = [row[e] EXCEPT !.state = "deleted"] /\ v.state = "deleted"
                                  /\ v.copy = row[e].copy /\ v.source = row[e].source
        BY ZenonT(60), <1>3, StateWritten
      <4>2. row' = [row EXCEPT ![e] = v]
        BY <1>3, <3>2, <4>1 DEF RemoveCancelled, CalendarShape
      <4> QED
        BY <1>3, <2>1, <4>1, <4>2
    <3> QED
      BY <1>1, <1>2, <1>3, <2>1, <3>1, <3>2
  <2>2. CASE copy.state # "cancelled"
    <3>1. ASSUME NEW e \in known,
                 row' = [row EXCEPT ![e].content = copy.content, ![e].changed = TRUE]
          PROVE  \E v \in RowState : Written(e, v)
      <4>1. PICK v : v = [row[e] EXCEPT !.content = copy.content, !.changed = TRUE]
        OBVIOUS
      <4>2. /\ v \in RowState /\ v.state = row[e].state /\ v.copy = row[e].copy
            /\ v.source = row[e].source /\ v.content = copy.content
        BY ZenonT(60), <1>3, <4>1 DEF RowState, CopyState
      <4>3. row' = [row EXCEPT ![e] = v]
        BY <1>3, <3>1, <4>1 DEF CalendarShape
      <4> QED
        BY <1>3, <2>2, <4>2, <4>3
    <3>2. ASSUME NEW e \in Events, known = {}, row[e].state = "none",
                 row' = [row EXCEPT ![e] = [state |-> "live", copy |-> g, source |-> "GOOGLE",
                                            content |-> copy.content, changed |-> TRUE]]
          PROVE  \E v \in RowState : Written(e, v)
      <4>1. PICK v : v = [state |-> "live", copy |-> g, source |-> "GOOGLE",
                          content |-> copy.content, changed |-> TRUE]
        OBVIOUS
      <4>2. v \in RowState /\ v.state = "live" /\ v.copy = g /\ v.content = copy.content
        BY <4>1 DEF RowState, CopyState
      <4> QED
        BY <1>4, <2>2, <3>2, <4>1, <4>2
    <3>3. \/ \E e \in known :
                row' = [row EXCEPT ![e].content = copy.content, ![e].changed = TRUE]
          \/ /\ known = {}
             /\ \E e \in Events :
                  /\ row[e].state = "none"
                  /\ row' = [row EXCEPT ![e] = [state |-> "live", copy |-> g, source |-> "GOOGLE",
                                               content |-> copy.content, changed |-> TRUE]]
      BY <1>1, <1>2, <2>2
    <3> HIDE DEF Written
    <3> QED
      BY <1>3, <3>1, <3>2, <3>3
  <2> QED
    BY <2>1, <2>2
<1> QED
  BY <1>1, <1>2, <1>5

\* One of Google's events is taken over: the row that has it follows it, or a
\* new row has it from now on.
LEMMA ImportKeeps ==
  ASSUME CalendarInv, NEW g \in Copies, ImportCopy(g)
  PROVE  CalendarInv'
<1>0. /\ CalendarShape /\ sync \in CalSync /\ sync.pc = "import"
      /\ UNCHANGED <<google, synced, request, calm>>
  BY DEF CalendarInv, CalendarShape, ImportCopy
<1>1. PICK copy \in CopyState :
        /\ <<g, copy>> \in sync.items /\ sync' = [sync EXCEPT !.items = @ \ {<<g, copy>>}]
        /\ \/ copy.state = "cancelled" /\ row' = row /\ \A e \in Live : row[e].copy # g
           \/ \E e \in Events : \E v \in RowState :
                /\ row' = [row EXCEPT ![e] = v] /\ v.copy = g
                /\ \/ /\ row[e].state = "live" /\ row[e].copy = g
                      /\ v.source = row[e].source
                      /\ v.state = IF copy.state = "cancelled" THEN "deleted" ELSE "live"
                   \/ /\ row[e].state = "none" /\ v.state = "live"
                      /\ copy.state # "cancelled" /\ \A f \in Live : row[f].copy # g
                /\ copy.state # "cancelled" => v.content = copy.content
  BY <1>0, ItemRow
<1>2. /\ sync' \in CalSync /\ sync'.pc = "import" /\ sync'.items = sync.items \ {<<g, copy>>}
      /\ sync'.mine = sync.mine /\ sync'.quiet = sync.quiet
  BY <1>0, <1>1 DEF CalSync
<1>3. row' \in [Events -> RowState]
  BY <1>0, <1>1, RowWritten DEF CalendarShape
<1>4. CalendarShape'
  BY <1>0, <1>2, <1>3 DEF CalendarShape, RowState, CopyState, CalRequest, CalSync
<1>5. ASSUME calm' PROVE CalmCalendar'
  <2>1. request.pc = "idle" /\ OneOwner /\ google[g].state # "none"
    BY <1>0, <1>1, <1>5 DEF CalendarInv, CalmCalendar, Syncing, SyncOnItsRows
  <2>2. SyncOnItsRows'
    BY <1>0, <1>2, <1>5 DEF CalendarInv, CalmCalendar, SyncOnItsRows
  <2>3. ASSUME sync.quiet PROVE ImportingAlone /\ copy = google[g]
    BY <1>0, <1>1, <1>5, <2>3 DEF CalendarInv, CalmCalendar, ImportingAlone
  <2>4. CASE copy.state = "cancelled" /\ row' = row /\ \A e \in Live : row[e].copy # g
    <3>1. OneOwner'
      BY <1>0, <2>1, <2>4 DEF OneOwner, Live
    <3>2. ASSUME sync'.quiet PROVE ImportingAlone'
      <4>1. ImportingAlone /\ copy = google[g]
        BY <1>2, <2>3, <3>2
      <4>2. \A h \in Copies : Taken(h) => Taken(h)'
        BY <1>0, <2>4 DEF Taken, Live
      <4>3. Taken(g)'
        BY <1>0, <2>4, <4>1 DEF Taken, Live
      <4> QED
        BY <1>0, <1>2, <2>4, <4>1, <4>2, <4>3 DEF ImportingAlone, Live, LiveCopies, Mirrors
    <3> QED
      BY <1>0, <1>2, <2>1, <2>2, <3>1, <3>2, InSync
  <2>5. ASSUME NEW e \in Events, NEW v \in RowState, row' = [row EXCEPT ![e] = v], v.copy = g,
               \/ /\ row[e].state = "live" /\ row[e].copy = g
                  /\ v.source = row[e].source
                  /\ v.state = IF copy.state = "cancelled" THEN "deleted" ELSE "live"
               \/ /\ row[e].state = "none" /\ v.state = "live"
                  /\ copy.state # "cancelled" /\ \A f \in Live : row[f].copy # g,
               copy.state # "cancelled" => v.content = copy.content
        PROVE  CalmCalendar'
    <3>1. \A f \in Events : row'[f] = IF f = e THEN v ELSE row[f]
      BY <1>0, <2>5, RowWritten DEF CalendarShape
    <3>2. /\ g # None /\ v.state = IF copy.state = "cancelled" THEN "deleted" ELSE "live"
      BY <2>5
    <3>3. \A f \in Live : f # e => row[f].copy # g
      BY <2>1, <2>5, <3>2 DEF OneOwner, Live
    <3>4. OneOwner'
      BY <1>0, <2>1, <2>5, <3>1, <3>2, <3>3 DEF OneOwner, Live
    <3>5. ASSUME sync'.quiet PROVE ImportingAlone'
      <4>1. ImportingAlone /\ copy = google[g]
        BY <1>2, <2>3, <3>5
      <4>2. ASSUME NEW h \in Copies, h # g, Taken(h) PROVE Taken(h)'
        BY <1>0, <2>5, <3>1, <4>2 DEF Taken, Live
      <4>3. Taken(g)'
        BY <1>0, <2>5, <3>1, <3>2, <3>3, <4>1 DEF Taken, Live
      <4>4. \A f \in Live' : row'[f].copy # None
        BY <2>5, <3>1, <3>2, <4>1 DEF ImportingAlone, Live
      <4>5. ASSUME NEW m \in sync'.mine
            PROVE  m[1] \in Live' /\ row'[m[1]].content = m[2] /\ Mirrors(m[1])'
        <5>1. m[1] \in Live /\ row[m[1]].content = m[2] /\ Mirrors(m[1])
          BY <1>2, <4>1, <4>5 DEF ImportingAlone
        <5>2. CASE m[1] = e
          <6>1. row[e].copy = g /\ google[g].state = "live" /\ google[g].content = m[2]
            BY <2>5, <5>1, <5>2 DEF Live, LiveCopies, Mirrors
          <6>2. v.state = "live" /\ v.content = m[2]
            BY <2>5, <3>2, <4>1, <6>1
          <6> QED
            BY <1>0, <2>5, <3>1, <5>2, <6>1, <6>2 DEF Live, LiveCopies, Mirrors
        <5>3. CASE m[1] # e
          BY <1>0, <3>1, <5>1, <5>3 DEF Live, LiveCopies, Mirrors
        <5> QED
          BY <5>2, <5>3
      <4>6. \A h \in Copies : google'[h].state = "none" \/ <<h, google'[h]>> \in sync'.items \/ Taken(h)'
        <5>1. ASSUME NEW h \in Copies, h # g
              PROVE  google'[h].state = "none" \/ <<h, google'[h]>> \in sync'.items \/ Taken(h)'
          BY <1>0, <1>2, <4>1, <4>2, <5>1 DEF ImportingAlone
        <5> QED
          BY <4>3, <5>1
      <4>7. \A item \in sync'.items : item[2] = google'[item[1]]
        BY <1>0, <1>2, <4>1 DEF ImportingAlone
      <4> QED
        BY <4>4, <4>5, <4>6, <4>7 DEF ImportingAlone
    <3> QED
      BY <1>0, <1>2, <2>1, <2>2, <3>4, <3>5, InSync
  <2> QED
    BY <1>1, <2>4, <2>5
<1> QED
  BY <1>4, <1>5 DEF CalendarInv

LEMMA CalendarInvStep == CalendarInv /\ [CalendarNext]_calendarVars => CalendarInv'
<1> SUFFICES ASSUME CalendarInv, [CalendarNext]_calendarVars PROVE CalendarInv'
  OBVIOUS
<1>1. CASE UNCHANGED calendarVars
  BY <1>1 DEF calendarVars, CalendarInv, CalendarShape, CalmCalendar, OneOwner, RequestOnItsRow,
              SyncOnItsRows, PushingAlone, ImportingAlone, OwnedBy, ToPush, Mirrors, Taken, Live,
              LiveCopies, Syncing
<1>2. CASE CalendarNext
  BY <1>2, CreateKeeps, UpdateKeeps, DeleteKeeps, RequestPushKeeps, RequestStoreKeeps, GoogleKeeps,
     StartKeeps, SyncPushKeeps, SyncStoreKeeps, ListKeeps, ImportKeeps, EndKeeps DEF CalendarNext
<1> QED
  BY <1>1, <1>2

\* "Two-way sync: pulls Google's window and pushes Klyvero events that are new
\* or changed locally" (calendar-integration.service.ts:261): for any events,
\* copies and contents, a sync in which nothing else happened ends with both
\* sides one to one and in agreement, and no local change undone.
THEOREM CalendarsMirror == CalendarSpec => []QuietSyncMirrors
<1>1. CalendarInit => CalendarInv
  <2> SUFFICES ASSUME CalendarInit PROVE CalendarInv
    OBVIOUS
  <2>1. /\ row \in [Events -> RowState]
        /\ \A e \in Events : row[e].state = "none" /\ row[e].copy = None
    BY DEF CalendarInit, RowState
  <2>2. google \in [Copies -> CopyState]
    BY DEF CalendarInit, CopyState
  <2>3. request \in CalRequest /\ request.pc = "idle"
    BY DEF CalendarInit, NoRequest, CalRequest
  <2>4. sync \in CalSync /\ sync.pc = "idle"
    BY DEF CalendarInit, NoSync, CalSync
  <2>5. CalendarShape
    BY <2>1, <2>2, <2>3, <2>4 DEF CalendarInit, CalendarShape
  <2>6. OneOwner
    BY <2>1 DEF OneOwner, Live
  <2> QED
    BY <2>3, <2>4, <2>5, <2>6 DEF CalendarInv, CalmCalendar, RequestOnItsRow, SyncOnItsRows
<1>2. CalendarInv => QuietSyncMirrors
  <2> SUFFICES ASSUME CalendarInv, calm, Ending
               PROVE  Mirrored /\ \A m \in sync.mine : m[1] \in Live /\ row[m[1]].content = m[2]
    BY DEF QuietSyncMirrors
  <2>1. CalendarShape /\ OneOwner /\ ImportingAlone /\ sync.items = {}
    BY DEF CalendarInv, CalmCalendar, Ending
  <2>2. \A g \in Copies : google[g].state = "none" \/ Taken(g)
    BY <2>1 DEF ImportingAlone
  <2>3. ASSUME NEW e \in Live
        PROVE  row[e].copy \in LiveCopies /\ google[row[e].copy].content = row[e].content
    <3>1. e \in Events /\ row[e].copy \in Copies /\ google[row[e].copy].state # "none"
      BY <2>1 DEF Live, CalendarShape, RowState, ImportingAlone, OneOwner
    <3>2. google[row[e].copy].state = "live"
      BY <2>1, <2>2, <3>1 DEF Taken, CalendarShape, CopyState
    <3>3. PICK f \in Live : row[f].copy = row[e].copy /\ row[f].content = google[row[e].copy].content
      BY <2>2, <3>1, <3>2 DEF Taken
    <3>4. f = e
      BY <2>1, <3>1, <3>3 DEF OneOwner
    <3> QED
      BY <3>1, <3>2, <3>3, <3>4 DEF LiveCopies
  <2>4. ASSUME NEW g \in LiveCopies PROVE Cardinality({e \in Live : row[e].copy = g}) = 1
    <3>1. PICK e \in Live : row[e].copy = g
      BY <2>2 DEF LiveCopies, Taken
    <3>2. {f \in Live : row[f].copy = g} = {e}
      BY <2>1, <2>4, <3>1 DEF OneOwner, LiveCopies
    <3> QED
      BY <3>2, FS_Singleton
  <2>5. Mirrored
    BY <2>3, <2>4 DEF Mirrored
  <2> QED
    BY <2>1, <2>5 DEF ImportingAlone
<1> QED
  BY <1>1, <1>2, CalendarInvStep, PTL DEF CalendarSpec
=============================================================================
