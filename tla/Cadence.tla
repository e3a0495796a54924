------------------------------- MODULE Cadence -------------------------------
(***************************************************************************)
(* What the campaign engine promises a lead, without saying how: a lead    *)
(* joins a cadence once, each step is settled at most once (its message is *)
(* sent, or there is nothing to send), steps are settled in increasing     *)
(* position, and a cadence that was closed does not open again.  The step  *)
(* that is on its way while a cadence closes may still be settled.          *)
(*                                                                         *)
(* This is the reading of docs/campaigns.md, sections "Como funciona",      *)
(* "Estados" and "Parar ao receber resposta"; CampaignEngine implements it. *)
(***************************************************************************)
EXTENDS Integers

CONSTANTS Enrollments, Positions

VARIABLES
    life,       \* of each enrollment: "out", "open" or "closed"
    outcome     \* of each step of it: "none", "sent" or "skipped"

vars == <<life, outcome>>

Steps == Enrollments \X Positions

Init ==
    /\ life = [e \in Enrollments |-> "out"]
    /\ outcome = [s \in Steps |-> "none"]

\* One request can enroll, complete or close several leads at once.
Join ==
    /\ \E E \in SUBSET Enrollments :
         /\ \A e \in E : life[e] = "out"
         /\ life' = [e \in Enrollments |-> IF e \in E THEN "open" ELSE life[e]]
    /\ UNCHANGED outcome

Close ==
    /\ \E E \in SUBSET Enrollments :
         /\ \A e \in E : life[e] = "open"
         /\ life' = [e \in Enrollments |-> IF e \in E THEN "closed" ELSE life[e]]
    /\ UNCHANGED outcome

Settle(e, p, how) ==
    /\ life[e] # "out"
    /\ \A q \in Positions : q >= p => outcome[<<e, q>>] = "none"
    /\ outcome' = [outcome EXCEPT ![<<e, p>>] = how]
    /\ UNCHANGED life

Next ==
    \/ Join
    \/ Close
    \/ \E e \in Enrollments, p \in Positions, how \in {"sent", "skipped"} :
         Settle(e, p, how)

Spec == Init /\ [][Next]_vars
=============================================================================
