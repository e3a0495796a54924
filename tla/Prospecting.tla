----------------------------- MODULE Prospecting -----------------------------
(***************************************************************************)
(* Imports, provider searches and conversions of prospects:                *)
(* ProspectingService of                                                   *)
(* apps/api/src/modules/prospecting/prospecting.service.ts, composed with  *)
(* the quota every import is charged to. Nothing here runs in a            *)
(* transaction: each action is one statement, and the process may die      *)
(* between two.                                                            *)
(***************************************************************************)
EXTENDS Usage, Sequences, FiniteSets, Functions

CONSTANTS
  Keys,                     \* what upsertProspect recognises a person by
  Converters,               \* calls of convert that run at the same time
  MaxProspects              \* bound: prospects that are ever inserted

ASSUME ProspectingAssumption ==
  /\ IsFiniteSet(Calls)
  /\ MaxProspects \in Nat
  /\ "none" \notin Keys

VARIABLES
  prospects,                \* the rows of Prospect, in order of insertion
  leads,                    \* the prospect each lead was made from, in order
  job,                      \* the import or search of each call
  conv                      \* the calls of convert

prospectingVars == <<quota, counter, month, use, prospects, leads, job, conv>>

\* A row without e-mail, phone or names has no key and matches nothing.
Row == Keys \cup {"none"}
ProspectStatus == {"NEW", "DUPLICATE", "CONVERTED"}
Prospect == [key : Row, status : ProspectStatus, lead : Nat]

\* A job: its rows to go, and what the last lookup found, with its status.
Missing == MaxProspects + 1
NoJob == [status |-> "none", rows |-> <<>>, found |-> 0, was |-> "NEW"]
NoConv == [pc |-> "idle", prospect |-> 0, lead |-> 0]

ProspectingInit ==
  /\ UsageInit
  /\ prospects = <<>>
  /\ leads = <<>>
  /\ job = [u \in Calls |-> NoJob]
  /\ conv = [c \in Converters |-> NoConv]

Known(key) == {i \in DOMAIN prospects : prospects[i].key = key /\ key # "none"}

----------------------------------------------------------------------------
(* import and providerSearch *)

\* A variant that charges a call and not its rows.
ChargeOne(rows) == 1

\* An import and a search pay for every row they were given.
Charge(rows) == Len(rows)

\* import checks its rows and pays before it has a job; providerSearch has a
\* job, which fails with the quota, before it knows the rows. More rows than a
\* single charge allows are refused.
Submit(u) ==
  /\ job[u] = NoJob
  /\ \E k, m \in Row, s \in {"unpaid", "RUNNING"} : \E rows \in {<<k>>, <<k, m>>} :
       /\ Ask(u, Charge(rows))
       /\ job' = [job EXCEPT ![u] = [NoJob EXCEPT !.status = s, !.rows = rows]]
  /\ UNCHANGED <<prospects, leads, conv>>

Pay(u) ==
  /\ Spend(u)
  /\ UNCHANGED <<prospects, leads, job, conv>>

\* A job's end; what was not stored is given up.
JobEnds(u, status) == job' = [job EXCEPT ![u] = [NoJob EXCEPT !.status = status]]

Refused(u) ==
  /\ UseAt(u, {"refused"}) /\ job[u].status \in {"unpaid", "RUNNING"}
  /\ JobEnds(u, IF job[u].status = "RUNNING" THEN "FAILED" ELSE "refused")
  /\ UNCHANGED <<quota, counter, month, use, prospects, leads, conv>>

CreateJob(u) ==
  /\ UseAt(u, {"granted"}) /\ job[u].status = "unpaid"
  /\ job' = [job EXCEPT ![u].status = "RUNNING"]
  /\ UNCHANGED <<quota, counter, month, use, prospects, leads, conv>>

Running(u) == UseAt(u, {"granted"}) /\ job[u].status = "RUNNING"

\* upsertProspect, first statement: any row with the key, or none.
FindProspect(u) ==
  /\ Running(u) /\ job[u].found = 0 /\ job[u].rows # <<>>
  /\ LET known == Known(Head(job[u].rows)) IN
       \/ \E i \in known :
            job' = [job EXCEPT ![u].found = i, ![u].was = prospects[i].status]
       \/ known = {} /\ job' = [job EXCEPT ![u].found = Missing]
  /\ UNCHANGED <<quota, counter, month, use, prospects, leads, conv>>

\* The status is decided from the one that was read.
Remarked(row, was) ==
  [row EXCEPT !.status = IF was = "CONVERTED" THEN "CONVERTED" ELSE "DUPLICATE"]

\* Second statement: the row found is marked, or a new one inserted.
StoreProspect(u) ==
  /\ Running(u) /\ job[u].found # 0
  /\ IF job[u].found # Missing
     THEN prospects' = [prospects EXCEPT ![job[u].found] = Remarked(@, job[u].was)]
     ELSE /\ Len(prospects) < MaxProspects
          /\ prospects' = Append(prospects, [key |-> Head(job[u].rows), status |-> "NEW",
                                             lead |-> 0])
  /\ job' = [job EXCEPT ![u].rows = Tail(@), ![u].found = 0, ![u].was = "NEW"]
  /\ UNCHANGED <<quota, counter, month, use, leads, conv>>

CompleteJob(u) ==
  /\ Running(u) /\ job[u].rows = <<>>
  /\ JobEnds(u, "COMPLETED")
  /\ UNCHANGED <<quota, counter, month, use, prospects, leads, conv>>

\* A statement fails: the job is marked and the other rows are given up.
FailJob(u) ==
  /\ Running(u)
  /\ JobEnds(u, "FAILED")
  /\ UNCHANGED <<quota, counter, month, use, prospects, leads, conv>>

----------------------------------------------------------------------------
(* convert *)

ReadProspect(c, i) ==
  /\ conv[c].pc = "idle" /\ i <= Len(prospects)
  /\ prospects[i].lead = 0
  /\ conv' = [conv EXCEPT ![c] = [pc |-> "lead", prospect |-> i, lead |-> 0]]
  /\ UNCHANGED <<quota, counter, month, use, prospects, leads, job>>

CreateLead(c) ==
  /\ conv[c].pc = "lead"
  /\ leads' = Append(leads, conv[c].prospect)
  /\ conv' = [conv EXCEPT ![c].pc = "link", ![c].lead = Len(leads) + 1]
  /\ UNCHANGED <<quota, counter, month, use, prospects, job>>

LinkLead(c) ==
  /\ conv[c].pc = "link"
  /\ prospects' = [prospects EXCEPT ![conv[c].prospect].status = "CONVERTED",
                                    ![conv[c].prospect].lead = conv[c].lead]
  /\ conv' = [conv EXCEPT ![c] = [NoConv EXCEPT !.pc = "done"]]
  /\ UNCHANGED <<quota, counter, month, use, leads, job>>

\* A statement fails or the process dies; the request is lost.
DropConvert(c) ==
  /\ conv[c].pc \in {"lead", "link"}
  /\ conv' = [conv EXCEPT ![c] = [NoConv EXCEPT !.pc = "done"]]
  /\ UNCHANGED <<quota, counter, month, use, prospects, leads, job>>

DropJob(u) ==
  /\ Running(u)
  /\ JobEnds(u, "abandoned")
  /\ UNCHANGED <<quota, counter, month, use, prospects, leads, conv>>

ProspectingNext ==
  \/ (SubscriptionChanges \/ TurnMonth) /\ UNCHANGED <<prospects, leads, job, conv>>
  \/ \E u \in Calls :
       \/ Submit(u) \/ Pay(u) \/ Refused(u) \/ CreateJob(u) \/ FindProspect(u)
       \/ StoreProspect(u) \/ CompleteJob(u) \/ FailJob(u) \/ DropJob(u)
  \/ \E c \in Converters :
       \/ \E i \in 1..MaxProspects : ReadProspect(c, i)
       \/ CreateLead(c) \/ LinkLead(c) \/ DropConvert(c)

ProspectingSpec == ProspectingInit /\ [][ProspectingNext]_prospectingVars

----------------------------------------------------------------------------
(* Properties *)

ProspectingTypeOK ==
  /\ UsageTypeOK
  /\ prospects \in Seq(Prospect) /\ Len(prospects) <= MaxProspects
  /\ leads \in Seq(1..MaxProspects)
  /\ \A u \in Calls :
       /\ job[u].status \in {"none", "unpaid", "refused", "RUNNING", "COMPLETED", "FAILED", "abandoned"}
       /\ job[u].rows \in Seq(Row)
       /\ job[u].found \in 0..Missing
  /\ \A c \in Converters : conv[c].pc \in {"idle", "lead", "link", "done"}

\* Every prospect an import or a search stores was charged to the quota
\* (prospecting.service.ts:112 and :154), whichever call fails, dies or is
\* refused: the counters never show less than what was stored.
RowsArePaid == Len(prospects) <= FoldFunction(+, 0, counter)
=============================================================================
