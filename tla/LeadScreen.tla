------------------------------ MODULE LeadScreen ------------------------------
(***************************************************************************)
(* The screen of a lead in the mobile application,                         *)
(* apps/mobile/src/app/lead/[id].tsx, over lib/use-resource.ts and what    *)
(* crud.service.ts answers. A read carries a ticket, and only the newest   *)
(* is shown when it is answered; a new status is shown before the API has  *)
(* taken it, and taken back when it does not. Of a lead, the status and    *)
(* the notes matter.                                                       *)
(***************************************************************************)
EXTENDS Naturals, FiniteSets

CONSTANTS
  LeadStatuses,             \* of a lead
  MaxReads,                 \* bound: tickets
  MaxNotes                  \* bound: notes ever added

ASSUME LeadAssumption ==
  LeadStatuses # {} /\ MaxReads \in Nat \ {0} /\ MaxNotes \in Nat

VARIABLES
  lead,                     \* the row and its LeadActivity rows, or deleted
  screen,                   \* data, error and loading of useResource; busy; draft
  latest,                   \* the newest ticket
  reads,                    \* of each ticket: the read that carries it
  change,                   \* the request of changeStatus or addNote
  settled                   \* history: since the newest read was sent, nobody
                            \* else changed the lead and nothing failed

leadVars == <<lead, screen, latest, reads, change, settled>>

Tickets == 1..MaxReads
NoLead == [exists |-> FALSE, status |-> CHOOSE s \in LeadStatuses : TRUE, notes |-> 0]
NoTicket == [pc |-> "idle", saw |-> NoLead]
NoChange == [pc |-> "idle", kind |-> "none", status |-> NoLead.status, previous |-> NoLead]

\* The screen is opened: its effect reads the lead.
LeadInit ==
  /\ \E s \in LeadStatuses : lead = [exists |-> TRUE, status |-> s, notes |-> 0]
  /\ screen = [data |-> NoLead, error |-> FALSE, loading |-> TRUE, busy |-> "no"]
  /\ latest = 1
  /\ reads = [k \in Tickets |-> IF k = 1 THEN [NoTicket EXCEPT !.pc = "sent"] ELSE NoTicket]
  /\ change = NoChange
  /\ settled = TRUE

\* data: NoLead stands for nothing loaded.
Loaded == screen.data.exists

----------------------------------------------------------------------------
(* useResource *)

SendRead ==
  /\ latest < MaxReads
  /\ latest' = latest + 1
  /\ reads' = [reads EXCEPT ![latest + 1].pc = "sent"]
  /\ settled' = TRUE

\* The button of an error, as often as it is pressed.
Retry ==
  /\ ~Loaded /\ ~screen.loading
  /\ SendRead
  /\ UNCHANGED <<lead, screen, change>>

\* The lead first, then its activities: a note added in between is seen.
FindLead(k) ==
  /\ reads[k].pc = "sent"
  /\ reads' = [reads EXCEPT ![k] = [pc |-> IF lead.exists THEN "found" ELSE "refused", saw |-> lead]]
  /\ UNCHANGED <<lead, screen, latest, change, settled>>

FindActivities(k) ==
  /\ reads[k].pc = "found"
  /\ reads' = [reads EXCEPT ![k].pc = "answered", ![k].saw.notes = lead.notes]
  /\ UNCHANGED <<lead, screen, latest, change, settled>>

\* What waited for the read goes on: the screen is no longer busy.
Freed(busy, k) == IF change.pc = "reading" /\ k = latest THEN "no" ELSE busy
ChangeAfter(k) == IF change.pc = "reading" /\ k = latest THEN NoChange ELSE change

\* A variant that shows whatever is answered.
AnyTicket(k) == TRUE

Newest(k) == k = latest

ReadAnswered(k) ==
  /\ reads[k].pc = "answered"
  /\ screen' = IF Newest(k)
               THEN [data |-> reads[k].saw, error |-> FALSE, loading |-> FALSE,
                     busy |-> Freed(screen.busy, k)]
               ELSE screen
  /\ change' = ChangeAfter(k)
  /\ reads' = [reads EXCEPT ![k] = NoTicket]
  /\ UNCHANGED <<lead, latest, settled>>

\* It keeps what it shows, and does not tell while there is something to show.
ReadFails(k) ==
  /\ reads[k].pc # "idle"
  /\ screen' = IF Newest(k)
               THEN [screen EXCEPT !.error = TRUE, !.loading = FALSE, !.busy = Freed(@, k)]
               ELSE screen
  /\ change' = ChangeAfter(k)
  /\ reads' = [reads EXCEPT ![k] = NoTicket]
  /\ settled' = (settled /\ ~Newest(k))
  /\ UNCHANGED <<lead, latest>>

----------------------------------------------------------------------------
(* changeStatus and addNote *)

Rested == Loaded /\ screen.busy = "no" /\ change = NoChange

ChangeStatus(s) ==
  /\ Rested /\ s # screen.data.status
  /\ change' = [pc |-> "sent", kind |-> "status", status |-> s, previous |-> screen.data]
  /\ screen' = [screen EXCEPT !.data.status = s, !.busy = "status"]
  /\ UNCHANGED <<lead, latest, reads, settled>>

AddNote ==
  /\ Rested
  /\ change' = [NoChange EXCEPT !.pc = "sent", !.kind = "note"]
  /\ screen' = [screen EXCEPT !.busy = "note"]
  /\ UNCHANGED <<lead, latest, reads, settled>>

\* updateLead and addLeadNote.
ServeLeadChange ==
  /\ change.pc = "sent" /\ lead.exists
  /\ \/ change.kind = "status" /\ lead' = [lead EXCEPT !.status = change.status]
     \/ change.kind = "note" /\ lead.notes < MaxNotes /\ lead' = [lead EXCEPT !.notes = @ + 1]
  /\ change' = [change EXCEPT !.pc = "served"]
  /\ UNCHANGED <<screen, latest, reads, settled>>

LeadChanged ==
  /\ change.pc = "served"
  /\ SendRead
  /\ change' = [change EXCEPT !.pc = "reading"]
  /\ UNCHANGED <<lead, screen>>

\* Refused, or lost before or after it was served. The former status comes back
\* with all that was shown then.
ChangeFails ==
  /\ change.pc \in {"sent", "served"}
  /\ screen' = [screen EXCEPT !.data = IF change.kind = "status" THEN change.previous ELSE @,
                              !.busy = "no"]
  /\ settled' = (settled /\ change.pc = "sent")
  /\ change' = NoChange
  /\ UNCHANGED <<lead, latest, reads>>

LeadChangedElsewhere ==
  /\ lead.exists
  /\ \/ \E s \in LeadStatuses : lead' = [lead EXCEPT !.status = s]
     \/ lead.notes < MaxNotes /\ lead' = [lead EXCEPT !.notes = @ + 1]
     \/ lead' = [lead EXCEPT !.exists = FALSE]
  /\ settled' = FALSE
  /\ UNCHANGED <<screen, latest, reads, change>>

LeadNext ==
  \/ Retry \/ AddNote \/ ServeLeadChange \/ LeadChanged \/ ChangeFails \/ LeadChangedElsewhere
  \/ \E s \in LeadStatuses : ChangeStatus(s)
  \/ \E k \in Tickets : FindLead(k) \/ FindActivities(k) \/ ReadAnswered(k) \/ ReadFails(k)

LeadSpec == LeadInit /\ [][LeadNext]_leadVars

----------------------------------------------------------------------------
(* Properties *)

LeadTypeOK ==
  /\ lead.status \in LeadStatuses /\ lead.notes \in 0..MaxNotes
  /\ screen.data.status \in LeadStatuses /\ screen.busy \in {"no", "status", "note"}
  /\ latest \in 0..MaxReads
  /\ settled \in BOOLEAN

\* Once the newest read is answered and no change is under way, the screen shows
\* the lead as it is, though older reads may still be answered and statuses were
\* shown ahead of the API, provided that nobody else changed the lead since that
\* read was sent, it did not fail, and no answer to a change was lost.
LeadAgrees ==
  settled /\ change = NoChange /\ reads[latest] = NoTicket =>
    screen.data = lead
=============================================================================
