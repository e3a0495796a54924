------------------------------ MODULE LeadFinder ------------------------------
(***************************************************************************)
(* The page that searches for companies and turns them into leads:         *)
(* apps/web/app/app/prospecting/page.tsx with createLead of                *)
(* crud.service.ts. A handler sees the state of the render it was made in: *)
(* saving what is selected goes on with what was saved when it began. The  *)
(* search itself is the module PlaceSearch; form, filters and wording are  *)
(* left out.                                                               *)
(***************************************************************************)
EXTENDS Naturals, FiniteSets

CONSTANTS
  Companies,                \* what searches may find
  NoCompany,                \* none
  MaxCopies                 \* bound: rows of Lead for one company

ASSUME LeadFinderAssumption == NoCompany \notin Companies /\ MaxCopies \in Nat

VARIABLES
  results,                  \* what the last search found
  looking,                  \* a search is on its way (loading)
  selected, saved, saving,  \* companies: ticked, added, being added
  rowCalls,                 \* POST /leads on their way from a row: stored or not
  bulk,                     \* saveSelectedLeads, with what its handler sees
  leadRows,                 \* rows of Lead for each company
  repeated                  \* history: companies asked for again all the same

finderVars == <<results, looking, selected, saved, saving, rowCalls, bulk, leadRows,
                repeated>>

CallStates == {"none", "sent", "stored"}
NoBulk == [pc |-> "idle", todo |-> {}, seen |-> {}, now |-> NoCompany]

FinderInit ==
  /\ results = {} /\ looking = FALSE
  /\ selected = {} /\ saved = {} /\ saving = {}
  /\ rowCalls = [c \in Companies |-> "none"]
  /\ bulk = NoBulk
  /\ leadRows = [c \in Companies |-> 0]
  /\ repeated = {}

----------------------------------------------------------------------------
(* handleSearch *)

StartSearch ==
  /\ ~looking
  /\ looking' = TRUE
  /\ selected' = {}
  /\ UNCHANGED <<results, saved, saving, rowCalls, bulk, leadRows, repeated>>

\* Nothing is shown of a search that failed.
EndSearch(found) ==
  /\ looking
  /\ looking' = FALSE
  /\ results' = found
  /\ UNCHANGED <<selected, saved, saving, rowCalls, bulk, leadRows, repeated>>

----------------------------------------------------------------------------
(* Ticking *)

ToggleSelected(c) ==
  /\ c \in results \ saved
  /\ selected' = IF c \in selected THEN selected \ {c} ELSE selected \cup {c}
  /\ UNCHANGED <<results, looking, saved, saving, rowCalls, bulk, leadRows, repeated>>

\* The rows the filters leave, all or none of them.
ToggleAllVisible(filtered) ==
  LET selectable == filtered \ saved
  IN  /\ filtered \subseteq results
      /\ selected' = IF selectable # {} /\ selectable \subseteq selected
                     THEN selected \ selectable ELSE selected \cup selectable
      /\ UNCHANGED <<results, looking, saved, saving, rowCalls, bulk, leadRows, repeated>>

----------------------------------------------------------------------------
(* saveLead *)

\* A variant without the early return.
NeverSkips(c, seen) == FALSE

\* What was added, or is being added, is not asked for again.
Skips(c, seen) == c \in seen

\* POST /leads makes a row each time it is called.
MakeLead(c) ==
  /\ leadRows[c] < MaxCopies
  /\ leadRows' = [leadRows EXCEPT ![c] = @ + 1]

Succeeded(c) ==
  /\ saved' = saved \cup {c} /\ selected' = selected \ {c} /\ saving' = saving \ {c}

Failed(c) == saving' = saving \ {c} /\ UNCHANGED <<saved, selected>>

\* From its row or its details. What still waits in the loop of the selected
\* will be asked for again there.
SaveLead(c) ==
  /\ c \in results /\ rowCalls[c] = "none"
  /\ ~Skips(c, saved \cup saving)
  /\ saving' = saving \cup {c}
  /\ rowCalls' = [rowCalls EXCEPT ![c] = "sent"]
  /\ repeated' = IF c \in bulk.todo THEN repeated \cup {c} ELSE repeated
  /\ UNCHANGED <<results, looking, selected, saved, bulk, leadRows>>

StoreFromRow(c) ==
  /\ rowCalls[c] = "sent"
  /\ MakeLead(c)
  /\ rowCalls' = [rowCalls EXCEPT ![c] = "stored"]
  /\ UNCHANGED <<results, looking, selected, saved, saving, bulk, repeated>>

RowAnswered(c) ==
  /\ rowCalls[c] = "stored"
  /\ Succeeded(c)
  /\ rowCalls' = [rowCalls EXCEPT ![c] = "none"]
  /\ UNCHANGED <<results, looking, bulk, leadRows, repeated>>

\* An answer may be lost after its row was made.
RowFails(c) ==
  /\ rowCalls[c] # "none"
  /\ Failed(c)
  /\ rowCalls' = [rowCalls EXCEPT ![c] = "none"]
  /\ repeated' = IF rowCalls[c] = "stored" THEN repeated \cup {c} ELSE repeated
  /\ UNCHANGED <<results, looking, bulk, leadRows>>

----------------------------------------------------------------------------
(* saveSelectedLeads *)

SelectedRows == (results \cap selected) \ saved

SaveSelected ==
  /\ bulk.pc = "idle" /\ SelectedRows # {}
  /\ bulk' = [pc |-> "next", todo |-> SelectedRows, seen |-> saved \cup saving, now |-> NoCompany]
  /\ UNCHANGED <<results, looking, selected, saved, saving, rowCalls, leadRows, repeated>>

\* One after the other; what is skipped counts as added.
BulkNext(c) ==
  /\ bulk.pc = "next" /\ c \in bulk.todo
  /\ IF Skips(c, bulk.seen)
     THEN bulk' = [bulk EXCEPT !.todo = @ \ {c}] /\ UNCHANGED saving
     ELSE /\ bulk' = [bulk EXCEPT !.todo = @ \ {c}, !.pc = "sent", !.now = c]
          /\ saving' = saving \cup {c}
  /\ UNCHANGED <<results, looking, selected, saved, rowCalls, leadRows, repeated>>

StoreFromBulk ==
  /\ bulk.pc = "sent"
  /\ MakeLead(bulk.now)
  /\ bulk' = [bulk EXCEPT !.pc = "stored"]
  /\ UNCHANGED <<results, looking, selected, saved, saving, rowCalls, repeated>>

BulkAnswered ==
  /\ bulk.pc = "stored"
  /\ Succeeded(bulk.now)
  /\ bulk' = [bulk EXCEPT !.pc = "next", !.now = NoCompany]
  /\ UNCHANGED <<results, looking, rowCalls, leadRows, repeated>>

BulkFails ==
  /\ bulk.pc \in {"sent", "stored"}
  /\ Failed(bulk.now)
  /\ bulk' = [bulk EXCEPT !.pc = "next", !.now = NoCompany]
  /\ repeated' = IF bulk.pc = "stored" THEN repeated \cup {bulk.now} ELSE repeated
  /\ UNCHANGED <<results, looking, rowCalls, leadRows>>

BulkEnds ==
  /\ bulk.pc = "next" /\ bulk.todo = {}
  /\ bulk' = NoBulk
  /\ UNCHANGED <<results, looking, selected, saved, saving, rowCalls, leadRows, repeated>>

FinderNext ==
  \/ StartSearch \/ \E found \in SUBSET Companies : EndSearch(found)
  \/ \E c \in Companies :
       \/ ToggleSelected(c)
       \/ SaveLead(c) \/ StoreFromRow(c) \/ RowAnswered(c) \/ RowFails(c)
       \/ BulkNext(c)
  \/ \E filtered \in SUBSET results : ToggleAllVisible(filtered)
  \/ SaveSelected \/ StoreFromBulk \/ BulkAnswered \/ BulkFails \/ BulkEnds

FinderSpec == FinderInit /\ [][FinderNext]_finderVars

----------------------------------------------------------------------------
\* The sets of the page hold companies, and its calls are at one of their steps.
FinderTypeOK ==
  /\ results \subseteq Companies /\ selected \subseteq Companies
  /\ saved \subseteq Companies /\ saving \subseteq Companies
  /\ rowCalls \in [Companies -> CallStates]
  /\ bulk.pc \in {"idle", "next", "sent", "stored"}
  /\ bulk.now \in Companies \cup {NoCompany}
  /\ leadRows \in [Companies -> 0..MaxCopies]

\* A company becomes a lead once, from its row or with the selected and through
\* any searches, and what the page says was added is there: the API makes a row
\* for every call, so that only the page keeps it from asking twice. The two
\* cases it cannot tell are excepted: an answer that was lost, and a company that
\* is added from its row while it waits in the loop of the selected
\* (prospecting/page.tsx:327-377, crud.service.ts:15-23).
LeadsOnce ==
  /\ \A c \in Companies \ repeated : leadRows[c] <= 1
  /\ \A c \in saved : leadRows[c] > 0
=============================================================================
