---------------------------- MODULE MCWorkspaces ----------------------------
(***************************************************************************)
(* The work of a workspace for TLC: its quota and prospects, its calendar, *)
(* its conversations, and the pages of its deals, leads, agents and        *)
(* campaigns. The parts share no rows here, so that an interleaving of two *)
(* of them shows nothing new: a behaviour exercises the one its initial    *)
(* state names, and the others keep still. The page of the campaigns is    *)
(* four parts: its cards, and each of the dialogs that a card opens.       *)
(***************************************************************************)
EXTENDS Prospecting, Calendar, Conversations, DealBoard, LeadScreen, CsvExchange,
  AgentPage, CampaignPage

CONSTANTS A, B              \* the sets of interchangeable values

VARIABLE service

workVars == <<prospectingVars, calendarVars, conversationVars>>
salesVars == <<boardVars, leadVars, csvVars, agentVars>>
workspaceVars == <<service, workVars, salesVars, cardVars>>

CampaignParts == {"cards", "steps", "picker", "progress"}

Init ==
  /\ service \in {"quota", "prospecting", "calendar", "conversations", "board", "lead",
                  "files", "agents"} \cup CampaignParts
  /\ ProspectingInit /\ CalendarInit /\ ConversationsInit
  /\ BoardInit /\ LeadInit /\ CsvInit /\ AgentInit
  /\ CampaignPageInit
  \* One of the initial states of the parts that keep still.
  /\ service # "board" => pipelines = 0
  /\ service # "lead" => lead.status = NoLead.status
  /\ service # "files" => table = <<>>
  /\ service \notin CampaignParts => stepsMade = 0
  /\ service # "picker" => \A l \in People : contact[l] = "with"
  /\ service # "cards" => \A c \in Campaigns : ~campaigns[c].mailbox
  \* Campaigns that may have leads have a step, and those with two are in "steps".
  /\ service = "steps" => stepsMade > 0
  /\ service \in {"picker", "progress"} => stepsMade = 1

\* The prospects of a workspace without a limit: the limits are the quota's.
OfTheWork ==
  \/ /\ service = "quota" /\ UsageNext
     /\ UNCHANGED <<prospects, leads, job, conv, calendarVars, conversationVars>>
  \/ /\ service = "prospecting" /\ ProspectingNext /\ UNCHANGED quota
     /\ UNCHANGED <<calendarVars, conversationVars>>
  \/ /\ service = "calendar" /\ CalendarNext
     /\ UNCHANGED <<prospectingVars, conversationVars>>
  \/ /\ service = "conversations" /\ ConversationsNext
     /\ UNCHANGED <<prospectingVars, calendarVars>>

OfTheSales ==
  \/ service = "board" /\ BoardNext /\ UNCHANGED <<leadVars, csvVars, agentVars>>
  \/ service = "lead" /\ LeadNext /\ UNCHANGED <<boardVars, csvVars, agentVars>>
  \/ service = "files" /\ CsvNext /\ UNCHANGED <<boardVars, leadVars, agentVars>>
  \/ service = "agents" /\ AgentNext /\ UNCHANGED <<boardVars, leadVars, csvVars>>

\* The page reads its list when that would show something new, and opens the
\* dialog of the part. Only the steps need the list to be read, or the campaign to
\* be changed, while something else is on its way.
PollsAndOpens(kind) ==
  \/ CloseDialog
  \/ /\ \E c \in Campaigns :
          Listed(cards.list, c) # Exists(c) \/ cards.list.rows[c].steps # campaigns[c].steps
     /\ kind = "steps" \/ \A r \in Slots : Idle(r)
     /\ \E r \in Slots : Poll(r)
  \/ \E r \in Slots : ServeList(r) \/ ListRead(r)
  \/ \E c \in Campaigns : OpenDialog(kind, c)

\* The cards, with one request at a time.
OfCards ==
  /\ CardsNext
  /\ stepsMade' = stepsMade
  /\ {r \in Slots : asking'[r].pc = "idle"} # {}

\* The steps, of campaigns that nobody starts or deletes.
OfSteps ==
  /\ \/ StepsNext \/ PollsAndOpens("steps")
     \/ \E c \in Campaigns : ChangedByOthers(c)
     \/ \E r \in Slots : Serve(r)
  /\ \A c \in Campaigns : campaigns'[c].status = campaigns[c].status /\ ~campaigns'[c].mailbox
  /\ enrolled' = enrolled

\* The picker: leads lose their address or are deleted, but for one, while it is
\* open, and until it has spoken nothing happens to them while it is closed. What
\* is ticked while it saves could be ticked later.
OfPicker ==
  /\ \/ PickerNext \/ PollsAndOpens("enroll")
     \/ \E c \in Campaigns : ChangedByOthers(c) /\ DeletesCampaign(c)
  /\ \A c \in Campaigns, l \in People :
       /\ enrolled'[c][l] \in {"none", "PAUSED"}
       /\ contact'[l] # contact[l] => contact[l] = "with"
  /\ cards.picker.pc = "closed" /\ said.of = NoCampaign => storedVars' = storedVars
  /\ cards.picker.pc = "saving" => cards'.picker.selected \in {cards.picker.selected, {}}
  /\ said.of # NoCampaign => cards' = cards /\ asking' = asking
  /\ {l \in People : contact'[l] = "with"} # {}

\* The leads of a campaign, of which one lead at a time is in it.
OfProgress ==
  /\ \/ ProgressNext \/ PollsAndOpens("leads")
     \/ \E c \in Campaigns, l \in People : EnrolledByOthers(c, l)
  /\ \A c \in Campaigns : {l \in People : enrolled'[c][l] = "none"} # {}
  /\ cards'.progress.filter \in {"all", "ACTIVE", "FAILED"}

OfTheCampaigns ==
  \/ service = "cards" /\ OfCards
  \/ service = "steps" /\ OfSteps
  \/ service = "picker" /\ OfPicker
  \/ service = "progress" /\ OfProgress

Next ==
  /\ UNCHANGED service
  /\ \/ OfTheWork /\ UNCHANGED <<salesVars, cardVars>>
     \/ OfTheSales /\ UNCHANGED <<workVars, cardVars>>
     \/ OfTheCampaigns /\ UNCHANGED <<workVars, salesVars>>

Spec == Init /\ [][Next]_workspaceVars

\* Tables of one row, of two and of more than a file may have.
CsvTables ==
  LET Cells(chars, n) == UNION {[1..k -> chars] : k \in 0..n}
      Chars == {"x", ";", ",", "\"", "\n", "\r", "+", " "}
      Few == Cells({"x", "\"", "\n"}, 1)
  IN  {<<>>, <<<<<<"x">>, <<>>>>, <<<<"x">>, <<>>>>, <<<<"x">>, <<>>>>>>}
      \cup {<<<<c, d>>>> : c \in Cells(Chars, 2), d \in Cells(Chars, 1)}
      \cup {<<<<c, d>>, <<e, f>>>> : c, d, e, f \in Few}

\* Calls, events, agents and leads take each other's place; so do copies, places,
\* deletions and requests of the page.
ValueSymmetry == Permutations(A) \cup Permutations(B)

\* Nothing is claimed of a calendar after a request overlapped a sync.
StaysCalm == calm
=============================================================================
