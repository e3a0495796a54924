---------------------------- MODULE CampaignPage ----------------------------
(***************************************************************************)
(* The page of the campaigns, apps/web/app/app/campaigns/, in one tab: the *)
(* cards, the form, and the dialogs that write the steps of a campaign,    *)
(* enroll leads in it and list them. Of what the API does (modules         *)
(* CampaignRequests and SequenceScheduler) it keeps what the page can see. *)
(* Delays, texts, messages, errors and the roles that hide buttons are     *)
(* left out; every step is an e-mail, and a lead has an address or none.   *)
(***************************************************************************)
EXTENDS Naturals, FiniteSets

CONSTANTS
  Campaigns, NoCampaign,    \* rows of Campaign that may be made, and none
  People,                   \* leads of the workspace
  Slots,                    \* requests of the page at the same time
  MaxPosition,              \* of a step (1000)
  MaxSteps,                 \* bound: steps ever stored
  Batch,                    \* leads that one request enrolls (1000)
  Take                      \* enrollments that the picker is told of (500)

ASSUME CampaignPageAssumption ==
  /\ NoCampaign \notin Campaigns /\ IsFiniteSet(People)
  /\ MaxPosition \in Nat \ {0} /\ MaxSteps \in Nat
  /\ Batch \in Nat \ {0} /\ Take \in Nat \ {0}

VARIABLES
  campaigns,                \* the rows of Campaign, with those of their steps
  stepsMade,                \* how many steps were stored: the newest is the last
  enrolled,                 \* the status of SequenceEnrollment, "none" without one
  contact,                  \* of each lead: is it there, and can it be reached
  cards,                    \* the page and its dialogs
  asking,                   \* the requests and the statements that serve them
  said                      \* history: the last message of the picker

storedVars == <<campaigns, stepsMade, enrolled, contact>>
cardVars == <<storedVars, cards, asking, said>>

NoSteps == [p \in 1..MaxPosition |-> 0]
Open == {"ACTIVE", "PAUSED"}
Kept == {"DRAFT", "ACTIVE", "PAUSED"}
Filters == {"all", "ACTIVE", "PAUSED", "FAILED", "closed"}

\* What list() answers. RowsAsked have numbers in the order in which they were made.
ListNow ==
  [rows |-> [c \in Campaigns |->
               [status |-> campaigns[c].status, mailbox |-> campaigns[c].mailbox,
                steps |-> campaigns[c].steps,
                enrolled |-> \E l \in People : enrolled[c][l] # "none",
                waiting |-> \E l \in People : enrolled[c][l] \in Open]],
   upto |-> stepsMade]

NoRow == [status |-> "none", mailbox |-> FALSE, steps |-> NoSteps]
NoList ==
  [rows |-> [c \in Campaigns |-> [status |-> "none", mailbox |-> FALSE, steps |-> NoSteps,
                                  enrolled |-> FALSE, waiting |-> FALSE]],
   upto |-> 0]
NoDialog == [kind |-> "none", of |-> NoCampaign]
NoStep == [row |-> 0, at |-> 0, upto |-> 0]
NoCount == [enrolled |-> 0, already |-> 0, without |-> 0]
NoPicker == [pc |-> "closed", of |-> NoCampaign, offered |-> {}, selected |-> {}, ids |-> {},
             left |-> {}, total |-> NoCount]
NoStatus == [l \in People |-> "none"]
NoProgress == [filter |-> "all", rows |-> NoStatus, loading |-> TRUE, mixed |-> FALSE]
NoAsk == [pc |-> "idle", ask |-> "none", of |-> NoCampaign, mailbox |-> FALSE, step |-> NoStep,
          list |-> NoList, then |-> "none", here |-> {}, leads |-> {}, fresh |-> {},
          count |-> NoCount, filter |-> "all", rows |-> NoStatus]

\* Campaigns may have steps already, which were stored first.
CampaignPageInit ==
  /\ \E n \in 0..MaxPosition :
       /\ n <= MaxSteps /\ stepsMade = n
       /\ \E c \in Campaigns, m \in BOOLEAN :
            campaigns = [d \in Campaigns |-> IF d # c THEN NoRow
              ELSE [status |-> "DRAFT", mailbox |-> m,
                    steps |-> [p \in 1..MaxPosition |-> IF p <= n THEN p ELSE 0]]]
  /\ enrolled = [c \in Campaigns |-> NoStatus]
  /\ contact \in [People -> {"with", "without"}]
  /\ cards = [list |-> NoList, dialog |-> NoDialog, busy |-> NoCampaign, editor |-> "none",
              step |-> NoStep, picker |-> NoPicker, progress |-> NoProgress]
  /\ asking = [r \in Slots |-> NoAsk]
  /\ said = [of |-> NoCampaign, ids |-> {}, total |-> NoCount]

----------------------------------------------------------------------------
(* CampaignsService, as the page and other users call it *)

Exists(c) == campaigns[c].status \in Kept

WaitingIn(c) == {l \in People : enrolled[c][l] \in Open}

\* Those without a step left are completed.
StartsCampaign(c) ==
  /\ Exists(c) /\ campaigns[c].steps # NoSteps /\ campaigns[c].mailbox
  /\ campaigns' = [campaigns EXCEPT ![c].status = "ACTIVE"]
  /\ \E done \in SUBSET WaitingIn(c) :
       enrolled' = [enrolled EXCEPT ![c] = [l \in People |->
         IF l \in done THEN "closed" ELSE IF l \in WaitingIn(c) THEN "ACTIVE" ELSE @[l]]]
  /\ UNCHANGED stepsMade

PausesCampaign(c) ==
  /\ Exists(c)
  /\ campaigns' = [campaigns EXCEPT ![c].status = "PAUSED"]
  /\ enrolled' = [enrolled EXCEPT ![c] = [l \in People |->
                    IF @[l] = "ACTIVE" THEN "PAUSED" ELSE @[l]]]
  /\ UNCHANGED stepsMade

DeletesCampaign(c) ==
  /\ Exists(c) /\ campaigns[c].status # "ACTIVE"
  /\ campaigns' = [campaigns EXCEPT ![c] = [NoRow EXCEPT !.status = "gone"]]
  /\ enrolled' = [enrolled EXCEPT ![c] = NoStatus]
  /\ UNCHANGED stepsMade

CreatesCampaign(c, mailbox) ==
  /\ campaigns[c].status = "none"
  /\ campaigns' = [campaigns EXCEPT ![c] = [NoRow EXCEPT !.status = "DRAFT", !.mailbox = mailbox]]
  /\ UNCHANGED <<stepsMade, enrolled>>

\* The form sends a mailbox only if another was chosen; it can take none away.
UpdatesCampaign(c, mailbox) ==
  /\ Exists(c) /\ (mailbox => campaigns[c].status # "ACTIVE")
  /\ campaigns' = [campaigns EXCEPT ![c].mailbox = @ \/ mailbox]
  /\ UNCHANGED <<stepsMade, enrolled>>

\* addStep: an upsert by campaign and position.
StoresStep(c, at) ==
  /\ Exists(c) /\ at <= MaxPosition
  /\ IF campaigns[c].steps[at] # 0 THEN UNCHANGED <<campaigns, stepsMade>>
     ELSE /\ stepsMade < MaxSteps
          /\ stepsMade' = stepsMade + 1
          /\ campaigns' = [campaigns EXCEPT ![c].steps[at] = stepsMade + 1]
  /\ UNCHANGED enrolled

\* removeStep: by its id, while the campaign is not running.
RemovesStep(c, row) ==
  /\ Exists(c) /\ campaigns[c].status # "ACTIVE" /\ row # 0
  /\ \E p \in 1..MaxPosition :
       campaigns[c].steps[p] = row /\ campaigns' = [campaigns EXCEPT ![c].steps[p] = 0]
  /\ UNCHANGED <<stepsMade, enrolled>>

----------------------------------------------------------------------------
(* The page: page.tsx *)

Listed(list, c) == c \in Campaigns /\ list.rows[c].status \in Kept

\* A dialog of a campaign that is not in the list is not shown, and forgets what
\* was in it; it comes back with the campaign. A dialog covers the page.
Mounted(page) ==
  IF page.dialog.kind = "create" \/ Listed(page.list, page.dialog.of) THEN page.dialog
  ELSE NoDialog

PickerOf(page) ==
  IF page.picker.pc = "saving" THEN page.picker
  ELSE IF Mounted(page).kind = "enroll"
       THEN [NoPicker EXCEPT !.pc = "loading", !.of = page.dialog.of]
       ELSE NoPicker

\* What was sent goes on, but a dialog that was closed does not hear of it.
Turn(page, asks) ==
  LET stays == Mounted(page) = Mounted(cards)
  IN  /\ cards' = IF stays THEN page
                  ELSE [page EXCEPT !.editor = "none", !.step = NoStep,
                                    !.picker = PickerOf(page), !.progress = NoProgress]
      /\ asking' = IF stays THEN asks ELSE [r \in Slots |-> [asks[r] EXCEPT !.here = {}]]

Idle(r) == asking[r].pc = "idle"

Requested(ask, c, here) == [NoAsk EXCEPT !.pc = "sent", !.ask = ask, !.of = c, !.here = here]

\* The list is read again by a timer, and once a request was answered.
ReadAgain(then, c, here) == [Requested("load", c, here) EXCEPT !.then = then]

Poll(r) ==
  /\ Idle(r)
  /\ asking' = [asking EXCEPT ![r] = ReadAgain("none", NoCampaign, {})]
  /\ UNCHANGED <<storedVars, cards, said>>

ServeList(r) ==
  /\ asking[r].ask = "load" /\ asking[r].pc = "sent"
  /\ asking' = [asking EXCEPT ![r].pc = "answered", ![r].list = ListNow]
  /\ UNCHANGED <<storedVars, cards, said>>

\* Answered or not, what waited for the list goes on: the buttons of a card,
\* those of the steps, or the steps of a new campaign.
ListRead(r) ==
  /\ asking[r].ask = "load"
  /\ \E list \in {cards.list} \cup (IF asking[r].pc = "answered" THEN {asking[r].list} ELSE {}) :
       Turn([cards EXCEPT
               !.list = list,
               !.busy = IF asking[r].then = "card" THEN NoCampaign ELSE @,
               !.dialog = IF asking[r].then = "create" THEN [kind |-> "steps", of |-> asking[r].of]
                          ELSE @],
            [asking EXCEPT ![r] = NoAsk])
  /\ UNCHANGED <<storedVars, said>>

\* The buttons of a card: what runs is paused, and neither started nor deleted.
Pressable(row) ==
  IF row.status = "ACTIVE" THEN {"pause"}
  ELSE {"delete"} \cup (IF row.steps # NoSteps /\ row.mailbox /\ row.waiting THEN {"start"} ELSE {})

\* One at a time of each card.
PressCard(r, ask, c) ==
  /\ Idle(r) /\ Mounted(cards) = NoDialog /\ Listed(cards.list, c) /\ cards.busy # c
  /\ ask \in Pressable(cards.list.rows[c])
  /\ cards' = [cards EXCEPT !.busy = c]
  /\ asking' = [asking EXCEPT ![r] = Requested(ask, c, {})]
  /\ UNCHANGED <<storedVars, said>>

\* The end of one frees the buttons of all.
CardAnswered(r) ==
  /\ asking[r].ask \in {"start", "pause", "delete"}
  /\ \/ /\ asking[r].pc = "answered"
        /\ asking' = [asking EXCEPT ![r] = ReadAgain("card", asking[r].of, {})]
        /\ UNCHANGED cards
     \/ /\ asking' = [asking EXCEPT ![r] = NoAsk]
        /\ cards' = [cards EXCEPT !.busy = NoCampaign]
  /\ UNCHANGED <<storedVars, said>>

\* A form, an editor or a picker that waits for its answer.
Saving ==
  \/ \E r \in Slots : "editor" \in asking[r].here
  \/ Mounted(cards).kind = "enroll" /\ cards.picker.pc = "saving"

OpenDialog(kind, c) ==
  /\ Mounted(cards) = NoDialog
  /\ IF kind = "create" THEN c = NoCampaign ELSE Listed(cards.list, c)
  /\ kind = "leads" => cards.list.rows[c].enrolled
  /\ kind = "enroll" => cards.picker.pc = "closed"
  /\ Turn([cards EXCEPT !.dialog = [kind |-> kind, of |-> c]], asking)
  /\ UNCHANGED <<storedVars, said>>

\* The steps and the list of leads may be closed at any time.
CloseDialog ==
  /\ Mounted(cards) # NoDialog
  /\ cards.dialog.kind \in {"create", "edit", "enroll"} => ~Saving
  /\ Turn([cards EXCEPT !.dialog = NoDialog], asking)
  /\ UNCHANGED <<storedVars, said>>

----------------------------------------------------------------------------
(* The form: campaign-form-dialog.tsx *)

\* A running campaign keeps its mailbox.
SubmitForm(r, mailbox) ==
  /\ Idle(r) /\ Mounted(cards).kind \in {"create", "edit"} /\ ~Saving
  /\ Mounted(cards).kind = "edit" /\ mailbox =>
       cards.list.rows[cards.dialog.of].status # "ACTIVE"
  /\ asking' = [asking EXCEPT ![r] = [Requested(cards.dialog.kind, cards.dialog.of, {"editor"})
                                        EXCEPT !.mailbox = mailbox]]
  /\ UNCHANGED <<storedVars, cards, said>>

\* A new campaign opens its steps, an edited one closes the dialog that is open.
FormAnswered(r) ==
  /\ asking[r].ask \in {"create", "edit"}
  /\ \/ /\ asking[r].pc = "answered" /\ asking[r].ask = "create"
        /\ asking' = [asking EXCEPT ![r] = ReadAgain("create", asking[r].of, asking[r].here)]
        /\ UNCHANGED cards
     \/ /\ asking[r].pc = "answered" /\ asking[r].ask = "edit"
        /\ Turn([cards EXCEPT !.dialog = NoDialog],
                [asking EXCEPT ![r] = ReadAgain("none", NoCampaign, {})])
     \/ asking' = [asking EXCEPT ![r] = NoAsk] /\ UNCHANGED cards
  /\ UNCHANGED <<storedVars, said>>

----------------------------------------------------------------------------
(* The steps: steps-dialog.tsx *)

StepsShown == cards.list.rows[cards.dialog.of].steps

\* A variant that counts the steps.
AfterAll(steps) == Cardinality({p \in 1..MaxPosition : steps[p] # 0}) + 1

\* The position after the last one that is shown.
NextPosition(steps) ==
  CHOOSE n \in 1..MaxPosition + 1 :
    /\ \A p \in 1..MaxPosition : steps[p] # 0 => p < n
    /\ n = 1 \/ steps[n - 1] # 0

InSteps == Mounted(cards).kind = "steps"

\* Removing a step disables the buttons of all until the list was read.
RemovingStep ==
  \E r \in Slots : "dialog" \in asking[r].here /\ "drop" \in {asking[r].ask, asking[r].then}

NewStep ==
  /\ InSteps /\ cards.editor = "none"
  /\ cards' = [cards EXCEPT !.editor = "new"]
  /\ UNCHANGED <<storedVars, asking, said>>

\* Another step may be opened while one is being saved.
EditStep(p) ==
  LET step == [row |-> StepsShown[p], at |-> p, upto |-> StepsShown[p]]
  IN  /\ InSteps /\ StepsShown[p] # 0 /\ ~RemovingStep
      /\ cards' = [cards EXCEPT !.editor = "edit", !.step = step]
      /\ asking' = IF cards.step.row = step.row THEN asking
                   ELSE [r \in Slots |-> [asking[r] EXCEPT !.here = @ \ {"editor"}]]
      /\ UNCHANGED <<storedVars, said>>

CancelEdit ==
  /\ InSteps /\ cards.editor # "none" /\ ~Saving
  /\ cards' = [cards EXCEPT !.editor = "none", !.step = NoStep]
  /\ UNCHANGED <<storedVars, asking, said>>

\* A new step goes after those that are shown by now.
SubmitStep(r) ==
  LET fresh == [row |-> 0, at |-> NextPosition(StepsShown), upto |-> cards.list.upto]
  IN  /\ Idle(r) /\ InSteps /\ cards.editor # "none" /\ ~Saving
      /\ asking' = [asking EXCEPT ![r] = [Requested("save", cards.dialog.of, {"dialog", "editor"})
                      EXCEPT !.step = IF cards.editor = "new" THEN fresh ELSE cards.step]]
      /\ UNCHANGED <<storedVars, cards, said>>

RemoveStep(r, p) ==
  /\ Idle(r) /\ InSteps /\ StepsShown[p] # 0 /\ ~RemovingStep
  /\ cards.list.rows[cards.dialog.of].status # "ACTIVE"
  /\ asking' = [asking EXCEPT ![r] = [Requested("drop", cards.dialog.of, {"dialog"})
                                        EXCEPT !.step.row = StepsShown[p]]]
  /\ UNCHANGED <<storedVars, cards, said>>

\* A saved step closes the editor, whichever step is in it by then, before the
\* list is read; one that was not leaves it open.
StepAnswered(r) ==
  /\ asking[r].ask \in {"save", "drop"}
  /\ \/ /\ asking[r].pc = "answered"
        /\ LET closes == asking[r].ask = "save" /\ "dialog" \in asking[r].here
               rest == asking[r].here \ {"editor"}
           IN  /\ cards' = IF ~closes THEN cards
                           ELSE [cards EXCEPT !.editor = "none", !.step = NoStep]
               /\ asking' = [q \in Slots |->
                    IF q = r THEN ReadAgain(asking[r].ask, asking[r].of, rest)
                    ELSE IF closes THEN [asking[q] EXCEPT !.here = @ \ {"editor"}]
                    ELSE asking[q]]
     \/ asking' = [asking EXCEPT ![r] = NoAsk] /\ UNCHANGED cards
  /\ UNCHANGED <<storedVars, said>>

\* What is refused, like what is lost, fails at the page.
Serve(r) ==
  /\ asking[r].pc = "sent"
  /\ \E c \in Campaigns :
       /\ asking[r].ask = "create" \/ c = asking[r].of
       /\ CASE asking[r].ask = "start" -> StartsCampaign(c)
            [] asking[r].ask = "pause" -> PausesCampaign(c)
            [] asking[r].ask = "delete" -> DeletesCampaign(c)
            [] asking[r].ask = "create" -> CreatesCampaign(c, asking[r].mailbox)
            [] asking[r].ask = "edit" -> UpdatesCampaign(c, asking[r].mailbox)
            [] asking[r].ask = "save" -> StoresStep(c, asking[r].step.at)
            [] asking[r].ask = "drop" -> RemovesStep(c, asking[r].step.row)
            [] OTHER -> FALSE
       /\ asking' = [asking EXCEPT ![r].pc = "answered", ![r].of = c]
  /\ UNCHANGED <<contact, cards, said>>

ChangedByOthers(c) ==
  /\ \/ StartsCampaign(c) \/ PausesCampaign(c) \/ DeletesCampaign(c)
     \/ \E mailbox \in BOOLEAN : CreatesCampaign(c, mailbox) \/ UpdatesCampaign(c, mailbox)
     \/ \E p \in 1..MaxPosition :
          StoresStep(c, p) \/ RemovesStep(c, campaigns[c].steps[p])
  /\ UNCHANGED <<contact, cards, asking, said>>

----------------------------------------------------------------------------
(* The picker: enroll-dialog.tsx *)

Picking(pcs) == Mounted(cards).kind = "enroll" /\ cards.picker.pc \in pcs

\* So many of them, or all if there are fewer.
IsSlice(some, all, size) ==
  /\ some \subseteq all
  /\ Cardinality(some) = size \/ (some = all /\ Cardinality(all) < size)

\* Leads that can be reached and are not known to be enrolled; or an error.
PickerLoads ==
  /\ Picking({"loading"})
  /\ \E known \in SUBSET {l \in People : enrolled[cards.picker.of][l] # "none"}, fails \in BOOLEAN :
       /\ IsSlice(known, {l \in People : enrolled[cards.picker.of][l] # "none"}, Take)
       /\ cards' = [cards EXCEPT !.picker.pc = "ready", !.picker.offered =
                      IF fails THEN {} ELSE {l \in People : contact[l] = "with"} \ known]
  /\ UNCHANGED <<storedVars, asking, said>>

\* Boxes are ticked one by one, or all that a search leaves visible.
SelectLeads(leads) ==
  /\ Picking({"ready", "saving"})
  /\ leads \subseteq cards.picker.offered
  /\ cards' = [cards EXCEPT !.picker.selected = leads]
  /\ UNCHANGED <<storedVars, asking, said>>

SubmitPicker ==
  /\ Picking({"ready"}) /\ cards.picker.selected # {}
  /\ cards' = [cards EXCEPT !.picker.pc = "saving", !.picker.ids = cards.picker.selected,
                            !.picker.left = cards.picker.selected, !.picker.total = NoCount]
  /\ UNCHANGED <<storedVars, asking, said>>

Looping(r) == asking[r].ask = "enroll" /\ asking[r].then = "loop"

\* One batch after the other.
SendBatch(r, leads) ==
  /\ cards.picker.pc = "saving" /\ cards.picker.left # {}
  /\ Idle(r) /\ \A q \in Slots : ~Looping(q)
  /\ IsSlice(leads, cards.picker.left, Batch)
  /\ asking' = [asking EXCEPT ![r] = [Requested("enroll", cards.picker.of, {})
                                        EXCEPT !.leads = leads, !.then = "loop"]]
  /\ UNCHANGED <<storedVars, cards, said>>

\* enroll: its reads, of the campaign, the leads and their enrollments.
ReadsLeads(r) ==
  LET leads == asking[r].leads
      reached == {l \in leads : contact[l] = "with"}
      fresh == {l \in reached : enrolled[asking[r].of][l] = "none"}
  IN  /\ asking[r].ask = "enroll" /\ asking[r].pc = "sent"
      /\ Exists(asking[r].of) /\ campaigns[asking[r].of].steps # NoSteps
      /\ \A l \in leads : contact[l] # "gone"
      /\ asking' = [asking EXCEPT ![r].pc = "read", ![r].fresh = fresh,
                      ![r].count = [enrolled |-> Cardinality(fresh),
                                    already |-> Cardinality(reached) - Cardinality(fresh),
                                    without |-> Cardinality(leads) - Cardinality(reached)]]
      /\ UNCHANGED <<storedVars, cards, said>>

\* enroll: its transaction, which fails as a whole if a lead was enrolled or
\* deleted meanwhile; ACTIVE if the campaign that was read was.
EnrollsLeads(r, status) ==
  LET c == asking[r].of
  IN  /\ asking[r].ask = "enroll" /\ asking[r].pc = "read" /\ Exists(c)
      /\ \A l \in asking[r].fresh : enrolled[c][l] = "none" /\ contact[l] # "gone"
      /\ enrolled' = [enrolled EXCEPT ![c] = [l \in People |->
                        IF l \in asking[r].fresh THEN status ELSE @[l]]]
      /\ asking' = [asking EXCEPT ![r].pc = "answered"]
      /\ UNCHANGED <<campaigns, stepsMade, contact, cards, said>>

Plus(m, n) ==
  [enrolled |-> m.enrolled + n.enrolled, already |-> m.already + n.already,
   without |-> m.without + n.without]

BatchAnswered(r) ==
  /\ Looping(r) /\ asking[r].pc = "answered"
  /\ cards' = [cards EXCEPT !.picker.left = @ \ asking[r].leads,
                            !.picker.total = Plus(@, asking[r].count)]
  /\ asking' = [asking EXCEPT ![r] = NoAsk]
  /\ UNCHANGED <<storedVars, said>>

\* The loop ends with the first batch that fails. What was lost on the way back,
\* or is not answered in time, goes on without the page.
BatchFails(r) ==
  /\ Looping(r)
  /\ cards' = [cards EXCEPT !.picker = IF Picking({"saving"}) THEN [@ EXCEPT !.pc = "ready"]
                                       ELSE NoPicker]
  /\ \/ asking' = [asking EXCEPT ![r] = NoAsk]
     \/ asking' = [asking EXCEPT ![r].then = "none"]
  /\ UNCHANGED <<storedVars, said>>

\* The answer to a batch that nobody waits for.
BatchForgotten(r) ==
  /\ asking[r].ask = "enroll" /\ asking[r].then = "none"
  /\ asking' = [asking EXCEPT ![r] = NoAsk]
  /\ UNCHANGED <<storedVars, cards, said>>

\* The message of the picker, which closes the dialog that is open.
PickerEnds(r) ==
  /\ cards.picker.pc = "saving" /\ cards.picker.left = {} /\ Idle(r)
  /\ said' = [of |-> cards.picker.of, ids |-> cards.picker.ids, total |-> cards.picker.total]
  /\ Turn([cards EXCEPT !.dialog = NoDialog, !.picker = NoPicker],
          [asking EXCEPT ![r] = ReadAgain("none", NoCampaign, {})])
  /\ UNCHANGED storedVars

\* What becomes of an enrollment: it is made, stopped and retried by users, and
\* completed, closed by a reply, or failed by the scheduler.
Moves ==
  ({"none", "FAILED"} \X Open) \cup ((Open \cup {"FAILED"}) \X {"closed"})
    \cup {<<"ACTIVE", "FAILED">>}

LeadsChange(l) ==
  /\ contact[l] # "gone"
  /\ \E state \in {"with", "without", "gone"} :
       /\ contact' = [contact EXCEPT ![l] = state]
       /\ enrolled' = IF state # "gone" THEN enrolled
                      ELSE [c \in Campaigns |-> [enrolled[c] EXCEPT ![l] = "none"]]
  /\ UNCHANGED <<campaigns, stepsMade, cards, asking, said>>

EnrolledByOthers(c, l) ==
  /\ Exists(c) /\ contact[l] # "gone"
  /\ \E status \in Open \cup {"FAILED", "closed"} :
       /\ <<enrolled[c][l], status>> \in Moves
       /\ enrolled' = [enrolled EXCEPT ![c][l] = status]
  /\ UNCHANGED <<campaigns, stepsMade, contact, cards, asking, said>>

----------------------------------------------------------------------------
(* The leads of a campaign: enrollments-dialog.tsx *)

InLeads == Mounted(cards).kind = "leads"

RowsAsked(filter) ==
  [Requested("rows", cards.dialog.of, {"dialog"}) EXCEPT !.filter = filter]

\* By a timer, quietly, and by a button.
ReadRows(r, loud) ==
  /\ Idle(r) /\ InLeads
  /\ cards' = [cards EXCEPT !.progress.loading = @ \/ loud]
  /\ asking' = [asking EXCEPT ![r] = RowsAsked(cards.progress.filter)]
  /\ UNCHANGED <<storedVars, said>>

ReadingRows ==
  \E r \in Slots : asking[r].ask \in {"rows", "stop", "retry"} /\ asking[r].here # {}

\* Another filter reads again at once, while reads of the former go on.
ChangeFilter(r, filter) ==
  /\ Idle(r) /\ InLeads /\ filter # cards.progress.filter
  /\ cards' = [cards EXCEPT !.progress.filter = filter, !.progress.loading = TRUE,
                            !.progress.mixed = @ \/ ReadingRows]
  /\ asking' = [asking EXCEPT ![r] = RowsAsked(filter)]
  /\ UNCHANGED <<storedVars, said>>

ServeRows(r) ==
  /\ asking[r].ask = "rows" /\ asking[r].pc = "sent" /\ Exists(asking[r].of)
  /\ asking' = [asking EXCEPT ![r].pc = "answered", ![r].rows = [l \in People |->
       LET status == enrolled[asking[r].of][l]
       IN  IF asking[r].filter \in {"all", status} THEN status ELSE "none"]]
  /\ UNCHANGED <<storedVars, cards, said>>

\* A read that fails leaves the rows of another filter; any read ends the wait.
RowsRead(r) ==
  LET shown == "dialog" \in asking[r].here
  IN  /\ asking[r].ask = "rows"
      /\ \/ /\ asking[r].pc = "answered"
            /\ cards' = IF ~shown THEN cards
                        ELSE [cards EXCEPT !.progress.rows = asking[r].rows,
                                           !.progress.loading = FALSE]
         \/ cards' = IF ~shown THEN cards
                     ELSE [cards EXCEPT !.progress.mixed = TRUE, !.progress.loading = FALSE]
      /\ asking' = [asking EXCEPT ![r] = NoAsk]
      /\ UNCHANGED <<storedVars, said>>

\* The button of a row. It may be pressed again: the page keeps one row that is
\* busy, and a press on another row, or its answer, makes it free.
PressRow(r, ask, l) ==
  /\ Idle(r) /\ InLeads /\ ~cards.progress.loading
  /\ cards.progress.rows[l] \in IF ask = "stop" THEN Open ELSE {"FAILED"}
  /\ asking' = [asking EXCEPT ![r] = [Requested(ask, cards.dialog.of, {"dialog"})
                                        EXCEPT !.leads = {l}, !.filter = cards.progress.filter]]
  /\ UNCHANGED <<storedVars, cards, said>>

\* stopEnrollment and retryEnrollment.
ServeRow(r, l) ==
  LET c == asking[r].of
  IN  /\ asking[r].ask \in {"stop", "retry"} /\ asking[r].pc = "sent" /\ asking[r].leads = {l}
      /\ IF asking[r].ask = "stop"
         THEN /\ enrolled[c][l] # "none"
              /\ enrolled' = [enrolled EXCEPT ![c][l] = "closed"]
         ELSE /\ enrolled[c][l] = "FAILED"
              /\ enrolled' = [enrolled EXCEPT ![c][l] =
                                IF campaigns[c].status = "ACTIVE" THEN "ACTIVE" ELSE "PAUSED"]
      /\ asking' = [asking EXCEPT ![r].pc = "answered"]
      /\ UNCHANGED <<campaigns, stepsMade, contact, cards, said>>

\* The rows are read again, and the list of the page; the filter is that of the
\* render in which the button was pressed.
PressAnswered(r, q) ==
  /\ asking[r].ask \in {"stop", "retry"}
  /\ \/ /\ asking[r].pc = "answered" /\ Idle(q)
        /\ asking' = [asking EXCEPT
             ![r] = [asking[r] EXCEPT !.ask = "rows", !.pc = "sent", !.leads = {}],
             ![q] = ReadAgain("none", NoCampaign, {})]
     \/ q = r /\ asking' = [asking EXCEPT ![r] = NoAsk]
  /\ UNCHANGED <<storedVars, cards, said>>

----------------------------------------------------------------------------

CardsNext ==
  \/ CloseDialog
  \/ \E kind \in {"create", "edit", "steps", "enroll", "leads"}, c \in Campaigns \cup {NoCampaign} :
       OpenDialog(kind, c)
  \/ \E r \in Slots :
       \/ Poll(r) \/ ServeList(r) \/ ListRead(r) \/ CardAnswered(r) \/ FormAnswered(r) \/ Serve(r)
       \/ \E ask \in {"start", "pause", "delete"}, c \in Campaigns : PressCard(r, ask, c)
       \/ \E mailbox \in BOOLEAN : SubmitForm(r, mailbox)
  \/ \E c \in Campaigns : ChangedByOthers(c)

StepsNext ==
  \/ NewStep \/ CancelEdit
  \/ \E p \in 1..MaxPosition : EditStep(p)
  \/ \E r \in Slots :
       \/ SubmitStep(r) \/ StepAnswered(r)
       \/ \E p \in 1..MaxPosition : RemoveStep(r, p)

PickerNext ==
  \/ PickerLoads \/ SubmitPicker
  \/ \E leads \in SUBSET People : SelectLeads(leads)
  \/ \E r \in Slots :
       \/ ReadsLeads(r) \/ BatchAnswered(r) \/ BatchFails(r) \/ BatchForgotten(r) \/ PickerEnds(r)
       \/ \E leads \in SUBSET People : SendBatch(r, leads)
       \/ \E status \in Open : EnrollsLeads(r, status)
  \/ \E l \in People : LeadsChange(l) \/ \E c \in Campaigns : EnrolledByOthers(c, l)

ProgressNext ==
  \E r \in Slots :
    \/ ServeRows(r) \/ RowsRead(r)
    \/ \E loud \in BOOLEAN : ReadRows(r, loud)
    \/ \E filter \in Filters : ChangeFilter(r, filter)
    \/ \E l \in People : ServeRow(r, l) \/ \E ask \in {"stop", "retry"} : PressRow(r, ask, l)
    \/ \E q \in Slots : PressAnswered(r, q)

CampaignPageNext == CardsNext \/ StepsNext \/ PickerNext \/ ProgressNext

CampaignPageSpec == CampaignPageInit /\ [][CampaignPageNext]_cardVars

----------------------------------------------------------------------------
(* Properties *)

\* A step that is being saved meets no other at its position but one that was
\* stored after the list that the page shows, or the step that is edited.
StepsAreKept ==
  \A r \in Slots, p \in 1..MaxPosition :
    LET step == asking[r].step
        old == campaigns[asking[r].of].steps[p]
    IN  asking[r].ask = "save" /\ asking[r].pc = "sent" /\ step.at = p =>
          old \in {0, step.row} \/ old > step.upto

\* The numbers that the picker reports are those of all the leads that were
\* selected, and no more of them are not enrolled than it says: those without an
\* address, and those deleted since.
EnrolledAreCounted ==
  LET missing == {l \in said.ids : contact[l] # "gone" /\ enrolled[said.of][l] = "none"}
  IN  said.of # NoCampaign =>
        /\ said.total.enrolled + said.total.already + said.total.without = Cardinality(said.ids)
        /\ Exists(said.of) => Cardinality(missing) <= said.total.without

\* The leads that are shown have the status that is chosen, unless another was
\* chosen while an answer was on its way, or a read failed.
FilterHolds ==
  InLeads /\ ~cards.progress.loading /\ ~cards.progress.mixed =>
    \A l \in People :
      cards.progress.rows[l] = "none" \/ cards.progress.filter \in {"all", cards.progress.rows[l]}

CampaignPageHonest == StepsAreKept /\ EnrolledAreCounted /\ FilterHolds
=============================================================================
