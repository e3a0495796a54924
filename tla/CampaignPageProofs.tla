-------------------------- MODULE CampaignPageProofs --------------------------
(*****************************************************************************)
(* The page of the campaigns tells the truth about steps, leads and filters, *)
(* for any number of campaigns, leads, requests and positions. Its invariant *)
(* is a conjunction of what is typed and of three families: the steps, the   *)
(* picker and the list of leads. An action is proved to keep those families  *)
(* that it does not touch by what it leaves of the requests, the page and    *)
(* the rows (StepAsks, BatchAsks, RowAsks; PageKept; StoredKept).            *)
(*****************************************************************************)
EXTENDS CampaignPage, FiniteSetTheorems, WellFoundedInduction, TLAPS

----------------------------------------------------------------------------
(* The invariant *)

CampaignStates == {"none", "gone"} \cup Kept
StepRows == [1..MaxPosition -> Nat]
CardStep == [row : Nat, at : Nat, upto : Nat]
LeadStatus == {"none", "ACTIVE", "PAUSED", "FAILED", "closed"}
LeadRows == [People -> LeadStatus]
CampaignRow == [status : CampaignStates, mailbox : BOOLEAN, steps : StepRows]
ListedRow ==
  [status : CampaignStates, mailbox : BOOLEAN, steps : StepRows, enrolled : BOOLEAN,
   waiting : BOOLEAN]
CardList == [rows : [Campaigns -> ListedRow], upto : Nat]
Counts == [enrolled : Nat, already : Nat, without : Nat]
SomeCampaign == Campaigns \cup {NoCampaign}
DialogRow == [kind : {"none", "create", "edit", "steps", "enroll", "leads"}, of : SomeCampaign]
PickerRow ==
  [pc : {"closed", "loading", "ready", "saving"}, of : SomeCampaign, offered : SUBSET People,
   selected : SUBSET People, ids : SUBSET People, left : SUBSET People, total : Counts]
ProgressRow == [filter : Filters, rows : LeadRows, loading : BOOLEAN, mixed : BOOLEAN]
PageCards ==
  [list : CardList, dialog : DialogRow, busy : SomeCampaign, editor : {"none", "new", "edit"},
   step : CardStep, picker : PickerRow, progress : ProgressRow]
PageAsks ==
  {"none", "load", "start", "pause", "delete", "create", "edit", "save", "drop", "enroll",
   "rows", "stop", "retry"}
AskRow ==
  [pc : {"idle", "sent", "read", "answered"}, ask : PageAsks, of : SomeCampaign,
   mailbox : BOOLEAN, step : CardStep, list : CardList,
   then : {"none", "card", "create", "save", "drop", "loop"}, here : SUBSET {"dialog", "editor"},
   leads : SUBSET People, fresh : SUBSET People, count : Counts, filter : Filters,
   rows : LeadRows]

StoredTyped ==
  /\ campaigns \in [Campaigns -> CampaignRow] /\ stepsMade \in Nat
  /\ enrolled \in [Campaigns -> LeadRows] /\ contact \in [People -> {"with", "without", "gone"}]

CardsTyped ==
  /\ StoredTyped /\ cards \in PageCards /\ asking \in [Slots -> AskRow]
  /\ said \in [of : SomeCampaign, ids : SUBSET People, total : Counts]

\* The steps: no row is newer than the newest; what a list says of a position is
\* what is there, unless it was removed or is newer than the list; and a step that
\* is edited or saved meets only itself, nothing, or something newer than its list.
Made(c) == campaigns[c].status # "none"

ListTold(v) ==
  /\ v.upto <= stepsMade
  /\ \A c \in Campaigns : v.rows[c].status \in Kept => Made(c)
  /\ \A c \in Campaigns, p \in 1..MaxPosition :
       /\ v.rows[c].steps[p] <= v.upto
       /\ campaigns[c].steps[p] \in {0, v.rows[c].steps[p]} \/ campaigns[c].steps[p] > v.upto

StepFits(c, step) ==
  /\ step.upto <= stepsMade
  /\ step.at \in 1..MaxPosition =>
       campaigns[c].steps[step.at] \in {0, step.row} \/ campaigns[c].steps[step.at] > step.upto

StepsInv ==
  /\ \A c \in Campaigns, p \in 1..MaxPosition : campaigns[c].steps[p] <= stepsMade
  /\ ListTold(cards.list)
  /\ \A r \in Slots : /\ ListTold(asking[r].list)
                      /\ asking[r].ask = "save" =>
                           asking[r].of \in Campaigns /\ StepFits(asking[r].of, asking[r].step)
  /\ Mounted(cards).kind = "steps" => StepFits(Mounted(cards).of, cards.step)

\* The picker: what was answered is counted, and no more leads of it are missing
\* than the counts say, while the campaign is there; one batch is under way.
Missing(c, S) == {l \in S : contact[l] # "gone" /\ enrolled[c][l] = "none"}
Counted(n) == n.enrolled + n.already + n.without
MissingAtMost(c, S, n) == Exists(c) => Cardinality(Missing(c, S)) <= n.without

BatchFits(a) ==
  /\ a.of \in Campaigns /\ Made(a.of)
  /\ a.pc \in {"read", "answered"} => Counted(a.count) = Cardinality(a.leads)
  /\ a.pc = "read" => MissingAtMost(a.of, a.leads \ a.fresh, a.count)
  /\ a.pc = "answered" => MissingAtMost(a.of, a.leads, a.count)

PickerFits(v) ==
  /\ v.pc # "closed" => v.of \in Campaigns /\ Made(v.of)
  /\ v.pc = "saving" =>
       /\ v.left \subseteq v.ids
       /\ Counted(v.total) + Cardinality(v.left) = Cardinality(v.ids)
       /\ MissingAtMost(v.of, v.ids \ v.left, v.total)

OneLoop ==
  \A r \in Slots : Looping(r) =>
    /\ cards.picker.pc = "saving" /\ asking[r].of = cards.picker.of
    /\ asking[r].leads # {} /\ asking[r].leads \subseteq cards.picker.left
    /\ \A q \in Slots : Looping(q) => q = r

SaidTrue ==
  said.of # NoCampaign =>
    /\ Made(said.of) /\ Counted(said.total) = Cardinality(said.ids)
    /\ MissingAtMost(said.of, said.ids, said.total)

PickerInv ==
  /\ \A r \in Slots : asking[r].ask = "enroll" => BatchFits(asking[r])
  /\ PickerFits(cards.picker) /\ OneLoop /\ SaidTrue

\* The leads of a campaign: unless the rows are mixed, what is shown and what is
\* on its way is of the filter that is chosen.
RowsFit(filter, rows) == \A l \in People : rows[l] = "none" \/ filter \in {"all", rows[l]}

RowsHere(r) == asking[r].ask \in {"rows", "stop", "retry"} /\ asking[r].here # {}

FilterInv ==
  /\ \A r \in Slots : asking[r].ask \in {"rows", "stop", "retry"} => asking[r].of \in Campaigns
  /\ \A r \in Slots : asking[r].ask = "rows" /\ asking[r].pc = "answered" =>
       RowsFit(asking[r].filter, asking[r].rows)
  /\ InLeads /\ ~cards.progress.mixed =>
       /\ cards.progress.loading \/ RowsFit(cards.progress.filter, cards.progress.rows)
       /\ \A r \in Slots : RowsHere(r) => asking[r].filter = cards.progress.filter

CampaignPageInv == CardsTyped /\ StepsInv /\ PickerInv /\ FilterInv

----------------------------------------------------------------------------
(* What a family does not hear of *)

\* What a family of the invariant does not hear of, in the requests, in the page and
\* in what is stored.
StepAsks(asks) ==
  \A q \in Slots :
    /\ asks[q].list \in {NoList, ListNow, asking[q].list}
    /\ asks[q].ask = "save" =>
         asking[q].ask = "save" /\ asks[q].of = asking[q].of /\ asks[q].step = asking[q].step

BatchAsks(asks) ==
  \A q \in Slots : asks[q].ask = "enroll" =>
    /\ asking[q].ask = "enroll" /\ asks[q].then \in {asking[q].then, "none"}
    /\ asks[q].pc = asking[q].pc /\ asks[q].of = asking[q].of
    /\ asks[q].leads = asking[q].leads /\ asks[q].fresh = asking[q].fresh
    /\ asks[q].count = asking[q].count

RowAsks(asks) ==
  \A q \in Slots :
    /\ asks[q].ask = "rows" /\ asks[q].pc = "answered" =>
         /\ asking[q].ask = "rows" /\ asking[q].pc = "answered"
         /\ asks[q].filter = asking[q].filter /\ asks[q].rows = asking[q].rows
    /\ asks[q].ask \in {"rows", "stop", "retry"} /\ asks[q].here # {} =>
         RowsHere(q) /\ asks[q].filter = asking[q].filter
    /\ asks[q].ask \in {"rows", "stop", "retry"} =>
         asking[q].ask \in {"rows", "stop", "retry"} /\ asks[q].of = asking[q].of

AsksKept(asks) == StepAsks(asks) /\ BatchAsks(asks) /\ RowAsks(asks)

ListKept(v) == v = cards.list \/ \E q \in Slots : v = asking[q].list

StepPage(page) ==
  /\ ListKept(page.list)
  /\ \/ Mounted(page) = Mounted(cards) /\ page.step = cards.step
     \/ page.step = NoStep

PickerKept(v) ==
  \/ /\ v.pc = cards.picker.pc /\ v.of = cards.picker.of /\ v.ids = cards.picker.ids
     /\ v.left = cards.picker.left /\ v.total = cards.picker.total
  \/ /\ v.pc # "saving" /\ cards.picker.pc # "saving"
     /\ v.pc # "closed" => v.of \in Campaigns /\ Made(v.of)

RowPage(page, asks) ==
  \/ Mounted(page) = Mounted(cards) /\ page.progress = cards.progress
  \/ page.progress = NoProgress /\ \A q \in Slots : asks[q].here = {}

PageKept(page, asks) == StepPage(page) /\ PickerKept(page.picker) /\ RowPage(page, asks)

StoredKept ==
  /\ stepsMade <= stepsMade'
  /\ \A c \in Campaigns :
       /\ Made(c) => Made(c)'
       /\ \A p \in 1..MaxPosition :
            \/ campaigns'[c].steps[p] \in {0, campaigns[c].steps[p]}
            \/ campaigns'[c].steps[p] > stepsMade /\ campaigns'[c].steps[p] <= stepsMade'
       /\ Made(c) /\ Exists(c)' =>
            /\ Exists(c)
            /\ \A l \in People : contact'[l] # "gone" /\ enrolled'[c][l] = "none" =>
                                   contact[l] # "gone" /\ enrolled[c][l] = "none"

USE CampaignPageAssumption

\* A set of numbers up to n has a greatest.
LEMMA GreatestOfSome ==
  ASSUME NEW n \in Nat, NEW S \in SUBSET (1..n), S # {}
  PROVE  \E x \in S : \A y \in S : x >= y
<1> DEFINE R == OpToRel(<, Nat)
<1> DEFINE T == {n - x : x \in S}
<1>1. IsWellFoundedOn(R, Nat)
  BY NatLessThanWellFounded
<1>2. T \subseteq Nat
  OBVIOUS
<1>3. T # {}
  OBVIOUS
<1>4. PICK z \in T : \A y \in T : ~ (<<y, z>> \in R)
  BY <1>1, <1>2, <1>3, WFMin, Zenon
<1>5. \A y \in T : y < z => <<y, z>> \in R
  BY <1>2 DEF OpToRel
<1>6. \A y \in T : ~ (y < z)
  BY <1>4, <1>5, Zenon
<1> HIDE DEF R
<1>7. PICK x \in S : z = n - x
  OBVIOUS
<1>8. ASSUME NEW y \in S PROVE x >= y
  <2>1. n - y \in T
    OBVIOUS
  <2>2. ~ (n - y < n - x)
    BY <1>6, <1>7, <2>1
  <2>3. x \in Nat /\ y \in Nat
    OBVIOUS
  <2> HIDE DEF T
  <2> QED
    BY <2>2, <2>3
<1> QED
  BY <1>8

LEMMA NothingTyped ==
  /\ NoSteps \in StepRows /\ NoStep \in CardStep /\ NoList \in CardList /\ NoDialog \in DialogRow
  /\ NoCount \in Counts /\ NoPicker \in PickerRow /\ NoStatus \in LeadRows
  /\ NoProgress \in ProgressRow
<1>1. NoSteps \in StepRows /\ NoStep \in CardStep /\ NoCount \in Counts /\ NoStatus \in LeadRows
  BY DEF NoSteps, StepRows, NoStep, CardStep, NoCount, Counts, NoStatus, LeadRows, LeadStatus
<1>2. NoList \in CardList
  BY DEF NoList, CardList, NoSteps, ListedRow, CampaignStates, StepRows
<1>3. NoDialog \in DialogRow
  BY DEF NoDialog, DialogRow, SomeCampaign
<1>4. NoPicker \in PickerRow
  BY <1>1 DEF NoPicker, PickerRow, SomeCampaign
<1>5. NoProgress \in ProgressRow
  BY <1>1 DEF NoProgress, ProgressRow, Filters
<1> QED
  BY <1>1, <1>2, <1>3, <1>4, <1>5

LEMMA NoAskTyped == NoAsk \in AskRow /\ NoAsk.ask = "none" /\ NoAsk.list = NoList /\ NoAsk.then = "none"
<1>1. NoAsk \in AskRow
  BY NothingTyped DEF NoAsk, AskRow, PageAsks, SomeCampaign, Filters
<1> QED
  BY <1>1 DEF NoAsk

LEMMA RequestTyped ==
  ASSUME NEW ask \in PageAsks, NEW c \in SomeCampaign, NEW here \in SUBSET {"dialog", "editor"},
         NEW a, a = Requested(ask, c, here)
  PROVE  /\ a \in AskRow /\ a.pc = "sent" /\ a.ask = ask /\ a.of = c /\ a.here = here
         /\ a.list = NoList /\ a.then = "none"
<1>1. a = [NoAsk EXCEPT !.pc = "sent", !.ask = ask, !.of = c, !.here = here]
  BY DEF Requested
<1> DEFINE b == [NoAsk EXCEPT !.pc = "sent", !.ask = ask]
<1>2. a \in AskRow
  <2>1. b \in AskRow
    BY NoAskTyped DEF AskRow
  <2> HIDE DEF b
  <2>2. [b EXCEPT !.of = c, !.here = here] \in AskRow
    BY <2>1 DEF AskRow
  <2>3. a = [b EXCEPT !.of = c, !.here = here]
    BY <1>1 DEF b
  <2> QED
    BY <2>2, <2>3
<1>3. a.pc = "sent" /\ a.ask = ask /\ a.of = c /\ a.here = here
  BY <1>1, NoAskTyped DEF AskRow
<1>4. a.list = NoAsk.list /\ a.then = NoAsk.then
  BY <1>1, NoAskTyped DEF AskRow
<1> QED
  BY <1>2, <1>3, <1>4, NoAskTyped

LEMMA ReadTyped ==
  ASSUME NEW then \in {"none", "card", "create", "save", "drop"}, NEW c \in SomeCampaign,
         NEW here \in SUBSET {"dialog", "editor"}, NEW a, a = ReadAgain(then, c, here)
  PROVE  a \in AskRow /\ a.ask = "load" /\ a.list = NoList
<1>1. "load" \in PageAsks
  BY DEF PageAsks
<1> DEFINE b == Requested("load", c, here)
<1>2. b \in AskRow /\ b.ask = "load" /\ b.list = NoList
  <2>1. "load" \in PageAsks /\ c \in SomeCampaign
    BY <1>1
  <2>2. \A h \in SUBSET {"dialog", "editor"} :
          LET x == Requested("load", c, h) IN x \in AskRow /\ x.ask = "load" /\ x.list = NoList
    BY <2>1, RequestTyped
  <2> QED
    BY <2>2
<1> HIDE DEF b
<1>3. a = [b EXCEPT !.then = then]
  BY DEF ReadAgain, b
<1> QED
  BY <1>2, <1>3 DEF AskRow

\* The fields of a request, of the page and of a list.
LEMMA AskFields ==
  ASSUME CardsTyped, NEW r \in Slots
  PROVE  /\ asking[r] \in AskRow
         /\ asking[r].of \in SomeCampaign /\ asking[r].step \in CardStep
         /\ asking[r].list \in CardList /\ asking[r].here \in SUBSET {"dialog", "editor"}
         /\ asking[r].leads \in SUBSET People /\ asking[r].fresh \in SUBSET People
         /\ asking[r].count \in Counts /\ asking[r].filter \in Filters
         /\ asking[r].rows \in LeadRows /\ asking[r].ask \in PageAsks
<1>1. asking[r] \in AskRow
  BY DEF CardsTyped
<1> QED
  BY <1>1 DEF AskRow

LEMMA PageFields ==
  ASSUME CardsTyped
  PROVE  /\ cards \in PageCards
         /\ cards.list \in CardList /\ cards.dialog \in DialogRow /\ cards.busy \in SomeCampaign
         /\ cards.editor \in {"none", "new", "edit"} /\ cards.step \in CardStep
         /\ cards.picker \in PickerRow /\ cards.progress \in ProgressRow
         /\ cards.dialog.of \in SomeCampaign
<1>1. cards \in PageCards
  BY DEF CardsTyped
<1>2. cards.dialog \in DialogRow
  BY <1>1 DEF PageCards
<1> QED
  BY <1>1, <1>2 DEF PageCards, DialogRow

LEMMA PickerFields ==
  ASSUME NEW v \in PickerRow
  PROVE  /\ v.of \in SomeCampaign /\ v.offered \in SUBSET People /\ v.selected \in SUBSET People
         /\ v.ids \in SUBSET People /\ v.left \in SUBSET People /\ v.total \in Counts
BY DEF PickerRow

LEMMA CountFields ==
  ASSUME NEW n \in Counts
  PROVE  n.enrolled \in Nat /\ n.already \in Nat /\ n.without \in Nat /\ Counted(n) \in Nat
BY DEF Counts, Counted

LEMMA ListFields ==
  ASSUME NEW v \in CardList, NEW c \in Campaigns
  PROVE  /\ v.upto \in Nat /\ v.rows[c] \in ListedRow /\ v.rows[c].steps \in StepRows
         /\ \A p \in 1..MaxPosition : v.rows[c].steps[p] \in Nat
<1>1. v.upto \in Nat /\ v.rows \in [Campaigns -> ListedRow]
  BY DEF CardList
<1>2. v.rows[c] \in ListedRow
  BY <1>1
<1>3. v.rows[c].steps \in StepRows
  BY <1>2 DEF ListedRow
<1> QED
  BY <1>1, <1>2, <1>3 DEF StepRows

LEMMA StoredFields ==
  ASSUME StoredTyped, NEW c \in Campaigns
  PROVE  /\ campaigns[c] \in CampaignRow /\ campaigns[c].status \in CampaignStates
         /\ campaigns[c].mailbox \in BOOLEAN /\ campaigns[c].steps \in StepRows
         /\ \A p \in 1..MaxPosition : campaigns[c].steps[p] \in Nat
         /\ enrolled[c] \in LeadRows /\ stepsMade \in Nat
<1>1. campaigns[c] \in CampaignRow /\ enrolled[c] \in LeadRows /\ stepsMade \in Nat
  BY DEF StoredTyped
<1>2. campaigns[c].steps \in StepRows
  BY <1>1 DEF CampaignRow
<1> QED
  BY <1>1, <1>2 DEF CampaignRow, StepRows

\* A new request that no family of the invariant is about.
LEMMA OneAsk ==
  ASSUME CardsTyped, NEW r \in Slots, NEW a \in AskRow, asking' = [asking EXCEPT ![r] = a],
         a.list \in {NoList, ListNow, asking[r].list},
         a.ask \notin {"save", "enroll", "rows", "stop", "retry"}
  PROVE  asking' \in [Slots -> AskRow] /\ AsksKept(asking')
<1>1. asking \in [Slots -> AskRow]
  BY DEF CardsTyped
<1>2. asking' \in [Slots -> AskRow]
  BY <1>1
<1>3. \A q \in Slots : asking'[q] = IF q = r THEN a ELSE asking[q]
  BY <1>1
<1>4. StepAsks(asking')
  BY <1>3 DEF StepAsks
<1>5. BatchAsks(asking')
  BY <1>3 DEF BatchAsks
<1>6. RowAsks(asking')
  BY <1>3 DEF RowAsks, RowsHere
<1> QED
  BY <1>2, <1>4, <1>5, <1>6 DEF AsksKept

LEMMA SameAsks ==
  ASSUME CardsTyped
  PROVE  AsksKept(asking)
BY DEF AsksKept, StepAsks, BatchAsks, RowAsks, RowsHere

\* A request whose place in the dialogs, or whose state as a request for the list or
\* for a card, changes.
LEMMA SamePage == CardsTyped => PageKept(cards, asking')
BY DEF PageKept, StepPage, ListKept, PickerKept, RowPage

LEMMA SameStored ==
  ASSUME CardsTyped, UNCHANGED storedVars
  PROVE  StoredTyped' /\ StoredKept
<1>1. StoredTyped'
  BY DEF CardsTyped, StoredTyped, storedVars
<1>2. stepsMade <= stepsMade'
  BY DEF CardsTyped, StoredTyped, storedVars
<1>3. ASSUME NEW c \in Campaigns
      PROVE  /\ Made(c) => Made(c)'
             /\ Exists(c)' => Exists(c)
  BY DEF storedVars, Made, Exists
<1> QED
  BY <1>1, <1>2, <1>3 DEF StoredKept, storedVars

\* What a list said stays true, and what is made of ListNow is true.
LEMMA ListStays ==
  ASSUME CardsTyped, StepsInv, StoredTyped', StoredKept, NEW v \in CardList, ListTold(v)
  PROVE  ListTold(v)'
<1>1. v.upto <= stepsMade'
  <2>1. v.upto <= stepsMade /\ stepsMade <= stepsMade' /\ v.upto \in Nat
    BY DEF ListTold, StoredKept, CardList
  <2> QED
    BY <2>1 DEF CardsTyped, StoredTyped
<1>2. \A c \in Campaigns : v.rows[c].status \in Kept => Made(c)'
  BY DEF ListTold, StoredKept
<1>3. ASSUME NEW c \in Campaigns, NEW p \in 1..MaxPosition
      PROVE  /\ v.rows[c].steps[p] <= v.upto
             /\ campaigns'[c].steps[p] \in {0, v.rows[c].steps[p]} \/ campaigns'[c].steps[p] > v.upto
  <2>1. v.upto \in Nat /\ v.rows[c].steps[p] \in Nat
    BY ListFields
  <2>2. campaigns[c].steps[p] \in Nat /\ stepsMade \in Nat
    BY StoredFields DEF CardsTyped
  <2>3. campaigns'[c].steps[p] \in Nat
    BY DEF StoredTyped, CampaignRow, StepRows
  <2>4. /\ v.rows[c].steps[p] <= v.upto /\ v.upto <= stepsMade
        /\ campaigns[c].steps[p] \in {0, v.rows[c].steps[p]} \/ campaigns[c].steps[p] > v.upto
    BY DEF ListTold
  <2>5. \/ campaigns'[c].steps[p] \in {0, campaigns[c].steps[p]}
        \/ campaigns'[c].steps[p] > stepsMade
    BY DEF StoredKept
  <2> QED
    BY <2>1, <2>2, <2>3, <2>4, <2>5
<1> QED
  BY <1>1, <1>2, <1>3 DEF ListTold, Made

LEMMA NewListTold ==
  ASSUME CardsTyped, StepsInv
  PROVE  ListNow \in CardList /\ ListTold(ListNow) /\ NoList \in CardList /\ ListTold(NoList)
<1>1. ListNow \in CardList
  <2>1. ASSUME NEW c \in Campaigns
        PROVE  [status |-> campaigns[c].status, mailbox |-> campaigns[c].mailbox,
                steps |-> campaigns[c].steps,
                enrolled |-> \E l \in People : enrolled[c][l] # "none",
                waiting |-> \E l \in People : enrolled[c][l] \in Open] \in ListedRow
    BY StoredFields DEF ListedRow, CardsTyped
  <2> QED
    BY <2>1 DEF ListNow, CardList, CardsTyped, StoredTyped
<1>2. ListTold(ListNow)
  <2>1. ListNow.upto = stepsMade /\ stepsMade \in Nat
    BY DEF ListNow, CardsTyped, StoredTyped
  <2>2. ASSUME NEW c \in Campaigns
        PROVE  ListNow.rows[c].status = campaigns[c].status /\ ListNow.rows[c].steps = campaigns[c].steps
    BY DEF ListNow
  <2>3. \A c \in Campaigns : ListNow.rows[c].status \in Kept => Made(c)
    BY <2>2 DEF Kept, Made
  <2>4. \A c \in Campaigns, p \in 1..MaxPosition :
          campaigns[c].steps[p] <= stepsMade /\ campaigns[c].steps[p] \in Nat
    BY StoredFields DEF StepsInv, CardsTyped
  <2> QED
    BY <2>1, <2>2, <2>3, <2>4 DEF ListTold
<1>3. NoList \in CardList
  BY NothingTyped
<1>4. ListTold(NoList)
  <2>1. stepsMade \in Nat /\ \A c \in Campaigns, p \in 1..MaxPosition : campaigns[c].steps[p] \in Nat
    BY StoredFields DEF CardsTyped, StoredTyped
  <2>2. NoList.upto = 0
    BY DEF NoList
  <2>3. ASSUME NEW c \in Campaigns
        PROVE  NoList.rows[c].status = "none" /\ \A p \in 1..MaxPosition : NoList.rows[c].steps[p] = 0
    BY DEF NoList, NoSteps
  <2>4. "none" \notin Kept
    BY DEF Kept
  <2>5. ASSUME NEW c \in Campaigns, NEW p \in 1..MaxPosition
        PROVE  campaigns[c].steps[p] \in {0, NoList.rows[c].steps[p]} \/ campaigns[c].steps[p] > NoList.upto
    BY <2>1, <2>2, <2>3
  <2> QED
    BY <2>1, <2>2, <2>3, <2>4, <2>5 DEF ListTold
<1> QED
  BY <1>1, <1>2, <1>3, <1>4

LEMMA StepStays ==
  ASSUME CardsTyped, StepsInv, StoredTyped', StoredKept, NEW c \in Campaigns, NEW s \in CardStep,
         StepFits(c, s)
  PROVE  StepFits(c, s)'
<1>1. s.upto \in Nat /\ s.at \in Nat /\ s.row \in Nat
  BY DEF CardStep
<1>2. stepsMade \in Nat /\ stepsMade' \in Nat /\ stepsMade <= stepsMade' /\ s.upto <= stepsMade
  BY DEF CardsTyped, StoredTyped, StoredKept, StepFits
<1>3. s.upto <= stepsMade'
  BY <1>1, <1>2
<1>4. ASSUME s.at \in 1..MaxPosition
      PROVE  campaigns'[c].steps[s.at] \in {0, s.row} \/ campaigns'[c].steps[s.at] > s.upto
  <2>1. campaigns[c].steps[s.at] \in {0, s.row} \/ campaigns[c].steps[s.at] > s.upto
    BY <1>4 DEF StepFits
  <2>2. campaigns[c].steps[s.at] \in Nat
    BY <1>4, StoredFields DEF CardsTyped
  <2>3. \/ campaigns'[c].steps[s.at] \in {0, campaigns[c].steps[s.at]}
        \/ campaigns'[c].steps[s.at] > stepsMade
    BY <1>4 DEF StoredKept
  <2>4. campaigns'[c].steps[s.at] \in Nat
    BY <1>4 DEF StoredTyped, CampaignRow, StepRows
  <2> QED
    BY <1>1, <1>2, <2>1, <2>2, <2>3, <2>4
<1> QED
  BY <1>3, <1>4 DEF StepFits

LEMMA NoStepFits ==
  ASSUME StoredTyped, NEW c
  PROVE  StepFits(c, NoStep)
BY DEF StepFits, NoStep, StoredTyped

LEMMA InStepsOf ==
  ASSUME NEW page, Mounted(page).kind = "steps"
  PROVE  /\ Mounted(page).of \in Campaigns /\ Listed(page.list, Mounted(page).of)
         /\ Mounted(page) = page.dialog
BY DEF Mounted, Listed, NoDialog

\* The steps stay, whatever happens to the rest.
LEMMA RowsOfStepsStay ==
  ASSUME CardsTyped, StepsInv, StoredTyped', StoredKept
  PROVE  \A c \in Campaigns, p \in 1..MaxPosition : campaigns'[c].steps[p] <= stepsMade'
<1> TAKE c \in Campaigns, p \in 1..MaxPosition
<1>1. stepsMade \in Nat /\ stepsMade' \in Nat /\ stepsMade <= stepsMade'
  BY DEF CardsTyped, StoredTyped, StoredKept
<1>2. campaigns[c].steps[p] \in Nat /\ campaigns[c].steps[p] <= stepsMade
  BY StoredFields DEF CardsTyped, StepsInv
<1>3. campaigns'[c].steps[p] \in Nat
  BY DEF StoredTyped, CampaignRow, StepRows
<1>4. \/ campaigns'[c].steps[p] \in {0, campaigns[c].steps[p]}
      \/ campaigns'[c].steps[p] > stepsMade /\ campaigns'[c].steps[p] <= stepsMade'
  BY DEF StoredKept
<1> QED
  BY <1>1, <1>2, <1>3, <1>4

LEMMA AskStays ==
  ASSUME CardsTyped, StepsInv, StoredTyped', StoredKept, NEW q \in Slots,
         NEW a \in AskRow, a.list \in {NoList, ListNow, asking[q].list},
         a.ask = "save" => a.of \in Campaigns /\ StepFits(a.of, a.step)
  PROVE  ListTold(a.list)' /\ (a.ask = "save" => a.of \in Campaigns /\ StepFits(a.of, a.step)')
<1>1. asking[q].list \in CardList /\ ListTold(asking[q].list)
  BY AskFields DEF StepsInv
<1>2. ListTold(a.list)'
  BY <1>1, ListStays, NewListTold
<1>3. a.step \in CardStep
  BY DEF AskRow
<1> QED
  BY <1>2, <1>3, StepStays

LEMMA PageListStays ==
  ASSUME CardsTyped, StepsInv, StoredTyped', StoredKept, NEW v, ListKept(v)
  PROVE  v \in CardList /\ ListTold(v) /\ ListTold(v)'
<1>1. cards.list \in CardList /\ ListTold(cards.list)
  BY PageFields DEF StepsInv
<1>2. ASSUME NEW q \in Slots PROVE asking[q].list \in CardList /\ ListTold(asking[q].list)
  BY AskFields DEF StepsInv
<1>3. v \in CardList /\ ListTold(v)
  BY <1>1, <1>2 DEF ListKept
<1> QED
  BY <1>3, ListStays

LEMMA ShownStepStays ==
  ASSUME CardsTyped, StepsInv, StoredTyped', StoredKept, NEW c \in Campaigns, NEW s,
         s = NoStep \/ (s = cards.step /\ StepFits(c, s))
  PROVE  StepFits(c, s)'
<1>1. CASE s = NoStep
  <2>1. stepsMade' \in Nat
    BY DEF StoredTyped
  <2> QED
    BY <1>1, <2>1 DEF StepFits, NoStep
<1>2. CASE s = cards.step /\ StepFits(c, s)
  BY <1>2, StepStays, PageFields
<1> QED
  BY <1>1, <1>2

LEMMA StepsStay ==
  ASSUME CardsTyped, StepsInv, CardsTyped', StoredKept, StepAsks(asking'), StepPage(cards')
  PROVE  StepsInv'
<1>1. StoredTyped'
  BY DEF CardsTyped
<1>2. ListTold(cards.list)'
  BY <1>1, PageListStays DEF StepPage
<1>3. ASSUME NEW q \in Slots
      PROVE  /\ ListTold(asking[q].list)'
             /\ asking'[q].ask = "save" => asking'[q].of \in Campaigns
                                           /\ StepFits(asking[q].of, asking[q].step)'
  <2> DEFINE a == asking'[q]
  <2>1. a \in AskRow
    BY DEF CardsTyped
  <2>2. a.list \in {NoList, ListNow, asking[q].list}
    BY DEF StepAsks
  <2>3. a.ask = "save" => a.of \in Campaigns /\ StepFits(a.of, a.step)
    BY DEF StepAsks, StepsInv
  <2> QED
    BY <1>1, <2>1, <2>2, <2>3, AskStays
<1>4. Mounted(cards').kind = "steps" => StepFits(Mounted(cards).of, cards.step)'
  <2> SUFFICES ASSUME Mounted(cards').kind = "steps"
               PROVE  StepFits(Mounted(cards).of, cards.step)'
    OBVIOUS
  <2> DEFINE c == Mounted(cards').of
             s == cards'.step
  <2>1. c \in Campaigns
    BY InStepsOf
  <2>2. s = NoStep \/ (s = cards.step /\ StepFits(c, s))
    BY DEF StepPage, StepsInv
  <2> QED
    BY <1>1, <2>1, <2>2, ShownStepStays
<1>5. \A c \in Campaigns, p \in 1..MaxPosition : campaigns'[c].steps[p] <= stepsMade'
  BY <1>1, RowsOfStepsStay
<1> QED
  BY <1>2, <1>3, <1>4, <1>5 DEF StepsInv

\* The leads that are shown stay, whatever happens to the rest.
LEMMA RowsStay ==
  ASSUME CardsTyped, FilterInv, RowAsks(asking'), RowPage(cards', asking')
  PROVE  FilterInv'
<1>1. ASSUME NEW r \in Slots, asking'[r].ask = "rows", asking'[r].pc = "answered"
      PROVE  RowsFit(asking'[r].filter, asking'[r].rows)
  BY <1>1 DEF RowAsks, FilterInv
<1>3. \A r \in Slots : asking'[r].ask \in {"rows", "stop", "retry"} => asking'[r].of \in Campaigns
  BY DEF RowAsks, FilterInv
<1>2. ASSUME InLeads', ~cards'.progress.mixed
      PROVE  /\ cards'.progress.loading \/ RowsFit(cards'.progress.filter, cards'.progress.rows)
             /\ \A r \in Slots : RowsHere(r)' => asking'[r].filter = cards'.progress.filter
  <2>1. CASE Mounted(cards') = Mounted(cards) /\ cards'.progress = cards.progress
    <3>1. InLeads
      BY <1>2, <2>1 DEF InLeads
    <3>2. \A r \in Slots : RowsHere(r)' => RowsHere(r) /\ asking'[r].filter = asking[r].filter
      BY DEF RowAsks, RowsHere
    <3> QED
      BY <1>2, <2>1, <3>1, <3>2 DEF FilterInv
  <2>2. CASE cards'.progress = NoProgress /\ \A q \in Slots : asking'[q].here = {}
    BY <2>2 DEF NoProgress, RowsHere
  <2> QED
    BY <2>1, <2>2 DEF RowPage
<1> QED
  BY <1>1, <1>2, <1>3 DEF FilterInv, RowsFit, InLeads, RowsHere

\* What is missing of some leads, while the campaign is there.
LEMMA MissingTyped ==
  ASSUME NEW c, NEW S \in SUBSET People
  PROVE  /\ IsFiniteSet(S) /\ Cardinality(S) \in Nat
         /\ IsFiniteSet(Missing(c, S)) /\ Cardinality(Missing(c, S)) \in Nat
         /\ IsFiniteSet(Missing(c, S)') /\ Cardinality(Missing(c, S)') \in Nat
<1>1. \A T \in SUBSET People : IsFiniteSet(T) /\ Cardinality(T) \in Nat
  BY FS_Subset, FS_CardinalityType
<1>2. Missing(c, S) \in SUBSET People /\ Missing(c, S)' \in SUBSET People
  BY DEF Missing
<1> QED
  BY <1>1, <1>2

LEMMA FewerAreMissing ==
  ASSUME StoredKept, NEW c \in Campaigns, Made(c), NEW S \in SUBSET People, NEW T \in SUBSET S,
         NEW n \in Counts, MissingAtMost(c, S, n)
  PROVE  MissingAtMost(c, T, n)'
<1> SUFFICES ASSUME Exists(c)' PROVE Cardinality(Missing(c, T)') <= n.without
  BY DEF MissingAtMost
<1>1. Exists(c) /\ Missing(c, T)' \subseteq Missing(c, S)
  BY DEF StoredKept, Missing
<1>2. Cardinality(Missing(c, S)) <= n.without
  BY <1>1 DEF MissingAtMost
<1>3. Cardinality(Missing(c, T)') <= Cardinality(Missing(c, S))
  BY <1>1, MissingTyped, FS_Subset
<1>4. Cardinality(Missing(c, T)') \in Nat /\ Cardinality(Missing(c, S)) \in Nat /\ n.without \in Nat
  BY MissingTyped, CountFields
<1> QED
  BY <1>2, <1>3, <1>4

LEMMA BatchStays ==
  ASSUME CardsTyped, StoredKept, NEW q \in Slots, asking[q].ask = "enroll", PickerInv,
         NEW a \in AskRow, a.pc = asking[q].pc, a.of = asking[q].of, a.leads = asking[q].leads,
         a.fresh = asking[q].fresh, a.count = asking[q].count
  PROVE  BatchFits(a)'
<1>1. BatchFits(asking[q])
  BY DEF PickerInv
<1>2. a.of \in Campaigns /\ Made(a.of) /\ Made(a.of)'
  BY <1>1 DEF BatchFits, StoredKept
<1>3. a.pc \in {"read", "answered"} => Counted(a.count) = Cardinality(a.leads)
  BY <1>1 DEF BatchFits
<1>4. a.leads \in SUBSET People /\ a.fresh \in SUBSET People /\ a.count \in Counts
  BY AskFields
<1>5. a.pc = "read" => MissingAtMost(a.of, a.leads \ a.fresh, a.count)'
  <2>1. a.pc = "read" => MissingAtMost(a.of, a.leads \ a.fresh, a.count)
    BY <1>1 DEF BatchFits
  <2> QED
    BY <1>2, <1>4, <2>1, FewerAreMissing
<1>6. a.pc = "answered" => MissingAtMost(a.of, a.leads, a.count)'
  <2>1. a.pc = "answered" => MissingAtMost(a.of, a.leads, a.count)
    BY <1>1 DEF BatchFits
  <2> QED
    BY <1>2, <1>4, <2>1, FewerAreMissing
<1> QED
  BY <1>2, <1>3, <1>5, <1>6 DEF BatchFits

LEMMA BatchesStay ==
  ASSUME CardsTyped, CardsTyped', PickerInv, StoredKept, BatchAsks(asking')
  PROVE  \A r \in Slots : asking'[r].ask = "enroll" => BatchFits(asking[r])'
<1> TAKE r \in Slots
<1> HAVE asking'[r].ask = "enroll"
<1> DEFINE a == asking'[r]
<1>1. a \in AskRow
  BY DEF CardsTyped
<1>2. /\ asking[r].ask = "enroll" /\ a.pc = asking[r].pc /\ a.of = asking[r].of
      /\ a.leads = asking[r].leads /\ a.fresh = asking[r].fresh /\ a.count = asking[r].count
  BY DEF BatchAsks
<1> QED
  BY <1>1, <1>2, BatchStays

LEMMA SaidStays ==
  ASSUME CardsTyped, PickerInv, StoredKept, said' = said
  PROVE  SaidTrue'
<1>1. said' \in [of : SomeCampaign, ids : SUBSET People, total : Counts]
  BY DEF CardsTyped
<1>2. ASSUME said'.of # NoCampaign
      PROVE  /\ said'.of \in Campaigns /\ said'.ids \in SUBSET People /\ said'.total \in Counts
             /\ Made(said'.of) /\ Counted(said'.total) = Cardinality(said'.ids)
             /\ MissingAtMost(said'.of, said'.ids, said'.total)
  BY <1>1, <1>2 DEF SomeCampaign, PickerInv, SaidTrue
<1>3. \A c \in Campaigns : Made(c) => Made(c)'
  BY DEF StoredKept
<1> QED
  BY <1>2, <1>3, FewerAreMissing DEF SaidTrue

LEMMA PickerFitsStays ==
  ASSUME CardsTyped, PickerInv, StoredKept, NEW v \in PickerRow, PickerKept(v)
  PROVE  PickerFits(v)'
<1>1. \A c \in Campaigns : Made(c) => Made(c)'
  BY DEF StoredKept
<1>2. CASE /\ v.pc = cards.picker.pc /\ v.of = cards.picker.of /\ v.ids = cards.picker.ids
           /\ v.left = cards.picker.left /\ v.total = cards.picker.total
  <2>1. v.pc # "closed" => v.of \in Campaigns /\ Made(v.of)
    BY <1>2 DEF PickerInv, PickerFits
  <2>2. ASSUME v.pc = "saving"
        PROVE  /\ v.left \subseteq v.ids
               /\ Counted(v.total) + Cardinality(v.left) = Cardinality(v.ids)
               /\ MissingAtMost(v.of, v.ids \ v.left, v.total)
    BY <1>2, <2>2 DEF PickerInv, PickerFits
  <2>3. v.ids \in SUBSET People /\ v.total \in Counts
    BY PickerFields
  <2>4. ASSUME v.pc = "saving" PROVE MissingAtMost(v.of, v.ids \ v.left, v.total)'
    BY <2>1, <2>2, <2>3, <2>4, FewerAreMissing
  <2> QED
    BY <1>1, <2>1, <2>2, <2>4 DEF PickerFits
<1>3. CASE v.pc # "saving" /\ (v.pc # "closed" => v.of \in Campaigns /\ Made(v.of))
  BY <1>1, <1>3 DEF PickerFits
<1> QED
  BY <1>2, <1>3 DEF PickerKept

LEMMA LoopStays ==
  ASSUME CardsTyped, PickerInv, BatchAsks(asking'), PickerKept(cards'.picker)
  PROVE  OneLoop'
<1>1. ASSUME NEW r \in Slots, asking'[r].ask = "enroll", asking'[r].then = "loop"
      PROVE  /\ Looping(r) /\ asking'[r].of = asking[r].of /\ asking'[r].leads = asking[r].leads
             /\ cards.picker.pc = "saving"
  BY <1>1 DEF BatchAsks, Looping, PickerInv, OneLoop
<1>2. ASSUME NEW r \in Slots, Looping(r)
      PROVE  /\ asking[r].of = cards.picker.of
             /\ asking[r].leads # {} /\ asking[r].leads \subseteq cards.picker.left
             /\ \A q \in Slots : Looping(q) => q = r
  BY <1>2 DEF PickerInv, OneLoop
<1>3. ASSUME cards.picker.pc = "saving"
      PROVE  /\ cards'.picker.pc = "saving" /\ cards'.picker.of = cards.picker.of
             /\ cards'.picker.left = cards.picker.left
  BY <1>3 DEF PickerKept
<1> QED
  BY <1>1, <1>2, <1>3 DEF OneLoop, Looping

LEMMA PickerStays ==
  ASSUME CardsTyped, PickerInv, CardsTyped', StoredKept, BatchAsks(asking'),
         PickerKept(cards'.picker), said' = said
  PROVE  PickerInv'
<1>1. cards'.picker \in PickerRow
  BY DEF CardsTyped, PageCards
<1>2. PickerFits(cards.picker)'
  BY <1>1, PickerFitsStays
<1> QED
  BY <1>2, BatchesStay, LoopStays, SaidStays DEF PickerInv

\* A step that nothing of the invariant is about.
LEMMA AllStay ==
  ASSUME CampaignPageInv, CardsTyped', AsksKept(asking'), PageKept(cards', asking'), StoredKept,
         said' = said
  PROVE  CampaignPageInv'
<1>1. StepsInv'
  BY StepsStay DEF CampaignPageInv, AsksKept, PageKept
<1>2. PickerInv'
  BY PickerStays DEF CampaignPageInv, AsksKept, PageKept
<1>3. FilterInv'
  BY RowsStay DEF CampaignPageInv, AsksKept, PageKept
<1> QED
  BY <1>1, <1>2, <1>3 DEF CampaignPageInv

\* A turn of the page: another list or another dialog.
LEMMA MountedListed ==
  ASSUME NEW page, Mounted(page).kind \in {"edit", "steps", "enroll", "leads"}
  PROVE  /\ Mounted(page) = page.dialog /\ page.dialog.of \in Campaigns
         /\ page.list.rows[page.dialog.of].status \in Kept
BY DEF Mounted, Listed, NoDialog

LEMMA PickerOfTyped ==
  ASSUME CardsTyped, StepsInv, NEW page \in PageCards, ListKept(page.list)
  PROVE  /\ PickerOf(page) \in PickerRow
         /\ page.picker.pc # "saving" => PickerOf(page).pc # "saving"
         /\ page.picker.pc # "saving" /\ PickerOf(page).pc # "closed" =>
              PickerOf(page).of \in Campaigns /\ Made(PickerOf(page).of)
         /\ page.picker.pc = "saving" => PickerOf(page) = page.picker
<1>1. page.picker \in PickerRow /\ page.dialog.of \in SomeCampaign
  BY DEF PageCards, DialogRow
<1>2. CASE page.picker.pc = "saving"
  BY <1>1, <1>2 DEF PickerOf
<1>3. CASE page.picker.pc # "saving" /\ Mounted(page).kind = "enroll"
  <2>1. PickerOf(page) = [NoPicker EXCEPT !.pc = "loading", !.of = page.dialog.of]
    BY <1>3 DEF PickerOf
  <2>2. PickerOf(page) \in PickerRow /\ PickerOf(page).pc = "loading" /\ PickerOf(page).of = page.dialog.of
    BY <1>1, <2>1, NothingTyped DEF PickerRow
  <2>3. page.dialog.of \in Campaigns /\ page.list.rows[page.dialog.of].status \in Kept
    BY <1>3, MountedListed
  <2>4. ListTold(page.list)
    <3>1. ListTold(cards.list) /\ \A q \in Slots : ListTold(asking[q].list)
      BY DEF StepsInv
    <3> QED
      BY <3>1 DEF ListKept
  <2>5. Made(page.dialog.of)
    BY <2>3, <2>4 DEF ListTold
  <2> QED
    BY <1>3, <2>2, <2>3, <2>5
<1>4. CASE page.picker.pc # "saving" /\ Mounted(page).kind # "enroll"
  <2>1. PickerOf(page) = NoPicker
    BY <1>4 DEF PickerOf
  <2> QED
    BY <1>4, <2>1, NothingTyped DEF NoPicker
<1> QED
  BY <1>2, <1>3, <1>4

LEMMA TurnAsks ==
  ASSUME CardsTyped, NEW asks \in [Slots -> AskRow], AsksKept(asks),
         NEW b, b = [r \in Slots |-> [asks[r] EXCEPT !.here = {}]]
  PROVE  b \in [Slots -> AskRow] /\ AsksKept(b) /\ \A q \in Slots : b[q].here = {}
<1>1. ASSUME NEW q \in Slots
      PROVE  /\ b[q] \in AskRow /\ b[q].here = {} /\ b[q].list = asks[q].list /\ b[q].ask = asks[q].ask
             /\ b[q].of = asks[q].of /\ b[q].step = asks[q].step /\ b[q].pc = asks[q].pc
             /\ b[q].then = asks[q].then /\ b[q].leads = asks[q].leads /\ b[q].fresh = asks[q].fresh
             /\ b[q].count = asks[q].count /\ b[q].filter = asks[q].filter /\ b[q].rows = asks[q].rows
  <2>1. asks[q] \in AskRow /\ b[q] = [asks[q] EXCEPT !.here = {}]
    OBVIOUS
  <2>2. b[q] \in AskRow
    BY <2>1 DEF AskRow
  <2>3. b[q].here = {}
    BY <2>1 DEF AskRow
  <2> QED
    BY <2>1, <2>2, <2>3 DEF AskRow
<1>2. b \in [Slots -> AskRow]
  BY <1>1
<1>3. StepAsks(b)
  BY <1>1 DEF AsksKept, StepAsks
<1>4. BatchAsks(b)
  BY <1>1 DEF AsksKept, BatchAsks
<1>5. RowAsks(b)
  BY <1>1 DEF AsksKept, RowAsks
<1> QED
  BY <1>1, <1>2, <1>3, <1>4, <1>5 DEF AsksKept

LEMMA TurnTyped ==
  ASSUME CardsTyped, StepsInv, NEW page \in PageCards, NEW asks \in [Slots -> AskRow],
         AsksKept(asks), Turn(page, asks), ListKept(page.list),
         page.step = cards.step, page.progress = cards.progress
  PROVE  /\ cards' \in PageCards /\ asking' \in [Slots -> AskRow]
         /\ AsksKept(asking') /\ StepPage(cards') /\ RowPage(cards', asking')
         /\ cards'.picker \in {page.picker, PickerOf(page)}
         /\ cards'.list = page.list
<1>1. CASE Mounted(page) = Mounted(cards)
  <2>1. cards' = page /\ asking' = asks
    BY <1>1 DEF Turn
  <2> QED
    BY <1>1, <2>1 DEF StepPage, RowPage
<1>2. CASE Mounted(page) # Mounted(cards)
  <2>1. /\ cards' = [page EXCEPT !.editor = "none", !.step = NoStep, !.picker = PickerOf(page),
                                 !.progress = NoProgress]
        /\ asking' = [r \in Slots |-> [asks[r] EXCEPT !.here = {}]]
    BY <1>2 DEF Turn
  <2>2. PickerOf(page) \in PickerRow /\ NoStep \in CardStep /\ NoProgress \in ProgressRow
    BY PickerOfTyped, NothingTyped
  <2>3. cards' \in PageCards
    BY <2>1, <2>2 DEF PageCards
  <2>4. /\ cards'.list = page.list /\ cards'.picker = PickerOf(page) /\ cards'.step = NoStep
        /\ cards'.progress = NoProgress
    BY <2>1 DEF PageCards
  <2>5. asking' \in [Slots -> AskRow] /\ AsksKept(asking') /\ \A q \in Slots : asking'[q].here = {}
    BY <2>1, TurnAsks
  <2> QED
    BY <2>3, <2>4, <2>5 DEF StepPage, RowPage
<1> QED
  BY <1>1, <1>2

LEMMA TurnKeeps ==
  ASSUME CampaignPageInv, NEW page \in PageCards, NEW asks \in [Slots -> AskRow],
         AsksKept(asks), Turn(page, asks), ListKept(page.list), page.step = cards.step,
         page.progress = cards.progress, page.picker = cards.picker, UNCHANGED <<storedVars, said>>
  PROVE  CampaignPageInv'
<1>1. /\ cards' \in PageCards /\ asking' \in [Slots -> AskRow]
      /\ AsksKept(asking') /\ StepPage(cards') /\ RowPage(cards', asking')
      /\ cards'.picker \in {page.picker, PickerOf(page)}
  BY TurnTyped DEF CampaignPageInv
<1>2. PickerKept(cards'.picker)
  <2>1. CASE cards'.picker = page.picker
    BY <2>1 DEF PickerKept
  <2>2. CASE cards'.picker = PickerOf(page)
    BY <2>2, PickerOfTyped DEF PickerKept, CampaignPageInv
  <2> QED
    BY <1>1, <2>1, <2>2
<1>3. StoredTyped' /\ StoredKept
  BY SameStored DEF CampaignPageInv
<1>4. CardsTyped'
  BY <1>1, <1>3 DEF CardsTyped, CampaignPageInv
<1> QED
  BY <1>1, <1>2, <1>3, <1>4, AllStay DEF PageKept

\* A step of the requests, and of the parts of the page that the invariant leaves out.
LEMMA AsksTurn ==
  ASSUME CampaignPageInv, cards' \in PageCards, asking' \in [Slots -> AskRow], AsksKept(asking'),
         PageKept(cards', asking'), UNCHANGED <<storedVars, said>>
  PROVE  CampaignPageInv'
<1>1. StoredTyped' /\ StoredKept
  BY SameStored DEF CampaignPageInv
<1>2. CardsTyped'
  BY <1>1 DEF CardsTyped, CampaignPageInv
<1> QED
  BY <1>1, <1>2, AllStay

\* One request takes the place of another, and the page stays.
LEMMA AskTurns ==
  ASSUME CampaignPageInv, NEW r \in Slots, NEW a \in AskRow, asking' = [asking EXCEPT ![r] = a],
         a.list \in {NoList, ListNow, asking[r].list},
         a.ask \notin {"save", "enroll", "rows", "stop", "retry"}, UNCHANGED <<storedVars, cards, said>>
  PROVE  CampaignPageInv'
<1>1. asking' \in [Slots -> AskRow] /\ AsksKept(asking')
  BY OneAsk DEF CampaignPageInv
<1>2. cards' \in PageCards /\ PageKept(cards', asking')
  BY SamePage, PageFields DEF CampaignPageInv
<1> QED
  BY <1>1, <1>2, AsksTurn

LEMMA PollStays ==
  ASSUME CampaignPageInv, NEW r \in Slots, Poll(r)
  PROVE  CampaignPageInv'
<1> DEFINE a == ReadAgain("none", NoCampaign, {})
<1>1. a \in AskRow /\ a.ask = "load" /\ a.list = NoList
  BY ReadTyped DEF SomeCampaign
<1> HIDE DEF a
<1>2. asking' = [asking EXCEPT ![r] = a] /\ UNCHANGED <<storedVars, cards, said>>
  BY DEF Poll, a
<1> QED
  BY <1>1, <1>2, AskTurns

LEMMA ServeListStays ==
  ASSUME CampaignPageInv, NEW r \in Slots, ServeList(r)
  PROVE  CampaignPageInv'
<1> DEFINE a == [asking[r] EXCEPT !.pc = "answered", !.list = ListNow]
<1>1. asking[r] \in AskRow /\ asking[r].ask = "load" /\ ListNow \in CardList
  BY AskFields, NewListTold DEF CampaignPageInv, ServeList
<1>2. a \in AskRow /\ a.ask = "load" /\ a.list = ListNow
  BY <1>1 DEF AskRow
<1>3. asking' = [asking EXCEPT ![r] = a] /\ UNCHANGED <<storedVars, cards, said>>
  BY DEF ServeList
<1> HIDE DEF a
<1> QED
  BY <1>2, <1>3, AskTurns

LEMMA ListReadStays ==
  ASSUME CampaignPageInv, NEW r \in Slots, ListRead(r)
  PROVE  CampaignPageInv'
<1>1. PICK list \in {cards.list} \cup (IF asking[r].pc = "answered" THEN {asking[r].list} ELSE {}) :
        Turn([cards EXCEPT
               !.list = list,
               !.busy = IF asking[r].then = "card" THEN NoCampaign ELSE @,
               !.dialog = IF asking[r].then = "create" THEN [kind |-> "steps", of |-> asking[r].of]
                          ELSE @],
             [asking EXCEPT ![r] = NoAsk])
  BY DEF ListRead
<1> DEFINE busy == IF asking[r].then = "card" THEN NoCampaign ELSE cards.busy
           dialog == IF asking[r].then = "create" THEN [kind |-> "steps", of |-> asking[r].of]
                     ELSE cards.dialog
           page == [cards EXCEPT !.list = list, !.busy = busy, !.dialog = dialog]
           asks == [asking EXCEPT ![r] = NoAsk]
<1>2. Turn(page, asks) /\ UNCHANGED <<storedVars, said>>
  BY <1>1 DEF ListRead
<1>3. ListKept(list)
  BY <1>1 DEF ListKept
<1>4. CardsTyped /\ StepsInv
  BY DEF CampaignPageInv
<1>5. list \in CardList
  <2>1. asking[r].list \in CardList /\ cards.list \in CardList
    BY <1>4, AskFields, PageFields
  <2> QED
    BY <1>1, <2>1
<1>6. busy \in SomeCampaign /\ dialog \in DialogRow
  BY <1>4, AskFields, PageFields DEF SomeCampaign, DialogRow
<1> HIDE DEF busy, dialog
<1>7. page \in PageCards
  BY <1>4, <1>5, <1>6, PageFields DEF PageCards
<1>8. /\ page.list = list /\ page.step = cards.step /\ page.progress = cards.progress
      /\ page.picker = cards.picker
  BY <1>4, PageFields DEF PageCards
<1>9. asks \in [Slots -> AskRow] /\ AsksKept(asks)
  <2>1. \A q \in Slots : asks[q] = IF q = r THEN NoAsk ELSE asking[q]
    BY <1>4 DEF CardsTyped
  <2>2. asks \in [Slots -> AskRow]
    BY <1>4, NoAskTyped DEF CardsTyped
  <2> HIDE DEF asks
  <2> QED
    BY <2>1, <2>2, NoAskTyped DEF AsksKept, StepAsks, BatchAsks, RowAsks, RowsHere
<1> HIDE DEF page, asks
<1> QED
  BY <1>2, <1>3, <1>7, <1>8, <1>9, TurnKeeps

LEMMA DialogTurns ==
  ASSUME CampaignPageInv, NEW d \in DialogRow, NEW asks \in [Slots -> AskRow], AsksKept(asks),
         Turn([cards EXCEPT !.dialog = d], asks), UNCHANGED <<storedVars, said>>
  PROVE  CampaignPageInv'
<1> DEFINE page == [cards EXCEPT !.dialog = d]
<1>1. cards \in PageCards
  BY PageFields DEF CampaignPageInv
<1>2. /\ page \in PageCards /\ page.list = cards.list /\ page.step = cards.step
      /\ page.progress = cards.progress /\ page.picker = cards.picker
  BY <1>1 DEF PageCards
<1>3. Turn(page, asks) /\ ListKept(cards.list)
  BY DEF ListKept
<1> HIDE DEF page
<1> QED
  BY <1>2, <1>3, TurnKeeps

LEMMA CloseDialogStays ==
  ASSUME CampaignPageInv, CloseDialog
  PROVE  CampaignPageInv'
<1>1. asking \in [Slots -> AskRow] /\ AsksKept(asking)
  BY SameAsks DEF CampaignPageInv, CardsTyped
<1> QED
  BY <1>1, NothingTyped, DialogTurns DEF CloseDialog

LEMMA OpenDialogStays ==
  ASSUME CampaignPageInv, NEW kind \in {"create", "edit", "steps", "enroll", "leads"},
         NEW c \in SomeCampaign, OpenDialog(kind, c)
  PROVE  CampaignPageInv'
<1>1. asking \in [Slots -> AskRow] /\ AsksKept(asking)
  BY SameAsks DEF CampaignPageInv, CardsTyped
<1>2. [kind |-> kind, of |-> c] \in DialogRow
  BY DEF DialogRow
<1> QED
  BY <1>1, <1>2, DialogTurns DEF OpenDialog

\* Only what no family is about changes in the page.
LEMMA PageTurns ==
  ASSUME CampaignPageInv, cards' \in PageCards, asking' \in [Slots -> AskRow], AsksKept(asking'),
         cards'.list = cards.list, cards'.dialog = cards.dialog, cards'.step = cards.step,
         cards'.progress = cards.progress, PickerKept(cards'.picker), UNCHANGED <<storedVars, said>>
  PROVE  CampaignPageInv'
<1>1. Mounted(cards') = Mounted(cards)
  BY DEF Mounted
<1>2. PageKept(cards', asking')
  BY <1>1 DEF PageKept, StepPage, ListKept, RowPage
<1> QED
  BY <1>2, AsksTurn

LEMMA PressCardStays ==
  ASSUME CampaignPageInv, NEW r \in Slots, NEW ask \in {"start", "pause", "delete"},
         NEW c \in Campaigns, PressCard(r, ask, c)
  PROVE  CampaignPageInv'
<1> DEFINE a == Requested(ask, c, {})
<1>1. a \in AskRow /\ a.ask = ask /\ a.list = NoList
  BY RequestTyped DEF SomeCampaign, PageAsks
<1> HIDE DEF a
<1>2. asking' = [asking EXCEPT ![r] = a] /\ cards' = [cards EXCEPT !.busy = c]
  BY DEF PressCard, a
<1>3. asking' \in [Slots -> AskRow] /\ AsksKept(asking')
  BY <1>1, <1>2, OneAsk DEF CampaignPageInv
<1>4. cards \in PageCards
  BY PageFields DEF CampaignPageInv
<1>5. /\ cards' \in PageCards /\ cards'.list = cards.list /\ cards'.dialog = cards.dialog
      /\ cards'.step = cards.step /\ cards'.progress = cards.progress /\ cards'.picker = cards.picker
  BY <1>2, <1>4 DEF PageCards, SomeCampaign
<1> QED
  BY <1>3, <1>5, PageTurns DEF PressCard, PickerKept

LEMMA AnsweredCardStays ==
  ASSUME CampaignPageInv, NEW r \in Slots, CardAnswered(r)
  PROVE  CampaignPageInv'
<1>1. CASE /\ asking' = [asking EXCEPT ![r] = ReadAgain("card", asking[r].of, {})]
           /\ UNCHANGED cards
  <2> DEFINE a == ReadAgain("card", asking[r].of, {})
  <2>1. asking[r].of \in SomeCampaign
    BY AskFields DEF CampaignPageInv
  <2>2. a \in AskRow /\ a.ask = "load" /\ a.list = NoList
    BY <2>1, ReadTyped
  <2> HIDE DEF a
  <2>3. asking' = [asking EXCEPT ![r] = a] /\ UNCHANGED <<storedVars, cards, said>>
    BY <1>1 DEF CardAnswered, a
  <2> QED
    BY <2>2, <2>3, AskTurns
<1>2. CASE asking' = [asking EXCEPT ![r] = NoAsk] /\ cards' = [cards EXCEPT !.busy = NoCampaign]
  <2>1. asking' \in [Slots -> AskRow] /\ AsksKept(asking')
    BY <1>2, OneAsk, NoAskTyped DEF CampaignPageInv
  <2>2. cards \in PageCards
    BY PageFields DEF CampaignPageInv
  <2>3. /\ cards' \in PageCards /\ cards'.list = cards.list /\ cards'.dialog = cards.dialog
        /\ cards'.step = cards.step /\ cards'.progress = cards.progress /\ cards'.picker = cards.picker
    BY <1>2, <2>2 DEF PageCards, SomeCampaign
  <2> QED
    BY <2>1, <2>3, PageTurns DEF CardAnswered, PickerKept
<1> QED
  BY <1>1, <1>2 DEF CardAnswered

LEMMA SubmitFormStays ==
  ASSUME CampaignPageInv, NEW r \in Slots, NEW mailbox \in BOOLEAN, SubmitForm(r, mailbox)
  PROVE  CampaignPageInv'
<1> DEFINE b == Requested(cards.dialog.kind, cards.dialog.of, {"editor"})
           a == [b EXCEPT !.mailbox = mailbox]
<1>1. cards.dialog.kind \in {"create", "edit"}
  BY DEF SubmitForm, Mounted, NoDialog
<1>2. cards.dialog.of \in SomeCampaign
  BY PageFields DEF CampaignPageInv
<1>3. b \in AskRow /\ b.ask \in {"create", "edit"} /\ b.list = NoList
  BY <1>1, <1>2, RequestTyped DEF PageAsks
<1>4. asking' = [asking EXCEPT ![r] = a] /\ UNCHANGED <<storedVars, cards, said>>
  BY DEF SubmitForm
<1> HIDE DEF b
<1>5. a \in AskRow /\ a.ask \in {"create", "edit"} /\ a.list = NoList
  BY <1>3 DEF AskRow
<1> HIDE DEF a
<1> QED
  BY <1>4, <1>5, AskTurns

LEMMA AnsweredFormStays ==
  ASSUME CampaignPageInv, NEW r \in Slots, FormAnswered(r)
  PROVE  CampaignPageInv'
<1>1. asking[r].of \in SomeCampaign /\ asking[r].here \in SUBSET {"dialog", "editor"}
  BY AskFields DEF CampaignPageInv
<1>2. CASE /\ asking' = [asking EXCEPT ![r] = ReadAgain("create", asking[r].of, asking[r].here)]
           /\ UNCHANGED cards
  <2> DEFINE a == ReadAgain("create", asking[r].of, asking[r].here)
  <2>1. a \in AskRow /\ a.ask = "load" /\ a.list = NoList
    BY <1>1, ReadTyped
  <2> HIDE DEF a
  <2>2. asking' = [asking EXCEPT ![r] = a] /\ UNCHANGED <<storedVars, cards, said>>
    BY <1>2 DEF FormAnswered, a
  <2> QED
    BY <2>1, <2>2, AskTurns
<1>3. CASE Turn([cards EXCEPT !.dialog = NoDialog],
                [asking EXCEPT ![r] = ReadAgain("none", NoCampaign, {})])
  <2> DEFINE a == ReadAgain("none", NoCampaign, {})
             asks == [asking EXCEPT ![r] = a]
  <2>1. a \in AskRow /\ a.ask = "load" /\ a.list = NoList
    BY ReadTyped DEF SomeCampaign
  <2> HIDE DEF a
  <2>2. asks \in [Slots -> AskRow] /\ AsksKept(asks)
    <3>1. asking \in [Slots -> AskRow]
      BY DEF CampaignPageInv, CardsTyped
    <3>2. asks \in [Slots -> AskRow]
      BY <2>1, <3>1
    <3>3. \A q \in Slots : asks[q] = IF q = r THEN a ELSE asking[q]
      BY <3>1
    <3> HIDE DEF asks
    <3> QED
      BY <2>1, <3>2, <3>3 DEF AsksKept, StepAsks, BatchAsks, RowAsks, RowsHere
  <2>3. Turn([cards EXCEPT !.dialog = NoDialog], asks) /\ UNCHANGED <<storedVars, said>>
    BY <1>3 DEF FormAnswered, a
  <2> HIDE DEF asks
  <2> QED
    BY <2>2, <2>3, NothingTyped, DialogTurns
<1>4. CASE asking' = [asking EXCEPT ![r] = NoAsk] /\ UNCHANGED cards
  <2>1. UNCHANGED <<storedVars, cards, said>>
    BY <1>4 DEF FormAnswered
  <2> QED
    BY <1>4, <2>1, NoAskTyped, AskTurns
<1> QED
  BY <1>2, <1>3, <1>4 DEF FormAnswered

\* What a handler may do to what is stored: to one campaign, its enrollments, and no
\* lead of it becomes one that is not enrolled, unless it is deleted.
LEMMA RowChanges ==
  ASSUME StoredTyped, NEW c \in Campaigns, NEW row \in CampaignRow, NEW leads \in LeadRows,
         campaigns' = [campaigns EXCEPT ![c] = row], enrolled' = [enrolled EXCEPT ![c] = leads],
         contact' = contact, stepsMade' \in Nat, stepsMade <= stepsMade',
         Made(c) => row.status # "none",
         Made(c) /\ row.status \in Kept =>
           Exists(c) /\ \A l \in People : leads[l] = "none" => enrolled[c][l] = "none",
         \A p \in 1..MaxPosition :
           \/ row.steps[p] \in {0, campaigns[c].steps[p]}
           \/ row.steps[p] > stepsMade /\ row.steps[p] <= stepsMade'
  PROVE  StoredTyped' /\ StoredKept
<1>1. /\ campaigns \in [Campaigns -> CampaignRow] /\ enrolled \in [Campaigns -> LeadRows]
      /\ stepsMade \in Nat /\ contact \in [People -> {"with", "without", "gone"}]
  BY DEF StoredTyped
<1>2. StoredTyped'
  BY <1>1 DEF StoredTyped
<1>3. ASSUME NEW d \in Campaigns
      PROVE  /\ campaigns'[d] = IF d = c THEN row ELSE campaigns[d]
             /\ enrolled'[d] = IF d = c THEN leads ELSE enrolled[d]
  BY <1>1
<1>4. ASSUME NEW d \in Campaigns
      PROVE  /\ Made(d) => Made(d)'
             /\ \A p \in 1..MaxPosition :
                  \/ campaigns'[d].steps[p] \in {0, campaigns[d].steps[p]}
                  \/ campaigns'[d].steps[p] > stepsMade /\ campaigns'[d].steps[p] <= stepsMade'
             /\ Made(d) /\ Exists(d)' =>
                  /\ Exists(d)
                  /\ \A l \in People : contact'[l] # "gone" /\ enrolled'[d][l] = "none" =>
                                         contact[l] # "gone" /\ enrolled[d][l] = "none"
  BY <1>3 DEF Made, Exists
<1> QED
  BY <1>2, <1>4 DEF StoredKept

LEMMA StartsKeeps ==
  ASSUME StoredTyped, NEW c \in Campaigns, StartsCampaign(c), contact' = contact
  PROVE  StoredTyped' /\ StoredKept
<1>1. PICK done \in SUBSET WaitingIn(c) :
        enrolled' = [enrolled EXCEPT ![c] = [l \in People |->
          IF l \in done THEN "closed" ELSE IF l \in WaitingIn(c) THEN "ACTIVE" ELSE @[l]]]
  BY DEF StartsCampaign
<1> DEFINE leads == [l \in People |-> IF l \in done THEN "closed"
                       ELSE IF l \in WaitingIn(c) THEN "ACTIVE" ELSE enrolled[c][l]]
           row == [campaigns[c] EXCEPT !.status = "ACTIVE"]
<1>2. campaigns[c] \in CampaignRow /\ enrolled[c] \in LeadRows /\ stepsMade \in Nat
  BY StoredFields
<1>3. row \in CampaignRow /\ row.status = "ACTIVE" /\ row.steps = campaigns[c].steps
  BY <1>2 DEF CampaignRow, CampaignStates, Kept
<1>4. leads \in LeadRows
  BY <1>2 DEF LeadRows, LeadStatus
<1>5. \A l \in People : leads[l] = "none" => enrolled[c][l] = "none"
  OBVIOUS
<1>6. /\ campaigns' = [campaigns EXCEPT ![c] = row] /\ enrolled' = [enrolled EXCEPT ![c] = leads]
      /\ stepsMade' = stepsMade /\ Exists(c) /\ contact' = contact
  BY <1>1 DEF StartsCampaign
<1> HIDE DEF leads, row
<1>7. stepsMade' \in Nat /\ stepsMade <= stepsMade'
  BY <1>2, <1>6
<1>8. \A p \in 1..MaxPosition :
        \/ row.steps[p] \in {0, campaigns[c].steps[p]}
        \/ row.steps[p] > stepsMade /\ row.steps[p] <= stepsMade'
  BY <1>3
<1>9. row.status # "none"
  BY <1>3
<1> QED
  BY <1>3, <1>4, <1>5, <1>6, <1>7, <1>8, <1>9, RowChanges, Zenon

LEMMA PausesKeeps ==
  ASSUME StoredTyped, NEW c \in Campaigns, PausesCampaign(c), contact' = contact
  PROVE  StoredTyped' /\ StoredKept
<1> DEFINE leads == [l \in People |-> IF enrolled[c][l] = "ACTIVE" THEN "PAUSED" ELSE enrolled[c][l]]
           row == [campaigns[c] EXCEPT !.status = "PAUSED"]
<1>2. campaigns[c] \in CampaignRow /\ enrolled[c] \in LeadRows /\ stepsMade \in Nat
  BY StoredFields
<1>3. row \in CampaignRow /\ row.status = "PAUSED" /\ row.steps = campaigns[c].steps
  BY <1>2 DEF CampaignRow, CampaignStates, Kept
<1>4. leads \in LeadRows
  BY <1>2 DEF LeadRows, LeadStatus
<1>5. \A l \in People : leads[l] = "none" => enrolled[c][l] = "none"
  OBVIOUS
<1>6. /\ campaigns' = [campaigns EXCEPT ![c] = row] /\ enrolled' = [enrolled EXCEPT ![c] = leads]
      /\ stepsMade' = stepsMade /\ Exists(c) /\ contact' = contact
  BY DEF PausesCampaign
<1> HIDE DEF leads, row
<1>7. stepsMade' \in Nat /\ stepsMade <= stepsMade'
  BY <1>2, <1>6
<1>8. \A p \in 1..MaxPosition :
        \/ row.steps[p] \in {0, campaigns[c].steps[p]}
        \/ row.steps[p] > stepsMade /\ row.steps[p] <= stepsMade'
  BY <1>3
<1>9. row.status # "none"
  BY <1>3
<1> QED
  BY <1>3, <1>4, <1>5, <1>6, <1>7, <1>8, <1>9, RowChanges, Zenon

LEMMA NoRowTyped == NoRow \in CampaignRow /\ NoRow.steps = NoSteps
BY NothingTyped DEF NoRow, CampaignRow, CampaignStates

LEMMA DeletesKeeps ==
  ASSUME StoredTyped, NEW c \in Campaigns, DeletesCampaign(c), contact' = contact
  PROVE  StoredTyped' /\ StoredKept
<1> DEFINE row == [NoRow EXCEPT !.status = "gone"]
<1>1. row \in CampaignRow /\ row.status = "gone" /\ row.steps = NoSteps
  BY NoRowTyped DEF CampaignRow, CampaignStates
<1>2. "gone" \notin Kept /\ \A p \in 1..MaxPosition : NoSteps[p] = 0
  BY DEF Kept, NoSteps
<1>3. /\ campaigns' = [campaigns EXCEPT ![c] = row] /\ enrolled' = [enrolled EXCEPT ![c] = NoStatus]
      /\ stepsMade' = stepsMade /\ stepsMade \in Nat
  BY DEF DeletesCampaign, StoredTyped
<1> HIDE DEF row
<1>4. stepsMade' \in Nat /\ stepsMade <= stepsMade'
  BY <1>3
<1>5. \A p \in 1..MaxPosition :
        \/ row.steps[p] \in {0, campaigns[c].steps[p]}
        \/ row.steps[p] > stepsMade /\ row.steps[p] <= stepsMade'
  BY <1>1, <1>2
<1>6. row.status # "none" /\ row.status \notin Kept /\ NoStatus \in LeadRows
  BY <1>1, <1>2, NothingTyped
<1> QED
  BY <1>1, <1>3, <1>4, <1>5, <1>6, RowChanges, Zenon

\* What leaves the enrollments alone.
LEMMA OnlyRowChanges ==
  ASSUME StoredTyped, NEW c \in Campaigns, NEW row \in CampaignRow,
         campaigns' = [campaigns EXCEPT ![c] = row], UNCHANGED <<enrolled, contact>>,
         stepsMade' \in Nat, stepsMade <= stepsMade',
         Made(c) => row.status # "none", Made(c) /\ row.status \in Kept => Exists(c),
         \A p \in 1..MaxPosition :
           \/ row.steps[p] \in {0, campaigns[c].steps[p]}
           \/ row.steps[p] > stepsMade /\ row.steps[p] <= stepsMade'
  PROVE  StoredTyped' /\ StoredKept
<1>1. enrolled[c] \in LeadRows
  BY StoredFields
<1>2. enrolled' = [enrolled EXCEPT ![c] = enrolled[c]]
  BY DEF StoredTyped
<1> QED
  BY <1>1, <1>2, RowChanges

LEMMA CreatesKeeps ==
  ASSUME StoredTyped, NEW c \in Campaigns, NEW mailbox \in BOOLEAN, CreatesCampaign(c, mailbox),
         contact' = contact
  PROVE  StoredTyped' /\ StoredKept
<1> DEFINE row == [NoRow EXCEPT !.status = "DRAFT", !.mailbox = mailbox]
<1>1. row \in CampaignRow /\ row.status = "DRAFT" /\ row.steps = NoSteps
  BY NoRowTyped DEF CampaignRow, CampaignStates, Kept
<1>2. \A p \in 1..MaxPosition : NoSteps[p] = 0
  BY DEF NoSteps
<1>3. /\ campaigns' = [campaigns EXCEPT ![c] = row] /\ UNCHANGED <<enrolled, contact>>
      /\ stepsMade' = stepsMade /\ stepsMade \in Nat /\ ~Made(c)
  BY DEF CreatesCampaign, StoredTyped, Made
<1> HIDE DEF row
<1>4. stepsMade' \in Nat /\ stepsMade <= stepsMade'
  BY <1>3
<1>5. \A p \in 1..MaxPosition :
        \/ row.steps[p] \in {0, campaigns[c].steps[p]}
        \/ row.steps[p] > stepsMade /\ row.steps[p] <= stepsMade'
  BY <1>1, <1>2
<1> QED
  BY <1>1, <1>3, <1>4, <1>5, OnlyRowChanges, Zenon

LEMMA UpdatesKeeps ==
  ASSUME StoredTyped, NEW c \in Campaigns, NEW mailbox \in BOOLEAN, UpdatesCampaign(c, mailbox),
         contact' = contact
  PROVE  StoredTyped' /\ StoredKept
<1> DEFINE row == [campaigns[c] EXCEPT !.mailbox = campaigns[c].mailbox \/ mailbox]
<1>1. campaigns[c] \in CampaignRow /\ campaigns[c].mailbox \in BOOLEAN
  BY StoredFields
<1>2. (campaigns[c].mailbox \/ mailbox) \in BOOLEAN
  BY <1>1
<1>3. row \in CampaignRow /\ row.status = campaigns[c].status /\ row.steps = campaigns[c].steps
  BY <1>1, <1>2 DEF CampaignRow
<1>4. /\ campaigns' = [campaigns EXCEPT ![c] = row] /\ UNCHANGED <<enrolled, contact>>
      /\ stepsMade' = stepsMade /\ stepsMade \in Nat /\ Exists(c)
  BY DEF UpdatesCampaign, StoredTyped
<1> HIDE DEF row
<1>5. stepsMade' \in Nat /\ stepsMade <= stepsMade'
  BY <1>4
<1>6. \A p \in 1..MaxPosition :
        \/ row.steps[p] \in {0, campaigns[c].steps[p]}
        \/ row.steps[p] > stepsMade /\ row.steps[p] <= stepsMade'
  BY <1>3
<1>7. Made(c) => row.status # "none"
  BY <1>3 DEF Made
<1> QED
  BY <1>3, <1>4, <1>5, <1>6, <1>7, OnlyRowChanges, Zenon

LEMMA StoresStepKeeps ==
  ASSUME StoredTyped, NEW c \in Campaigns, NEW at \in Nat, StoresStep(c, at), contact' = contact
  PROVE  StoredTyped' /\ StoredKept
<1>1. CASE UNCHANGED <<campaigns, stepsMade>>
  <2>1. UNCHANGED storedVars
    BY <1>1 DEF StoresStep, storedVars
  <2>2. StoredTyped'
    BY <2>1 DEF StoredTyped, storedVars
  <2>3. stepsMade <= stepsMade'
    BY <2>1 DEF StoredTyped, storedVars
  <2> QED
    BY <2>1, <2>2, <2>3 DEF StoredKept, storedVars, Made, Exists
<1>2. CASE /\ stepsMade' = stepsMade + 1
           /\ campaigns' = [campaigns EXCEPT ![c].steps[at] = stepsMade + 1]
  <2> DEFINE steps == [campaigns[c].steps EXCEPT ![at] = stepsMade + 1]
             row == [campaigns[c] EXCEPT !.steps = steps]
  <2>1. campaigns[c] \in CampaignRow /\ campaigns[c].steps \in StepRows /\ stepsMade \in Nat
    BY StoredFields
  <2>2. steps \in StepRows
    <3>1. stepsMade + 1 \in Nat
      BY <2>1
    <3> HIDE DEF steps
    <3>2. \A f \in [1..MaxPosition -> Nat], n \in Nat : [f EXCEPT ![at] = n] \in [1..MaxPosition -> Nat]
      OBVIOUS
    <3> QED
      BY <2>1, <3>1, <3>2 DEF StepRows, steps
  <2>3. \A p \in 1..MaxPosition : steps[p] = IF p = at THEN stepsMade + 1 ELSE campaigns[c].steps[p]
    BY <2>1 DEF StepRows
  <2> HIDE DEF steps
  <2>4. row \in CampaignRow /\ row.status = campaigns[c].status /\ row.steps = steps
    BY <2>1, <2>2 DEF CampaignRow
  <2>5. campaigns' = [campaigns EXCEPT ![c] = row] /\ Exists(c) /\ UNCHANGED <<enrolled, contact>>
    BY <1>2 DEF StoresStep, steps
  <2> HIDE DEF row
  <2>6. stepsMade' \in Nat /\ stepsMade <= stepsMade' /\ stepsMade + 1 > stepsMade
    BY <1>2, <2>1
  <2>7. \A p \in 1..MaxPosition :
           \/ row.steps[p] \in {0, campaigns[c].steps[p]}
           \/ row.steps[p] > stepsMade /\ row.steps[p] <= stepsMade'
    BY <1>2, <2>1, <2>3, <2>4, <2>6
  <2> QED
    BY <2>4, <2>5, <2>6, <2>7, OnlyRowChanges DEF Made
<1> QED
  BY <1>1, <1>2 DEF StoresStep

LEMMA RemovesStepKeeps ==
  ASSUME StoredTyped, NEW c \in Campaigns, NEW id, RemovesStep(c, id), contact' = contact
  PROVE  StoredTyped' /\ StoredKept
<1>1. PICK at \in 1..MaxPosition : campaigns' = [campaigns EXCEPT ![c].steps[at] = 0]
  BY DEF RemovesStep
<1> DEFINE steps == [campaigns[c].steps EXCEPT ![at] = 0]
           row == [campaigns[c] EXCEPT !.steps = steps]
<1>2. campaigns[c] \in CampaignRow /\ campaigns[c].steps \in StepRows /\ stepsMade \in Nat
  BY StoredFields
<1>3. steps \in StepRows
  BY <1>2 DEF StepRows
<1>4. \A p \in 1..MaxPosition : steps[p] = IF p = at THEN 0 ELSE campaigns[c].steps[p]
  BY <1>2 DEF StepRows
<1> HIDE DEF steps
<1>5. row \in CampaignRow /\ row.status = campaigns[c].status /\ row.steps = steps
  BY <1>2, <1>3 DEF CampaignRow
<1>6. /\ campaigns' = [campaigns EXCEPT ![c] = row] /\ Exists(c) /\ UNCHANGED <<enrolled, contact>>
      /\ stepsMade' = stepsMade
  BY <1>1 DEF RemovesStep, steps
<1> HIDE DEF row
<1>7. \A p \in 1..MaxPosition : row.steps[p] \in {0, campaigns[c].steps[p]}
  BY <1>4, <1>5
<1>8. stepsMade' \in Nat /\ stepsMade <= stepsMade'
  BY <1>2, <1>6
<1>9. Made(c) => row.status # "none"
  BY <1>5 DEF Made
<1> QED
  BY <1>5, <1>6, <1>7, <1>8, <1>9, OnlyRowChanges, Zenon

LEMMA OthersStay ==
  ASSUME CampaignPageInv, NEW c \in Campaigns, ChangedByOthers(c)
  PROVE  CampaignPageInv'
<1>1. StoredTyped /\ contact' = contact /\ UNCHANGED <<cards, asking, said>>
  BY DEF CampaignPageInv, CardsTyped, ChangedByOthers
<1>2. StoredTyped' /\ StoredKept
  <2>1. CASE StartsCampaign(c)
    BY <1>1, <2>1, StartsKeeps
  <2>2. CASE PausesCampaign(c)
    BY <1>1, <2>2, PausesKeeps
  <2>3. CASE DeletesCampaign(c)
    BY <1>1, <2>3, DeletesKeeps
  <2>4. CASE \E mailbox \in BOOLEAN : CreatesCampaign(c, mailbox) \/ UpdatesCampaign(c, mailbox)
    BY <1>1, <2>4, CreatesKeeps, UpdatesKeeps
  <2>5. CASE \E p \in 1..MaxPosition : StoresStep(c, p) \/ RemovesStep(c, campaigns[c].steps[p])
    BY <1>1, <2>5, StoresStepKeeps, RemovesStepKeeps
  <2> QED
    BY <2>1, <2>2, <2>3, <2>4, <2>5 DEF ChangedByOthers
<1>3. CardsTyped'
  BY <1>1, <1>2 DEF CampaignPageInv, CardsTyped
<1>4. AsksKept(asking') /\ PageKept(cards', asking')
  BY <1>1, SameAsks, SamePage DEF CampaignPageInv
<1> QED
  BY <1>1, <1>2, <1>3, <1>4, AllStay

LEMMA ServeStays ==
  ASSUME CampaignPageInv, NEW r \in Slots, Serve(r)
  PROVE  CampaignPageInv'
<1>1. PICK c \in Campaigns :
        /\ asking[r].ask = "create" \/ c = asking[r].of
        /\ CASE asking[r].ask = "start" -> StartsCampaign(c)
             [] asking[r].ask = "pause" -> PausesCampaign(c)
             [] asking[r].ask = "delete" -> DeletesCampaign(c)
             [] asking[r].ask = "create" -> CreatesCampaign(c, asking[r].mailbox)
             [] asking[r].ask = "edit" -> UpdatesCampaign(c, asking[r].mailbox)
             [] asking[r].ask = "save" -> StoresStep(c, asking[r].step.at)
             [] asking[r].ask = "drop" -> RemovesStep(c, asking[r].step.row)
             [] OTHER -> FALSE
        /\ asking' = [asking EXCEPT ![r].pc = "answered", ![r].of = c]
  BY DEF Serve
<1>2. StoredTyped /\ contact' = contact /\ UNCHANGED <<cards, said>> /\ CardsTyped
  BY DEF CampaignPageInv, CardsTyped, Serve
<1>3. /\ asking[r] \in AskRow /\ asking[r].mailbox \in BOOLEAN /\ asking[r].step.at \in Nat
  BY <1>2, AskFields DEF AskRow, CardStep
<1> DEFINE ask == asking[r].ask
<1>4. ask \in {"start", "pause", "delete", "create", "edit", "save", "drop"}
  BY <1>1
<1>5. StoredTyped' /\ StoredKept
  <2>1. CASE ask = "start"
    BY <1>1, <1>2, <2>1, StartsKeeps
  <2>2. CASE ask = "pause"
    BY <1>1, <1>2, <2>2, PausesKeeps
  <2>3. CASE ask = "delete"
    BY <1>1, <1>2, <2>3, DeletesKeeps
  <2>4. CASE ask = "create"
    BY <1>1, <1>2, <1>3, <2>4, CreatesKeeps
  <2>5. CASE ask = "edit"
    BY <1>1, <1>2, <1>3, <2>5, UpdatesKeeps
  <2>6. CASE ask = "save"
    BY <1>1, <1>2, <1>3, <2>6, StoresStepKeeps
  <2>7. CASE ask = "drop"
    BY <1>1, <1>2, <2>7, RemovesStepKeeps
  <2> QED
    BY <1>4, <2>1, <2>2, <2>3, <2>4, <2>5, <2>6, <2>7
<1> DEFINE a == [asking[r] EXCEPT !.pc = "answered", !.of = c]
<1>6. /\ a \in AskRow /\ a.ask = ask /\ a.list = asking[r].list /\ a.step = asking[r].step
      /\ a.of = c /\ a.here = asking[r].here
  BY <1>3 DEF AskRow, SomeCampaign
<1>7. asking' = [asking EXCEPT ![r] = a]
  BY <1>1
<1> HIDE DEF a
<1>8. asking \in [Slots -> AskRow]
  BY <1>2 DEF CardsTyped
<1>9. asking' \in [Slots -> AskRow] /\ \A q \in Slots : asking'[q] = IF q = r THEN a ELSE asking[q]
  BY <1>6, <1>7, <1>8
<1>10. AsksKept(asking')
  <2>1. ask = "save" => a.of = asking[r].of
    BY <1>1, <1>6
  <2>2. StepAsks(asking')
    BY <1>6, <1>9, <2>1 DEF StepAsks
  <2>3. BatchAsks(asking')
    BY <1>4, <1>6, <1>9 DEF BatchAsks
  <2>4. RowAsks(asking')
    BY <1>4, <1>6, <1>9 DEF RowAsks, RowsHere
  <2> QED
    BY <2>2, <2>3, <2>4 DEF AsksKept
<1>11. CardsTyped'
  BY <1>2, <1>5, <1>9 DEF CardsTyped
<1>12. PageKept(cards', asking')
  BY <1>2, SamePage
<1> QED
  BY <1>2, <1>5, <1>10, <1>11, <1>12, AllStay

LEMMA NewStepStays ==
  ASSUME CampaignPageInv, NewStep
  PROVE  CampaignPageInv'
<1>1. cards \in PageCards /\ asking \in [Slots -> AskRow] /\ AsksKept(asking)
  BY SameAsks DEF CampaignPageInv, CardsTyped
<1>2. cards' = [cards EXCEPT !.editor = "new"] /\ UNCHANGED <<storedVars, asking, said>>
  BY DEF NewStep
<1>3. /\ cards' \in PageCards /\ cards'.list = cards.list /\ cards'.dialog = cards.dialog
      /\ cards'.step = cards.step /\ cards'.progress = cards.progress /\ cards'.picker = cards.picker
  BY <1>1, <1>2 DEF PageCards
<1> QED
  BY <1>1, <1>2, <1>3, PageTurns DEF PickerKept

\* A page that changes no more than the step that is edited, to none.
LEMMA StepLeaves ==
  ASSUME CampaignPageInv, cards' = [cards EXCEPT !.editor = "none", !.step = NoStep],
         asking' \in [Slots -> AskRow], AsksKept(asking'), UNCHANGED <<storedVars, said>>
  PROVE  CampaignPageInv'
<1>1. cards \in PageCards /\ NoStep \in CardStep
  BY NothingTyped DEF CampaignPageInv, CardsTyped
<1>2. /\ cards' \in PageCards /\ cards'.list = cards.list /\ cards'.dialog = cards.dialog
      /\ cards'.step = NoStep /\ cards'.progress = cards.progress /\ cards'.picker = cards.picker
  BY <1>1 DEF PageCards
<1>3. Mounted(cards') = Mounted(cards)
  BY <1>2 DEF Mounted
<1>4. PageKept(cards', asking')
  BY <1>2, <1>3 DEF PageKept, StepPage, ListKept, RowPage, PickerKept
<1> QED
  BY <1>2, <1>4, AsksTurn

LEMMA CancelEditStays ==
  ASSUME CampaignPageInv, CancelEdit
  PROVE  CampaignPageInv'
<1>1. asking \in [Slots -> AskRow] /\ AsksKept(asking)
  BY SameAsks DEF CampaignPageInv, CardsTyped
<1> QED
  BY <1>1, StepLeaves DEF CancelEdit

\* Requests of which the page hears less.
LEMMA LessHere ==
  ASSUME CardsTyped, NEW asks, NEW here \in [Slots -> SUBSET {"dialog", "editor"}],
         \A q \in Slots : here[q] \subseteq asking[q].here,
         asks = [q \in Slots |-> [asking[q] EXCEPT !.here = here[q]]]
  PROVE  asks \in [Slots -> AskRow] /\ AsksKept(asks)
<1>1. ASSUME NEW q \in Slots
      PROVE  /\ asks[q] \in AskRow /\ asks[q].here \subseteq asking[q].here
             /\ asks[q].list = asking[q].list /\ asks[q].ask = asking[q].ask
             /\ asks[q].of = asking[q].of /\ asks[q].step = asking[q].step /\ asks[q].pc = asking[q].pc
             /\ asks[q].then = asking[q].then /\ asks[q].leads = asking[q].leads
             /\ asks[q].fresh = asking[q].fresh /\ asks[q].count = asking[q].count
             /\ asks[q].filter = asking[q].filter /\ asks[q].rows = asking[q].rows
  <2>1. asking[q] \in AskRow /\ asks[q] = [asking[q] EXCEPT !.here = here[q]]
    BY AskFields
  <2>2. here[q] \in SUBSET {"dialog", "editor"} /\ here[q] \subseteq asking[q].here
    OBVIOUS
  <2>3. asks[q] \in AskRow
    BY <2>1, <2>2 DEF AskRow
  <2>4. asks[q].here = here[q]
    BY <2>1 DEF AskRow
  <2> QED
    BY <2>1, <2>2, <2>3, <2>4 DEF AskRow
<1>2. asks \in [Slots -> AskRow]
  BY <1>1
<1>3. StepAsks(asks)
  BY <1>1 DEF StepAsks
<1>4. BatchAsks(asks)
  BY <1>1 DEF BatchAsks
<1>5. RowAsks(asks)
  BY <1>1 DEF RowAsks, RowsHere
<1> QED
  BY <1>2, <1>3, <1>4, <1>5 DEF AsksKept

\* The step that is opened is the one the list shows.
LEMMA ShownFits ==
  ASSUME CardsTyped, StepsInv, InSteps, NEW p \in 1..MaxPosition, NEW step,
         step = [row |-> StepsShown[p], at |-> p, upto |-> StepsShown[p]]
  PROVE  step \in CardStep /\ cards.dialog.of \in Campaigns /\ StepFits(cards.dialog.of, step)
<1>1. Mounted(cards) = cards.dialog /\ cards.dialog.of \in Campaigns
  BY InStepsOf DEF InSteps
<1> DEFINE c == cards.dialog.of
<1>2. cards.list \in CardList /\ ListTold(cards.list)
  BY PageFields DEF StepsInv
<1>3. StepsShown[p] = cards.list.rows[c].steps[p]
  BY DEF StepsShown
<1>4. /\ cards.list.upto \in Nat /\ cards.list.rows[c].steps[p] \in Nat
  BY <1>1, <1>2, ListFields
<1>5. /\ cards.list.upto <= stepsMade /\ cards.list.rows[c].steps[p] <= cards.list.upto
      /\ campaigns[c].steps[p] \in {0, cards.list.rows[c].steps[p]}
           \/ campaigns[c].steps[p] > cards.list.upto
  BY <1>1, <1>2 DEF ListTold
<1>6. stepsMade \in Nat /\ campaigns[c].steps[p] \in Nat
  BY <1>1, StoredFields DEF CardsTyped
<1>7. step.row = StepsShown[p] /\ step.at = p /\ step.upto = StepsShown[p]
  OBVIOUS
<1>8. step \in CardStep
  <2>1. StepsShown[p] \in Nat
    BY <1>3, <1>4
  <2>2. p \in Nat
    OBVIOUS
  <2> QED
    BY <2>1, <2>2 DEF CardStep
<1>9. step.upto <= stepsMade
  <2>1. \A a, b, d \in Nat : a <= b /\ b <= d => a <= d
    OBVIOUS
  <2>2. StepsShown[p] \in Nat /\ StepsShown[p] <= cards.list.upto
    BY <1>3, <1>4, <1>5
  <2>3. StepsShown[p] <= stepsMade
    BY <1>4, <1>5, <1>6, <2>1, <2>2
  <2> QED
    BY <1>7, <2>3
<1>10. campaigns[c].steps[p] \in {0, step.row} \/ campaigns[c].steps[p] > step.upto
  <2>1. \A a, b, u \in Nat : b <= u /\ (a \in {0, b} \/ a > u) => a \in {0, b} \/ a > b
    OBVIOUS
  <2>2. campaigns[c].steps[p] \in {0, StepsShown[p]} \/ campaigns[c].steps[p] > StepsShown[p]
    BY <1>3, <1>4, <1>5, <1>6, <2>1
  <2> QED
    BY <1>7, <2>2
<1> QED
  BY <1>1, <1>7, <1>8, <1>9, <1>10 DEF StepFits

LEMMA EditStepStays ==
  ASSUME CampaignPageInv, NEW p \in 1..MaxPosition, EditStep(p)
  PROVE  CampaignPageInv'
<1> DEFINE step == [row |-> StepsShown[p], at |-> p, upto |-> StepsShown[p]]
<1>1. CardsTyped /\ StepsInv /\ InSteps /\ UNCHANGED <<storedVars, said>>
  BY DEF CampaignPageInv, EditStep
<1>2. step \in CardStep /\ cards.dialog.of \in Campaigns /\ StepFits(cards.dialog.of, step)
  BY <1>1, ShownFits
<1>3. /\ cards' = [cards EXCEPT !.editor = "edit", !.step = step]
      /\ asking' = IF cards.step.row = step.row THEN asking
                   ELSE [r \in Slots |-> [asking[r] EXCEPT !.here = @ \ {"editor"}]]
  BY DEF EditStep
<1> HIDE DEF step
<1>4. cards \in PageCards
  BY <1>1 DEF CardsTyped
<1>5. /\ cards' \in PageCards /\ cards'.list = cards.list /\ cards'.dialog = cards.dialog
      /\ cards'.step = step /\ cards'.progress = cards.progress /\ cards'.picker = cards.picker
  BY <1>2, <1>3, <1>4 DEF PageCards
<1>6. Mounted(cards') = Mounted(cards) /\ Mounted(cards) = cards.dialog
  BY <1>1, <1>5, InStepsOf DEF Mounted, InSteps
<1>7. asking' \in [Slots -> AskRow] /\ AsksKept(asking')
  <2>1. CASE cards.step.row = step.row
    BY <1>1, <1>3, <2>1, SameAsks DEF CardsTyped
  <2>2. CASE cards.step.row # step.row
    <3> DEFINE here == [q \in Slots |-> asking[q].here \ {"editor"}]
    <3>1. here \in [Slots -> SUBSET {"dialog", "editor"}]
      BY <1>1, AskFields
    <3>2. \A q \in Slots : here[q] \subseteq asking[q].here
      OBVIOUS
    <3>3. asking' = [q \in Slots |-> [asking[q] EXCEPT !.here = here[q]]]
      BY <1>3, <2>2
    <3> HIDE DEF here
    <3> QED
      BY <1>1, <3>1, <3>2, <3>3, LessHere
  <2> QED
    BY <2>1, <2>2
<1>8. StoredTyped' /\ StoredKept
  BY <1>1, SameStored
<1>9. CardsTyped'
  BY <1>1, <1>5, <1>7, <1>8 DEF CardsTyped
<1>10. FilterInv'
  BY <1>1, <1>5, <1>6, <1>7, RowsStay DEF CampaignPageInv, AsksKept, RowPage
<1>11. PickerInv'
  BY <1>1, <1>5, <1>7, <1>8, <1>9, PickerStays DEF CampaignPageInv, AsksKept, PickerKept
<1>12. StepsInv'
  <2>1. ListTold(cards.list)'
    BY <1>1, <1>5, <1>8, PageListStays DEF ListKept
  <2>2. ASSUME NEW q \in Slots
        PROVE  /\ ListTold(asking[q].list)'
               /\ asking'[q].ask = "save" => asking'[q].of \in Campaigns
                                             /\ StepFits(asking[q].of, asking[q].step)'
    <3>1. asking'[q] \in AskRow
      BY <1>7
    <3>2. /\ asking'[q].list \in {NoList, ListNow, asking[q].list}
          /\ asking'[q].ask = "save" =>
               asking'[q].of \in Campaigns /\ StepFits(asking'[q].of, asking'[q].step)
      BY <1>1, <1>7 DEF StepsInv, AsksKept, StepAsks
    <3> QED
      BY <1>1, <1>8, <3>1, <3>2, AskStays
  <2>3. StepFits(Mounted(cards).of, cards.step)'
    <3>1. Mounted(cards').of \in Campaigns /\ cards'.step \in CardStep
      BY <1>2, <1>5, <1>6
    <3>2. StepFits(Mounted(cards').of, cards'.step)
      BY <1>2, <1>5, <1>6
    <3> QED
      BY <1>1, <1>8, <3>1, <3>2, StepStays
  <2>4. \A c \in Campaigns, q \in 1..MaxPosition : campaigns'[c].steps[q] <= stepsMade'
    BY <1>1, <1>8, RowsOfStepsStay
  <2> QED
    BY <2>1, <2>2, <2>3, <2>4 DEF StepsInv
<1> QED
  BY <1>9, <1>10, <1>11, <1>12 DEF CampaignPageInv

\* The place for a new step is free in the list that is shown.
LEMMA NextIsFree ==
  ASSUME NEW steps \in StepRows
  PROVE  /\ NextPosition(steps) \in 1..MaxPosition + 1
         /\ NextPosition(steps) \in 1..MaxPosition => steps[NextPosition(steps)] = 0
<1> DEFINE Fits(n) == /\ \A p \in 1..MaxPosition : steps[p] # 0 => p < n
                      /\ n = 1 \/ steps[n - 1] # 0
           Used == {p \in 1..MaxPosition : steps[p] # 0}
<1>1. \E n \in 1..MaxPosition + 1 : Fits(n)
  <2>1. CASE Used = {}
    <3>1. 1 \in 1..MaxPosition + 1 /\ Fits(1)
      BY <2>1
    <3> QED
      BY <3>1
  <2>2. CASE Used # {}
    <3>1. PICK m \in Used : \A p \in Used : m >= p
      BY <2>2, GreatestOfSome
    <3>2. m + 1 \in 1..MaxPosition + 1 /\ (m + 1) - 1 = m
      BY <3>1
    <3>3. \A p \in 1..MaxPosition : steps[p] # 0 => p < m + 1
      BY <3>1
    <3>4. Fits(m + 1)
      BY <3>1, <3>2, <3>3
    <3> QED
      BY <3>2, <3>4
  <2> QED
    BY <2>1, <2>2
<1>2. NextPosition(steps) = CHOOSE n \in 1..MaxPosition + 1 : Fits(n)
  BY DEF NextPosition
<1>3. NextPosition(steps) \in 1..MaxPosition + 1 /\ Fits(NextPosition(steps))
  <2> HIDE DEF Fits
  <2> QED
    BY <1>1, <1>2
<1>4. \A p \in 1..MaxPosition : steps[p] # 0 => p < NextPosition(steps)
  BY <1>3
<1>5. \A p \in 1..MaxPosition : ~(p < p)
  OBVIOUS
<1> QED
  BY <1>3, <1>4, <1>5

LEMMA NextFits ==
  ASSUME CardsTyped, StepsInv, InSteps, NEW step,
         step = [row |-> 0, at |-> NextPosition(StepsShown), upto |-> cards.list.upto]
  PROVE  step \in CardStep /\ StepFits(cards.dialog.of, step)
<1> DEFINE c == cards.dialog.of
<1>1. c \in Campaigns
  BY InStepsOf DEF InSteps
<1>2. cards.list \in CardList /\ ListTold(cards.list)
  BY PageFields DEF StepsInv
<1>3. StepsShown = cards.list.rows[c].steps /\ StepsShown \in StepRows /\ cards.list.upto \in Nat
  BY <1>1, <1>2, ListFields DEF StepsShown
<1>4. step.row = 0 /\ step.at = NextPosition(StepsShown) /\ step.upto = cards.list.upto
  OBVIOUS
<1>5. step.upto <= stepsMade
  BY <1>2, <1>4 DEF ListTold
<1>6. ASSUME step.at \in 1..MaxPosition
      PROVE  campaigns[c].steps[step.at] \in {0, step.row} \/ campaigns[c].steps[step.at] > step.upto
  <2>1. StepsShown[step.at] = 0
    BY <1>3, <1>4, <1>6, NextIsFree
  <2>2. \/ campaigns[c].steps[step.at] \in {0, cards.list.rows[c].steps[step.at]}
        \/ campaigns[c].steps[step.at] > cards.list.upto
    BY <1>1, <1>2, <1>6 DEF ListTold
  <2> QED
    BY <1>3, <1>4, <2>1, <2>2
<1>7. step \in CardStep
  <2>1. NextPosition(StepsShown) \in Nat
    BY <1>3, NextIsFree
  <2> QED
    BY <1>3, <2>1 DEF CardStep
<1> QED
  BY <1>5, <1>6, <1>7 DEF StepFits

LEMMA SubmitStepStays ==
  ASSUME CampaignPageInv, NEW r \in Slots, SubmitStep(r)
  PROVE  CampaignPageInv'
<1> DEFINE fresh == [row |-> 0, at |-> NextPosition(StepsShown), upto |-> cards.list.upto]
           s == IF cards.editor = "new" THEN fresh ELSE cards.step
           b == Requested("save", cards.dialog.of, {"dialog", "editor"})
           a == [b EXCEPT !.step = s]
<1>1. CardsTyped /\ StepsInv /\ InSteps /\ UNCHANGED <<storedVars, cards, said>>
  BY DEF CampaignPageInv, SubmitStep
<1>2. asking' = [asking EXCEPT ![r] = a]
  BY DEF SubmitStep
<1>3. Mounted(cards) = cards.dialog /\ cards.dialog.of \in Campaigns
  BY <1>1, InStepsOf DEF InSteps
<1>4. s \in CardStep /\ StepFits(cards.dialog.of, s)
  <2>1. fresh \in CardStep /\ StepFits(cards.dialog.of, fresh)
    BY <1>1, NextFits
  <2>2. cards.step \in CardStep /\ StepFits(cards.dialog.of, cards.step)
    BY <1>1, <1>3, PageFields DEF StepsInv, InSteps
  <2> HIDE DEF fresh
  <2> QED
    BY <2>1, <2>2
<1>5. b \in AskRow /\ b.ask = "save" /\ b.of = cards.dialog.of /\ b.list = NoList
  BY <1>3, RequestTyped DEF PageAsks, SomeCampaign
<1> HIDE DEF b, s
<1>6. a \in AskRow /\ a.ask = "save" /\ a.of = cards.dialog.of /\ a.list = NoList /\ a.step = s
  BY <1>4, <1>5 DEF AskRow
<1> HIDE DEF a
<1>7. asking' \in [Slots -> AskRow] /\ \A q \in Slots : asking'[q] = IF q = r THEN a ELSE asking[q]
  BY <1>1, <1>2, <1>6 DEF CardsTyped
<1>8. StoredTyped' /\ StoredKept
  BY <1>1, SameStored
<1>9. CardsTyped'
  BY <1>1, <1>7, <1>8 DEF CardsTyped
<1>10. BatchAsks(asking') /\ RowAsks(asking')
  <2>1. BatchAsks(asking')
    BY <1>6, <1>7 DEF BatchAsks
  <2>2. RowAsks(asking')
    BY <1>6, <1>7 DEF RowAsks, RowsHere
  <2> QED
    BY <2>1, <2>2
<1>11. PickerKept(cards'.picker) /\ RowPage(cards', asking') /\ ListKept(cards'.list)
  BY <1>1 DEF PickerKept, RowPage, ListKept
<1>12. PickerInv'
  BY <1>1, <1>8, <1>9, <1>10, <1>11, PickerStays DEF CampaignPageInv
<1>13. FilterInv'
  BY <1>1, <1>10, <1>11, RowsStay DEF CampaignPageInv
<1>14. StepsInv'
  <2>1. ASSUME NEW q \in Slots
        PROVE  /\ ListTold(asking[q].list)'
               /\ asking'[q].ask = "save" => asking'[q].of \in Campaigns
                                             /\ StepFits(asking[q].of, asking[q].step)'
    <3>1. asking'[q] \in AskRow
      BY <1>7
    <3>2. /\ asking'[q].list \in {NoList, ListNow, asking[q].list}
          /\ asking'[q].ask = "save" =>
               asking'[q].of \in Campaigns /\ StepFits(asking'[q].of, asking'[q].step)
      BY <1>1, <1>3, <1>4, <1>6, <1>7 DEF StepsInv
    <3> QED
      BY <1>1, <1>8, <3>1, <3>2, AskStays
  <2>2. ListTold(cards.list)'
    BY <1>1, <1>8, <1>11, PageListStays
  <2>3. StepFits(Mounted(cards).of, cards.step)'
    <3>1. cards'.step \in CardStep /\ Mounted(cards').of \in Campaigns
          /\ StepFits(Mounted(cards').of, cards'.step)
      BY <1>1, <1>3, PageFields DEF StepsInv, InSteps
    <3> QED
      BY <1>1, <1>8, <3>1, StepStays
  <2>4. \A c \in Campaigns, q \in 1..MaxPosition : campaigns'[c].steps[q] <= stepsMade'
    BY <1>1, <1>8, RowsOfStepsStay
  <2> QED
    BY <2>1, <2>2, <2>3, <2>4 DEF StepsInv
<1> QED
  BY <1>9, <1>12, <1>13, <1>14 DEF CampaignPageInv

LEMMA RemoveStepStays ==
  ASSUME CampaignPageInv, NEW r \in Slots, NEW p \in 1..MaxPosition, RemoveStep(r, p)
  PROVE  CampaignPageInv'
<1> DEFINE b == Requested("drop", cards.dialog.of, {"dialog"})
           a == [b EXCEPT !.step.row = StepsShown[p]]
<1>1. CardsTyped /\ StepsInv /\ InSteps /\ UNCHANGED <<storedVars, cards, said>>
  BY DEF CampaignPageInv, RemoveStep
<1>2. cards.dialog.of \in Campaigns /\ cards.list \in CardList
  BY <1>1, InStepsOf, PageFields DEF InSteps
<1>3. StepsShown[p] \in Nat
  BY <1>2, ListFields DEF StepsShown
<1>4. b \in AskRow /\ b.ask = "drop" /\ b.list = NoList
  BY <1>2, RequestTyped DEF PageAsks, SomeCampaign
<1>5. asking' = [asking EXCEPT ![r] = a]
  BY DEF RemoveStep
<1> HIDE DEF b
<1>6. a \in AskRow /\ a.ask = "drop" /\ a.list = NoList
  <2>1. b.step \in CardStep
    BY <1>4 DEF AskRow
  <2>2. [b.step EXCEPT !.row = StepsShown[p]] \in CardStep
    BY <1>3, <2>1 DEF CardStep
  <2>3. a = [b EXCEPT !.step = [b.step EXCEPT !.row = StepsShown[p]]]
    OBVIOUS
  <2> HIDE DEF a
  <2> QED
    BY <1>4, <2>2, <2>3 DEF AskRow
<1> HIDE DEF a
<1> QED
  BY <1>1, <1>5, <1>6, AskTurns

LEMMA StepAnsweredStays ==
  ASSUME CampaignPageInv, NEW r \in Slots, StepAnswered(r)
  PROVE  CampaignPageInv'
<1>1. CardsTyped /\ UNCHANGED <<storedVars, said>> /\ asking[r].ask \in {"save", "drop"}
  BY DEF CampaignPageInv, StepAnswered
<1>2. CASE asking' = [asking EXCEPT ![r] = NoAsk] /\ UNCHANGED cards
  BY <1>1, <1>2, NoAskTyped, AskTurns
<1>3. ASSUME ~(asking' = [asking EXCEPT ![r] = NoAsk] /\ UNCHANGED cards)
      PROVE  CampaignPageInv'
  <2> DEFINE closes == asking[r].ask = "save" /\ "dialog" \in asking[r].here
             a == ReadAgain(asking[r].ask, asking[r].of, asking[r].here \ {"editor"})
             here == [q \in Slots |-> IF closes THEN asking[q].here \ {"editor"} ELSE asking[q].here]
             less == [q \in Slots |-> [asking[q] EXCEPT !.here = here[q]]]
  <2>1. /\ cards' = IF ~closes THEN cards ELSE [cards EXCEPT !.editor = "none", !.step = NoStep]
        /\ asking' = [q \in Slots |-> IF q = r THEN a
                        ELSE IF closes THEN [asking[q] EXCEPT !.here = @ \ {"editor"}]
                        ELSE asking[q]]
    BY <1>3 DEF StepAnswered
  <2>2. a \in AskRow /\ a.ask = "load" /\ a.list = NoList
    BY <1>1, AskFields, ReadTyped
  <2> HIDE DEF a, closes
  <2>3. less \in [Slots -> AskRow] /\ AsksKept(less)
    <3>1. here \in [Slots -> SUBSET {"dialog", "editor"}]
      BY <1>1, AskFields
    <3>2. \A q \in Slots : here[q] \subseteq asking[q].here
      OBVIOUS
    <3> HIDE DEF here
    <3> QED
      BY <1>1, <3>1, <3>2, LessHere
  <2>4. ASSUME NEW q \in Slots
        PROVE  asking'[q] = IF q = r THEN a ELSE less[q]
    <3>1. asking[q] \in AskRow
      BY <1>1, AskFields
    <3>2. [asking[q] EXCEPT !.here = asking[q].here] = asking[q]
      BY <3>1 DEF AskRow
    <3>3. less[q] = [asking[q] EXCEPT !.here =
                       IF closes THEN asking[q].here \ {"editor"} ELSE asking[q].here]
      OBVIOUS
    <3> HIDE DEF less
    <3> QED
      BY <2>1, <3>2, <3>3
  <2> HIDE DEF less, here
  <2>5. asking' \in [Slots -> AskRow]
    <3>1. \A q \in Slots : asking'[q] \in AskRow
      BY <2>2, <2>3, <2>4
    <3>2. asking' = [q \in Slots |-> asking'[q]]
      BY <2>1
    <3> QED
      BY <3>1, <3>2
  <2>6. AsksKept(asking')
    BY <2>2, <2>3, <2>4 DEF AsksKept, StepAsks, BatchAsks, RowAsks
  <2>7. CASE closes
    BY <1>1, <2>1, <2>5, <2>6, <2>7, StepLeaves
  <2>8. CASE ~closes
    <3>1. cards' = cards
      BY <2>1, <2>8
    <3>2. cards' \in PageCards /\ PageKept(cards', asking')
      BY <1>1, <3>1, SamePage, PageFields
    <3> QED
      BY <1>1, <2>5, <2>6, <3>2, AsksTurn
  <2> QED
    BY <2>7, <2>8
<1> QED
  BY <1>2, <1>3

\* Only the picker changes in the page.
LEMMA PickerTurns ==
  ASSUME CardsTyped, NEW v \in PickerRow, cards' = [cards EXCEPT !.picker = v]
  PROVE  /\ cards' \in PageCards /\ cards'.list = cards.list /\ cards'.dialog = cards.dialog
         /\ cards'.step = cards.step /\ cards'.progress = cards.progress /\ cards'.picker = v
         /\ Mounted(cards') = Mounted(cards) /\ StepPage(cards') /\ RowPage(cards', asking')
<1>1. cards \in PageCards
  BY PageFields
<1>2. /\ cards' \in PageCards /\ cards'.list = cards.list /\ cards'.dialog = cards.dialog
      /\ cards'.step = cards.step /\ cards'.progress = cards.progress /\ cards'.picker = v
  BY <1>1 DEF PageCards
<1>3. Mounted(cards') = Mounted(cards)
  BY <1>2 DEF Mounted
<1> QED
  BY <1>2, <1>3 DEF StepPage, RowPage, ListKept

LEMMA PickerLoadsStays ==
  ASSUME CampaignPageInv, PickerLoads
  PROVE  CampaignPageInv'
<1>1. CardsTyped /\ UNCHANGED <<storedVars, asking, said>>
  BY DEF CampaignPageInv, PickerLoads
<1>2. PICK offered \in SUBSET People :
        cards' = [cards EXCEPT !.picker.pc = "ready", !.picker.offered = offered]
  BY DEF PickerLoads
<1> DEFINE v == [cards.picker EXCEPT !.pc = "ready", !.offered = offered]
<1>3. cards.picker \in PickerRow /\ cards.picker.pc = "loading"
  BY <1>1, PageFields DEF PickerLoads, Picking
<1>4. v \in PickerRow /\ v.pc = "ready" /\ v.of = cards.picker.of
  BY <1>2, <1>3 DEF PickerRow
<1>5. cards' = [cards EXCEPT !.picker = v]
  BY <1>2
<1> HIDE DEF v
<1>6. PickerKept(v)
  <2>1. cards.picker.of \in Campaigns /\ Made(cards.picker.of)
    BY <1>3 DEF CampaignPageInv, PickerInv, PickerFits
  <2> QED
    BY <1>3, <1>4, <2>1 DEF PickerKept
<1>7. asking' \in [Slots -> AskRow] /\ AsksKept(asking')
  BY <1>1, SameAsks DEF CardsTyped
<1> QED
  BY <1>1, <1>4, <1>5, <1>6, <1>7, PickerTurns, PageTurns

LEMMA SelectLeadsStays ==
  ASSUME CampaignPageInv, NEW leads \in SUBSET People, SelectLeads(leads)
  PROVE  CampaignPageInv'
<1>1. CardsTyped /\ UNCHANGED <<storedVars, asking, said>>
  BY DEF CampaignPageInv, SelectLeads
<1> DEFINE v == [cards.picker EXCEPT !.selected = leads]
<1>2. cards.picker \in PickerRow
  BY <1>1, PageFields
<1>3. /\ v \in PickerRow /\ v.pc = cards.picker.pc /\ v.of = cards.picker.of
      /\ v.ids = cards.picker.ids /\ v.left = cards.picker.left /\ v.total = cards.picker.total
  BY <1>2 DEF PickerRow
<1>4. cards' = [cards EXCEPT !.picker = v]
  BY DEF SelectLeads
<1> HIDE DEF v
<1>5. PickerKept(v)
  BY <1>3 DEF PickerKept
<1>6. asking' \in [Slots -> AskRow] /\ AsksKept(asking')
  BY <1>1, SameAsks DEF CardsTyped
<1> QED
  BY <1>1, <1>3, <1>4, <1>5, <1>6, PickerTurns, PageTurns

\* What only the family of the picker hears of.
LEMMA PickerHears ==
  ASSUME CampaignPageInv, CardsTyped', StoredKept, StepAsks(asking'), StepPage(cards'),
         RowAsks(asking'), RowPage(cards', asking'), PickerInv'
  PROVE  CampaignPageInv'
<1>1. StepsInv' /\ FilterInv'
  BY StepsStay, RowsStay DEF CampaignPageInv
<1> QED
  BY <1>1 DEF CampaignPageInv

LEMMA NewPickerFits ==
  ASSUME StoredKept, NEW v \in PickerRow, v.pc = "saving", v.of \in Campaigns, Made(v.of),
         v.ids = v.left, v.total = NoCount
  PROVE  PickerFits(v)'
<1>1. Made(v.of)'
  BY DEF StoredKept
<1>2. v.ids \in SUBSET People /\ Cardinality(v.ids) \in Nat
  BY PickerFields, MissingTyped
<1>3. Counted(v.total) + Cardinality(v.left) = Cardinality(v.ids)
  BY <1>2 DEF Counted, NoCount
<1>4. v.total.without = 0 /\ v.ids \ v.left = {}
  BY DEF NoCount
<1>5. Missing(v.of, v.ids \ v.left)' = {}
  BY <1>4 DEF Missing
<1>6. Cardinality({}) = 0
  BY FS_EmptySet
<1>7. Cardinality(Missing(v.of, v.ids \ v.left)') <= v.total.without
  BY <1>4, <1>5, <1>6
<1> QED
  BY <1>1, <1>3, <1>4, <1>7 DEF PickerFits, MissingAtMost

LEMMA SubmitPickerStays ==
  ASSUME CampaignPageInv, SubmitPicker
  PROVE  CampaignPageInv'
<1>1. CardsTyped /\ PickerInv /\ UNCHANGED <<storedVars, asking, said>>
  BY DEF CampaignPageInv, SubmitPicker
<1> DEFINE v == [cards.picker EXCEPT !.pc = "saving", !.ids = cards.picker.selected,
                                     !.left = cards.picker.selected, !.total = NoCount]
<1>2. cards.picker \in PickerRow /\ cards.picker.pc = "ready"
  BY <1>1, PageFields DEF SubmitPicker, Picking
<1>3. /\ v \in PickerRow /\ v.pc = "saving" /\ v.of = cards.picker.of
      /\ v.ids = v.left /\ v.total = NoCount
  BY <1>2, NothingTyped DEF PickerRow
<1>4. cards' = [cards EXCEPT !.picker = v]
  BY DEF SubmitPicker
<1> HIDE DEF v
<1>5. /\ cards' \in PageCards /\ cards'.picker = v /\ StepPage(cards') /\ RowPage(cards', asking')
  BY <1>1, <1>3, <1>4, PickerTurns
<1>6. StoredTyped' /\ StoredKept
  BY <1>1, SameStored
<1>7. CardsTyped'
  BY <1>1, <1>5, <1>6 DEF CardsTyped
<1>8. AsksKept(asking')
  BY <1>1, SameAsks
<1>9. PickerFits(cards.picker)'
  <2>1. v.of \in Campaigns /\ Made(v.of)
    BY <1>1, <1>2, <1>3 DEF PickerInv, PickerFits
  <2>2. /\ cards'.picker \in PickerRow /\ cards'.picker.pc = "saving"
        /\ cards'.picker.of \in Campaigns /\ Made(cards'.picker.of)
        /\ cards'.picker.ids = cards'.picker.left /\ cards'.picker.total = NoCount
    BY <1>3, <1>5, <2>1
  <2> QED
    BY <1>6, <2>2, NewPickerFits
<1>10. OneLoop'
  BY <1>1, <1>2 DEF PickerInv, OneLoop, Looping
<1>11. PickerInv'
  BY <1>1, <1>6, <1>7, <1>8, <1>9, <1>10, BatchesStay, SaidStays DEF PickerInv, AsksKept
<1> QED
  BY <1>5, <1>6, <1>7, <1>8, <1>11, PickerHears DEF AsksKept

\* One batch changes.
LEMMA OneBatch ==
  ASSUME CardsTyped, NEW r \in Slots, NEW a \in AskRow, asking' = [asking EXCEPT ![r] = a],
         a.list \in {NoList, ListNow, asking[r].list}, a.ask = "enroll"
  PROVE  /\ asking' \in [Slots -> AskRow] /\ StepAsks(asking') /\ RowAsks(asking')
         /\ \A q \in Slots : asking'[q] = IF q = r THEN a ELSE asking[q]
<1>1. asking \in [Slots -> AskRow]
  BY DEF CardsTyped
<1>2. asking' \in [Slots -> AskRow]
  BY <1>1
<1>3. \A q \in Slots : asking'[q] = IF q = r THEN a ELSE asking[q]
  BY <1>1
<1>4. StepAsks(asking')
  BY <1>3 DEF StepAsks
<1>5. RowAsks(asking')
  BY <1>3 DEF RowAsks, RowsHere
<1> QED
  BY <1>2, <1>3, <1>4, <1>5

LEMMA OtherBatches ==
  ASSUME CardsTyped, CardsTyped', PickerInv, StoredKept, NEW r \in Slots,
         \A q \in Slots : q # r => asking'[q] = asking[q],
         asking'[r].ask = "enroll" => BatchFits(asking[r])'
  PROVE  \A q \in Slots : asking'[q].ask = "enroll" => BatchFits(asking[q])'
<1> TAKE q \in Slots
<1> HAVE asking'[q].ask = "enroll"
<1>1. CASE q = r
  BY <1>1
<1>2. CASE q # r
  <2>1. asking'[q] = asking[q] /\ asking'[q] \in AskRow /\ asking[q].ask = "enroll"
    BY <1>2 DEF CardsTyped
  <2> QED
    BY <2>1, BatchStays
<1> QED
  BY <1>1, <1>2

\* The page and what is stored stay: a batch is sent, or read.
LEMMA BatchTurns ==
  ASSUME CampaignPageInv, NEW r \in Slots, NEW a \in AskRow, asking' = [asking EXCEPT ![r] = a],
         a.list \in {NoList, ListNow, asking[r].list}, a.ask = "enroll",
         UNCHANGED <<storedVars, cards, said>>, BatchFits(a), OneLoop'
  PROVE  CampaignPageInv'
<1>1. CardsTyped /\ PickerInv
  BY DEF CampaignPageInv
<1>2. /\ asking' \in [Slots -> AskRow] /\ StepAsks(asking') /\ RowAsks(asking')
      /\ \A q \in Slots : asking'[q] = IF q = r THEN a ELSE asking[q]
  BY <1>1, OneBatch
<1>3. StoredTyped' /\ StoredKept
  BY <1>1, SameStored
<1>4. CardsTyped'
  BY <1>1, <1>2, <1>3 DEF CardsTyped
<1>5. BatchFits(asking[r])'
  <2>1. asking'[r] = a
    BY <1>2
  <2>2. BatchFits(a)'
    BY DEF BatchFits, MissingAtMost, Missing, Made, Exists, storedVars
  <2> QED
    BY <2>1, <2>2 DEF BatchFits, MissingAtMost, Missing, Made, Exists
<1>6. \A q \in Slots : asking'[q].ask = "enroll" => BatchFits(asking[q])'
  BY <1>1, <1>2, <1>3, <1>4, <1>5, OtherBatches
<1>7. PickerKept(cards'.picker) /\ cards'.picker \in PickerRow
  BY <1>1, PageFields DEF PickerKept
<1>8. PickerFits(cards.picker)'
  BY <1>1, <1>3, <1>7, PickerFitsStays
<1>9. PickerInv'
  BY <1>1, <1>3, <1>6, <1>8, SaidStays DEF PickerInv
<1>10. StepPage(cards') /\ RowPage(cards', asking')
  BY DEF StepPage, ListKept, RowPage
<1> QED
  BY <1>2, <1>3, <1>4, <1>9, <1>10, PickerHears

LEMMA SliceOfSome ==
  ASSUME NEW some, NEW all, all # {}, IsSlice(some, all, Batch)
  PROVE  some # {} /\ some \subseteq all
<1>1. Cardinality({}) = 0 /\ Batch # 0
  BY FS_EmptySet
<1> QED
  BY <1>1 DEF IsSlice

LEMMA SendBatchStays ==
  ASSUME CampaignPageInv, NEW r \in Slots, NEW leads \in SUBSET People, SendBatch(r, leads)
  PROVE  CampaignPageInv'
<1> DEFINE b == Requested("enroll", cards.picker.of, {})
           a == [b EXCEPT !.leads = leads, !.then = "loop"]
<1>1. CardsTyped /\ PickerInv /\ UNCHANGED <<storedVars, cards, said>>
  BY DEF CampaignPageInv, SendBatch
<1>2. cards.picker.of \in Campaigns /\ Made(cards.picker.of) /\ cards.picker.pc = "saving"
  BY <1>1 DEF PickerInv, PickerFits, SendBatch
<1>3. b \in AskRow /\ b.ask = "enroll" /\ b.of = cards.picker.of /\ b.list = NoList /\ b.pc = "sent"
  BY <1>2, RequestTyped DEF PageAsks, SomeCampaign
<1>4. asking' = [asking EXCEPT ![r] = a]
  BY DEF SendBatch
<1> HIDE DEF b
<1>5. /\ a \in AskRow /\ a.ask = "enroll" /\ a.of = cards.picker.of /\ a.list = NoList
      /\ a.pc = "sent" /\ a.leads = leads
  BY <1>3 DEF AskRow
<1> HIDE DEF a
<1>6. BatchFits(a)
  BY <1>2, <1>5 DEF BatchFits
<1>7. \A q \in Slots : asking'[q] = IF q = r THEN a ELSE asking[q]
  BY <1>1, <1>4 DEF CardsTyped
<1>8. leads # {} /\ leads \subseteq cards.picker.left
  BY SliceOfSome DEF SendBatch
<1>9. OneLoop'
  <2>1. \A q \in Slots : Looping(q)' => q = r
    BY <1>7 DEF SendBatch, Looping
  <2> QED
    BY <1>1, <1>2, <1>5, <1>7, <1>8, <2>1 DEF OneLoop
<1> QED
  BY <1>1, <1>4, <1>5, <1>6, <1>9, BatchTurns

\* A batch whose place in the loop is as it was.
LEMMA LoopGoesOn ==
  ASSUME CardsTyped, PickerInv, NEW r \in Slots, NEW a, asking[r].ask = "enroll", a.ask = "enroll",
         \A q \in Slots : asking'[q] = IF q = r THEN a ELSE asking[q],
         a.then = asking[r].then, a.of = asking[r].of, a.leads = asking[r].leads, cards' = cards
  PROVE  OneLoop'
<1>1. \A q \in Slots : (Looping(q)' <=> Looping(q)) /\ asking'[q].of = asking[q].of
                          /\ asking'[q].leads = asking[q].leads
  BY DEF Looping
<1>2. OneLoop
  BY DEF PickerInv
<1> QED
  BY <1>1, <1>2 DEF OneLoop

\* Of the leads that were read, all that are not enrolled by then have no address.
LEMMA LeadsRead ==
  ASSUME CardsTyped, NEW c, NEW leads \in SUBSET People,
         NEW reached, reached = {l \in leads : contact[l] = "with"},
         NEW fresh, fresh = {l \in reached : enrolled[c][l] = "none"},
         NEW count, count = [enrolled |-> Cardinality(fresh),
                             already |-> Cardinality(reached) - Cardinality(fresh),
                             without |-> Cardinality(leads) - Cardinality(reached)]
  PROVE  /\ fresh \in SUBSET People /\ count \in Counts /\ Counted(count) = Cardinality(leads)
         /\ MissingAtMost(c, leads \ fresh, count)
<1>1. fresh \subseteq reached /\ reached \subseteq leads
  OBVIOUS
<1>2. /\ IsFiniteSet(leads) /\ IsFiniteSet(reached) /\ IsFiniteSet(fresh)
      /\ Cardinality(leads) \in Nat /\ Cardinality(reached) \in Nat /\ Cardinality(fresh) \in Nat
  <2>1. leads \in SUBSET People /\ reached \in SUBSET People /\ fresh \in SUBSET People
    BY <1>1
  <2> QED
    BY <2>1, MissingTyped
<1>3. Cardinality(fresh) <= Cardinality(reached) /\ Cardinality(reached) <= Cardinality(leads)
  BY <1>1, <1>2, FS_Subset
<1>4. count.enrolled = Cardinality(fresh) /\ count.already = Cardinality(reached) - Cardinality(fresh)
      /\ count.without = Cardinality(leads) - Cardinality(reached)
  OBVIOUS
<1>5. count \in Counts
  BY <1>2, <1>3 DEF Counts
<1>6. Counted(count) = Cardinality(leads)
  BY <1>2, <1>4 DEF Counted
<1>7. Missing(c, leads \ fresh) \subseteq leads \ reached
  BY DEF Missing
<1>8. IsFiniteSet(leads \ reached) /\ Cardinality(leads \ reached) = Cardinality(leads) - Cardinality(reached)
  <2>1. leads \cap reached = reached
    BY <1>1
  <2>2. IsFiniteSet(leads)
    BY <1>2
  <2>3. /\ IsFiniteSet(leads \ reached)
        /\ Cardinality(leads \ reached) = Cardinality(leads) - Cardinality(leads \cap reached)
    BY <2>2, FS_Difference, Zenon
  <2> QED
    BY <2>1, <2>3
<1>9. Cardinality(Missing(c, leads \ fresh)) <= count.without
  BY <1>4, <1>7, <1>8, FS_Subset
<1> QED
  BY <1>1, <1>5, <1>6, <1>9 DEF MissingAtMost

LEMMA ReadsLeadsStays ==
  ASSUME CampaignPageInv, NEW r \in Slots, ReadsLeads(r)
  PROVE  CampaignPageInv'
<1> DEFINE leads == asking[r].leads
           reached == {l \in leads : contact[l] = "with"}
           fresh == {l \in reached : enrolled[asking[r].of][l] = "none"}
           count == [enrolled |-> Cardinality(fresh),
                     already |-> Cardinality(reached) - Cardinality(fresh),
                     without |-> Cardinality(leads) - Cardinality(reached)]
           a == [asking[r] EXCEPT !.pc = "read", !.fresh = fresh, !.count = count]
<1>1. /\ CardsTyped /\ PickerInv /\ UNCHANGED <<storedVars, cards, said>>
      /\ asking[r].ask = "enroll"
  BY DEF CampaignPageInv, ReadsLeads
<1>2. asking[r] \in AskRow /\ leads \in SUBSET People
  BY <1>1, AskFields
<1>3. /\ fresh \in SUBSET People /\ count \in Counts /\ Counted(count) = Cardinality(leads)
      /\ MissingAtMost(asking[r].of, leads \ fresh, count)
  BY <1>1, <1>2, LeadsRead
<1>4. asking' = [asking EXCEPT ![r] = a]
  BY DEF ReadsLeads
<1> HIDE DEF fresh, count
<1>5. /\ a \in AskRow /\ a.ask = "enroll" /\ a.pc = "read" /\ a.fresh = fresh /\ a.count = count
      /\ a.leads = leads /\ a.of = asking[r].of /\ a.then = asking[r].then /\ a.list = asking[r].list
  BY <1>1, <1>2, <1>3 DEF AskRow
<1> HIDE DEF a
<1>6. BatchFits(a)
  <2>1. a.of \in Campaigns /\ Made(a.of)
    BY <1>1, <1>5 DEF PickerInv, BatchFits
  <2> QED
    BY <1>3, <1>5, <2>1 DEF BatchFits
<1>7. \A q \in Slots : asking'[q] = IF q = r THEN a ELSE asking[q]
  BY <1>1, <1>4 DEF CardsTyped
<1>8. OneLoop'
  BY <1>1, <1>5, <1>7, LoopGoesOn
<1> QED
  BY <1>1, <1>4, <1>5, <1>6, <1>8, BatchTurns

LEMMA LeadsEnrolled ==
  ASSUME StoredKept, NEW c \in Campaigns, Made(c), NEW S \in SUBSET People, NEW F,
         NEW n \in Counts, MissingAtMost(c, S \ F, n), \A l \in F : enrolled'[c][l] # "none"
  PROVE  MissingAtMost(c, S, n)'
<1> SUFFICES ASSUME Exists(c)' PROVE Cardinality(Missing(c, S)') <= n.without
  BY DEF MissingAtMost
<1>1. Exists(c) /\ Missing(c, S)' \subseteq Missing(c, S \ F)
  BY DEF StoredKept, Missing
<1>2. Cardinality(Missing(c, S \ F)) <= n.without
  BY <1>1 DEF MissingAtMost
<1>3. S \ F \in SUBSET People
  OBVIOUS
<1>4. /\ IsFiniteSet(Missing(c, S \ F)) /\ Cardinality(Missing(c, S \ F)) \in Nat
      /\ Cardinality(Missing(c, S)') \in Nat /\ n.without \in Nat
  BY <1>3, MissingTyped, CountFields
<1>5. Cardinality(Missing(c, S)') <= Cardinality(Missing(c, S \ F))
  BY <1>1, <1>4, FS_Subset
<1> QED
  BY <1>2, <1>4, <1>5

LEMMA EnrolledBatch ==
  ASSUME CardsTyped, StoredKept, NEW a \in AskRow, NEW b \in AskRow, BatchFits(b), b.pc = "read",
         a.pc = "answered", a.of = b.of, a.leads = b.leads, a.count = b.count,
         \A l \in b.fresh : enrolled'[b.of][l] # "none"
  PROVE  BatchFits(a)'
<1>1. b.of \in Campaigns /\ Made(b.of) /\ Made(b.of)'
  BY DEF BatchFits, StoredKept
<1>2. b.leads \in SUBSET People /\ b.count \in Counts
  BY DEF AskRow
<1>3. Counted(b.count) = Cardinality(b.leads) /\ MissingAtMost(b.of, b.leads \ b.fresh, b.count)
  BY DEF BatchFits
<1>4. MissingAtMost(b.of, b.leads, b.count)'
  BY <1>1, <1>2, <1>3, LeadsEnrolled
<1> QED
  BY <1>1, <1>3, <1>4 DEF BatchFits

LEMMA EnrollsLeadsStays ==
  ASSUME CampaignPageInv, NEW r \in Slots, NEW status \in Open, EnrollsLeads(r, status)
  PROVE  CampaignPageInv'
<1> DEFINE c == asking[r].of
           a == [asking[r] EXCEPT !.pc = "answered"]
           rows == [l \in People |-> IF l \in asking[r].fresh THEN status ELSE enrolled[c][l]]
<1>1. /\ CardsTyped /\ PickerInv /\ UNCHANGED <<campaigns, stepsMade, contact, cards, said>>
      /\ asking[r].pc = "read" /\ Exists(c) /\ StoredTyped /\ asking[r].ask = "enroll"
  BY DEF CampaignPageInv, EnrollsLeads, CardsTyped
<1>2. asking[r] \in AskRow /\ asking[r].fresh \in SUBSET People
  BY <1>1, AskFields
<1>3. BatchFits(asking[r]) /\ c \in Campaigns /\ Made(c)
  BY <1>1 DEF PickerInv, BatchFits
<1>4. enrolled' = [enrolled EXCEPT ![c] = rows] /\ asking' = [asking EXCEPT ![r] = a]
  BY DEF EnrollsLeads
<1>5. rows \in LeadRows
  BY <1>1, <1>3, StoredFields DEF LeadRows, LeadStatus, Open
<1>6. \A l \in People : rows[l] = "none" => enrolled[c][l] = "none"
  BY DEF Open
<1>7. \A l \in asking[r].fresh : rows[l] # "none"
  BY <1>2 DEF Open
<1>8. StoredTyped' /\ StoredKept
  <2>1. campaigns[c] \in CampaignRow /\ stepsMade \in Nat
    BY <1>1, <1>3, StoredFields
  <2>2. campaigns' = [campaigns EXCEPT ![c] = campaigns[c]]
    BY <1>1 DEF StoredTyped
  <2>3. stepsMade' \in Nat /\ stepsMade <= stepsMade'
    BY <1>1, <2>1
  <2>4. \A p \in 1..MaxPosition :
          \/ campaigns[c].steps[p] \in {0, campaigns[c].steps[p]}
          \/ campaigns[c].steps[p] > stepsMade /\ campaigns[c].steps[p] <= stepsMade'
    OBVIOUS
  <2>5. Made(c) => campaigns[c].status # "none"
    BY DEF Made
  <2> HIDE DEF rows, c
  <2> QED
    BY <1>1, <1>3, <1>4, <1>5, <1>6, <2>1, <2>2, <2>3, <2>4, <2>5, RowChanges, Zenon
<1>9. enrolled'[c] = rows
  BY <1>1, <1>3, <1>4 DEF StoredTyped
<1>10. /\ a \in AskRow /\ a.ask = "enroll" /\ a.pc = "answered" /\ a.count = asking[r].count
      /\ a.leads = asking[r].leads /\ a.of = c /\ a.then = asking[r].then
      /\ a.list = asking[r].list
  BY <1>1, <1>2 DEF AskRow
<1>11. \A l \in asking[r].fresh : enrolled'[asking[r].of][l] # "none"
  BY <1>7, <1>9
<1> HIDE DEF rows, a
<1>12. /\ asking' \in [Slots -> AskRow] /\ StepAsks(asking') /\ RowAsks(asking')
       /\ \A q \in Slots : asking'[q] = IF q = r THEN a ELSE asking[q]
  BY <1>1, <1>4, <1>10, OneBatch
<1>13. CardsTyped'
  BY <1>1, <1>8, <1>12 DEF CardsTyped
<1>14. BatchFits(asking[r])'
  <2>1. asking'[r] \in AskRow /\ asking'[r].pc = "answered" /\ asking'[r].of = asking[r].of
        /\ asking'[r].leads = asking[r].leads /\ asking'[r].count = asking[r].count
    BY <1>10, <1>12
  <2> QED
    BY <1>1, <1>2, <1>3, <1>8, <1>11, <2>1, EnrolledBatch
<1>15. \A q \in Slots : asking'[q].ask = "enroll" => BatchFits(asking[q])'
  BY <1>1, <1>8, <1>12, <1>13, <1>14, OtherBatches
<1>16. PickerKept(cards'.picker) /\ cards'.picker \in PickerRow
  BY <1>1, PageFields DEF PickerKept
<1>17. PickerFits(cards.picker)'
  BY <1>1, <1>8, <1>16, PickerFitsStays
<1>18. OneLoop'
  BY <1>1, <1>10, <1>12, LoopGoesOn
<1>19. PickerInv'
  BY <1>1, <1>8, <1>15, <1>17, <1>18, SaidStays DEF PickerInv
<1>20. StepPage(cards') /\ RowPage(cards', asking')
  BY <1>1 DEF StepPage, ListKept, RowPage
<1> QED
  BY <1>8, <1>12, <1>13, <1>19, <1>20, PickerHears

\* What is said of a picker is of what is stored.
LEMMA FitsUnchanged ==
  ASSUME UNCHANGED storedVars, NEW v, PickerFits(v)
  PROVE  PickerFits(v)'
BY DEF PickerFits, MissingAtMost, Missing, Made, Exists, storedVars

LEMMA PlusCounts ==
  ASSUME NEW m \in Counts, NEW n \in Counts
  PROVE  /\ Plus(m, n) \in Counts /\ Counted(Plus(m, n)) = Counted(m) + Counted(n)
         /\ Plus(m, n).without = m.without + n.without
<1>1. /\ m.enrolled \in Nat /\ m.already \in Nat /\ m.without \in Nat
      /\ n.enrolled \in Nat /\ n.already \in Nat /\ n.without \in Nat
  BY CountFields
<1>2. /\ Plus(m, n).enrolled = m.enrolled + n.enrolled /\ Plus(m, n).already = m.already + n.already
      /\ Plus(m, n).without = m.without + n.without
  BY DEF Plus
<1>3. Plus(m, n) \in Counts
  BY <1>1 DEF Plus, Counts
<1> QED
  BY <1>1, <1>2, <1>3 DEF Counted

\* An answer is added to the counts of the picker.
LEMMA AnswerAdded ==
  ASSUME NEW v \in PickerRow, NEW w \in PickerRow, NEW a \in AskRow,
         PickerFits(v), v.pc = "saving", BatchFits(a), a.pc = "answered", a.of = v.of,
         a.leads \subseteq v.left, w.pc = v.pc, w.of = v.of, w.ids = v.ids,
         w.left = v.left \ a.leads, w.total = Plus(v.total, a.count)
  PROVE  PickerFits(w)
<1>1. /\ v.ids \in SUBSET People /\ v.left \in SUBSET People /\ v.total \in Counts
      /\ a.leads \in SUBSET People /\ a.count \in Counts
  BY PickerFields DEF AskRow
<1>2. /\ v.of \in Campaigns /\ Made(v.of) /\ v.left \subseteq v.ids
      /\ Counted(v.total) + Cardinality(v.left) = Cardinality(v.ids)
      /\ MissingAtMost(v.of, v.ids \ v.left, v.total)
  BY DEF PickerFits
<1>3. Counted(a.count) = Cardinality(a.leads) /\ MissingAtMost(v.of, a.leads, a.count)
  BY DEF BatchFits
<1>4. /\ IsFiniteSet(v.left) /\ Cardinality(v.left) \in Nat /\ Cardinality(a.leads) \in Nat
      /\ IsFiniteSet(a.leads) /\ Cardinality(w.left) \in Nat /\ Cardinality(v.ids) \in Nat
  <2>1. w.left \in SUBSET People
    BY <1>1
  <2> QED
    BY <1>1, <2>1, MissingTyped
<1>5. Cardinality(w.left) = Cardinality(v.left) - Cardinality(a.leads)
  <2>1. v.left \cap a.leads = a.leads
    OBVIOUS
  <2>2. Cardinality(v.left \ a.leads) = Cardinality(v.left) - Cardinality(v.left \cap a.leads)
    BY <1>4, FS_Difference
  <2> QED
    BY <2>1, <2>2
<1>6. Counted(w.total) = Counted(v.total) + Counted(a.count)
      /\ w.total.without = v.total.without + a.count.without
  BY <1>1, PlusCounts
<1>7. Counted(w.total) + Cardinality(w.left) = Cardinality(w.ids)
  <2>1. Counted(v.total) \in Nat /\ Counted(a.count) \in Nat
    BY <1>1, CountFields
  <2> QED
    BY <1>2, <1>3, <1>4, <1>5, <1>6, <2>1
<1>8. MissingAtMost(w.of, w.ids \ w.left, w.total)
  <2> SUFFICES ASSUME Exists(v.of)
               PROVE  Cardinality(Missing(v.of, w.ids \ w.left)) <= w.total.without
    BY DEF MissingAtMost
  <2> DEFINE M == Missing(v.of, v.ids \ v.left)
             N == Missing(v.of, a.leads)
  <2>1. /\ IsFiniteSet(M) /\ IsFiniteSet(N) /\ Cardinality(M) \in Nat /\ Cardinality(N) \in Nat
    BY <1>1, MissingTyped
  <2>2. Cardinality(M) <= v.total.without /\ Cardinality(N) <= a.count.without
    BY <1>2, <1>3 DEF MissingAtMost
  <2>3. Missing(v.of, w.ids \ w.left) \subseteq M \cup N
    BY DEF Missing
  <2> HIDE DEF M, N
  <2>4. /\ IsFiniteSet(M \cup N) /\ IsFiniteSet(M \cap N)
        /\ Cardinality(M \cup N) = Cardinality(M) + Cardinality(N) - Cardinality(M \cap N)
    BY <2>1, FS_Union, FS_Intersection
  <2>5. Cardinality(M \cap N) \in Nat /\ Cardinality(M \cup N) \in Nat
    BY <2>4, FS_CardinalityType
  <2>6. /\ Cardinality(Missing(v.of, w.ids \ w.left)) <= Cardinality(M \cup N)
        /\ IsFiniteSet(Missing(v.of, w.ids \ w.left))
    BY <2>3, <2>4, FS_Subset
  <2>7. Cardinality(Missing(v.of, w.ids \ w.left)) \in Nat
    BY <2>6, FS_CardinalityType
  <2>8. v.total.without \in Nat /\ a.count.without \in Nat
    BY <1>1, CountFields
  <2> QED
    BY <1>6, <2>1, <2>2, <2>4, <2>5, <2>6, <2>7, <2>8
<1>9. w.left \subseteq w.ids
  BY <1>2
<1> QED
  BY <1>2, <1>7, <1>8, <1>9 DEF PickerFits

\* The loop ends with a request that was its only one.
LEMMA LoopEnds ==
  ASSUME CardsTyped, PickerInv, NEW r \in Slots, Looping(r), BatchAsks(asking'),
         asking'[r].ask # "enroll" \/ asking'[r].then # "loop"
  PROVE  OneLoop'
<1>1. \A q \in Slots : Looping(q)' => Looping(q)
  BY DEF BatchAsks, Looping
<1>2. \A q \in Slots : Looping(q) => q = r
  BY DEF PickerInv, OneLoop
<1>3. \A q \in Slots : ~Looping(q)'
  BY <1>1, <1>2 DEF Looping
<1> QED
  BY <1>3 DEF OneLoop

\* The page goes on from a picker to another, and no batch changes.
LEMMA PickerGoesOn ==
  ASSUME CampaignPageInv, NEW v \in PickerRow, cards' = [cards EXCEPT !.picker = v],
         asking' \in [Slots -> AskRow], AsksKept(asking'), PickerFits(v), OneLoop',
         UNCHANGED <<storedVars, said>>
  PROVE  CampaignPageInv'
<1>1. CardsTyped /\ PickerInv
  BY DEF CampaignPageInv
<1>2. StoredTyped' /\ StoredKept
  BY <1>1, SameStored
<1>3. cards' \in PageCards /\ cards'.picker = v /\ StepPage(cards') /\ RowPage(cards', asking')
  BY <1>1, PickerTurns
<1>4. CardsTyped'
  BY <1>1, <1>2, <1>3 DEF CardsTyped
<1>5. PickerFits(cards.picker)'
  <2>1. PickerFits(cards'.picker)
    BY <1>3
  <2> QED
    BY <2>1, FitsUnchanged
<1>6. PickerInv'
  BY <1>1, <1>2, <1>4, <1>5, BatchesStay, SaidStays DEF PickerInv, AsksKept
<1> QED
  BY <1>2, <1>3, <1>4, <1>6, PickerHears DEF AsksKept

LEMMA BatchAnsweredStays ==
  ASSUME CampaignPageInv, NEW r \in Slots, BatchAnswered(r)
  PROVE  CampaignPageInv'
<1> DEFINE v == [cards.picker EXCEPT !.left = cards.picker.left \ asking[r].leads,
                                     !.total = Plus(cards.picker.total, asking[r].count)]
<1>1. /\ CardsTyped /\ PickerInv /\ UNCHANGED <<storedVars, said>>
      /\ Looping(r) /\ asking[r].pc = "answered" /\ asking[r].ask = "enroll"
  BY DEF CampaignPageInv, BatchAnswered, Looping
<1>2. cards.picker \in PickerRow /\ asking[r] \in AskRow /\ asking[r].count \in Counts
  BY <1>1, PageFields, AskFields
<1>3. cards.picker.left \ asking[r].leads \in SUBSET People /\ Plus(cards.picker.total, asking[r].count) \in Counts
  BY <1>2, PickerFields, PlusCounts
<1>4. /\ cards' = [cards EXCEPT !.picker = v] /\ asking' = [asking EXCEPT ![r] = NoAsk]
  BY DEF BatchAnswered
<1>5. /\ v \in PickerRow /\ v.pc = cards.picker.pc /\ v.of = cards.picker.of /\ v.ids = cards.picker.ids
      /\ v.left = cards.picker.left \ asking[r].leads
      /\ v.total = Plus(cards.picker.total, asking[r].count)
  BY <1>2, <1>3 DEF PickerRow
<1> HIDE DEF v
<1>6. /\ cards.picker.pc = "saving" /\ asking[r].of = cards.picker.of
      /\ asking[r].leads \subseteq cards.picker.left
  BY <1>1 DEF PickerInv, OneLoop
<1>7. PickerFits(v)
  <2>1. PickerFits(cards.picker) /\ BatchFits(asking[r])
    BY <1>1 DEF PickerInv
  <2> QED
    BY <1>1, <1>2, <1>5, <1>6, <2>1, AnswerAdded
<1>8. asking' \in [Slots -> AskRow] /\ AsksKept(asking') /\ asking'[r] = NoAsk
  BY <1>1, <1>4, NoAskTyped, OneAsk DEF CardsTyped
<1>9. OneLoop'
  BY <1>1, <1>8, NoAskTyped, LoopEnds DEF AsksKept
<1> QED
  BY <1>1, <1>4, <1>5, <1>7, <1>8, <1>9, PickerGoesOn

LEMMA BatchFailsStays ==
  ASSUME CampaignPageInv, NEW r \in Slots, BatchFails(r)
  PROVE  CampaignPageInv'
<1> DEFINE v == IF Picking({"saving"}) THEN [cards.picker EXCEPT !.pc = "ready"] ELSE NoPicker
<1>1. CardsTyped /\ PickerInv /\ UNCHANGED <<storedVars, said>> /\ Looping(r)
  BY DEF CampaignPageInv, BatchFails
<1>2. cards' = [cards EXCEPT !.picker = v]
  BY DEF BatchFails
<1>3. v \in PickerRow /\ PickerFits(v)
  <2>1. CASE Picking({"saving"})
    <3>1. cards.picker \in PickerRow /\ cards.picker.pc = "saving"
      BY <1>1, <2>1, PageFields DEF Picking
    <3>2. v \in PickerRow /\ v.pc = "ready" /\ v.of = cards.picker.of
      BY <2>1, <3>1 DEF PickerRow
    <3>3. cards.picker.of \in Campaigns /\ Made(cards.picker.of)
      BY <1>1, <3>1 DEF PickerInv, PickerFits
    <3> HIDE DEF v
    <3> QED
      BY <3>2, <3>3 DEF PickerFits
  <2>2. CASE ~Picking({"saving"})
    <3>1. v = NoPicker /\ NoPicker.pc = "closed"
      BY <2>2 DEF NoPicker
    <3> HIDE DEF v
    <3> QED
      BY <3>1, NothingTyped DEF PickerFits
  <2> QED
    BY <2>1, <2>2
<1> HIDE DEF v
<1>4. /\ asking' \in [Slots -> AskRow] /\ AsksKept(asking')
      /\ asking'[r].ask # "enroll" \/ asking'[r].then # "loop"
  <2>1. CASE asking' = [asking EXCEPT ![r] = NoAsk]
    BY <1>1, <2>1, NoAskTyped, OneAsk DEF CardsTyped
  <2>2. CASE asking' = [asking EXCEPT ![r].then = "none"]
    <3> DEFINE a == [asking[r] EXCEPT !.then = "none"]
    <3>1. asking[r] \in AskRow /\ asking[r].ask = "enroll"
      BY <1>1, AskFields DEF Looping
    <3>2. /\ a \in AskRow /\ a.ask = "enroll" /\ a.then = "none" /\ a.pc = asking[r].pc
          /\ a.of = asking[r].of /\ a.leads = asking[r].leads /\ a.fresh = asking[r].fresh
          /\ a.count = asking[r].count /\ a.list = asking[r].list
      BY <3>1 DEF AskRow
    <3>3. asking' = [asking EXCEPT ![r] = a]
      BY <2>2
    <3> HIDE DEF a
    <3>4. /\ asking' \in [Slots -> AskRow] /\ StepAsks(asking') /\ RowAsks(asking')
          /\ \A q \in Slots : asking'[q] = IF q = r THEN a ELSE asking[q]
      BY <1>1, <3>2, <3>3, OneBatch
    <3>5. BatchAsks(asking')
      BY <3>1, <3>2, <3>4 DEF BatchAsks
    <3> QED
      BY <3>2, <3>4, <3>5 DEF AsksKept
  <2> QED
    BY <2>1, <2>2 DEF BatchFails
<1>5. OneLoop'
  BY <1>1, <1>4, LoopEnds DEF AsksKept
<1> QED
  BY <1>1, <1>2, <1>3, <1>4, <1>5, PickerGoesOn

LEMMA BatchForgottenStays ==
  ASSUME CampaignPageInv, NEW r \in Slots, BatchForgotten(r)
  PROVE  CampaignPageInv'
<1>1. asking' = [asking EXCEPT ![r] = NoAsk] /\ UNCHANGED <<storedVars, cards, said>>
  BY DEF BatchForgotten
<1> QED
  BY <1>1, NoAskTyped, AskTurns

LEMMA SaidNow ==
  ASSUME UNCHANGED storedVars, NEW s, s.of \in Campaigns, Made(s.of),
         Counted(s.total) = Cardinality(s.ids), MissingAtMost(s.of, s.ids, s.total), said' = s
  PROVE  SaidTrue'
BY DEF SaidTrue, MissingAtMost, Missing, Made, Exists, storedVars

LEMMA PickerEndsStays ==
  ASSUME CampaignPageInv, NEW r \in Slots, PickerEnds(r)
  PROVE  CampaignPageInv'
<1> DEFINE page == [cards EXCEPT !.dialog = NoDialog, !.picker = NoPicker]
           a == ReadAgain("none", NoCampaign, {})
           asks == [asking EXCEPT ![r] = a]
           s == [of |-> cards.picker.of, ids |-> cards.picker.ids, total |-> cards.picker.total]
<1>1. /\ CardsTyped /\ StepsInv /\ PickerInv /\ UNCHANGED storedVars
      /\ cards.picker.pc = "saving" /\ cards.picker.left = {}
  BY DEF CampaignPageInv, PickerEnds
<1>2. a \in AskRow /\ a.ask = "load" /\ a.list = NoList
  BY ReadTyped DEF SomeCampaign
<1>3. Turn(page, asks) /\ said' = s
  BY DEF PickerEnds
<1>4. cards \in PageCards /\ cards.picker \in PickerRow
  BY <1>1, PageFields
<1>5. /\ page \in PageCards /\ page.list = cards.list /\ page.step = cards.step
      /\ page.progress = cards.progress /\ page.picker = NoPicker /\ page.dialog = NoDialog
  BY <1>4, NothingTyped DEF PageCards
<1> HIDE DEF page, a
<1>6. asks \in [Slots -> AskRow] /\ AsksKept(asks)
  <2>1. asking \in [Slots -> AskRow]
    BY <1>1 DEF CardsTyped
  <2>2. asks \in [Slots -> AskRow]
    BY <1>2, <2>1
  <2>3. \A q \in Slots : asks[q] = IF q = r THEN a ELSE asking[q]
    BY <2>1
  <2> HIDE DEF asks
  <2>4. StepAsks(asks)
    BY <1>2, <2>3 DEF StepAsks
  <2>5. BatchAsks(asks)
    BY <1>2, <2>3 DEF BatchAsks
  <2>6. RowAsks(asks)
    BY <1>2, <2>3 DEF RowAsks, RowsHere
  <2> QED
    BY <2>2, <2>4, <2>5, <2>6 DEF AsksKept
<1> HIDE DEF asks
<1>7. PickerOf(page) = NoPicker
  <2>1. Mounted(page).kind = "none" /\ NoPicker.pc = "closed"
    BY <1>5 DEF Mounted, NoDialog, NoPicker
  <2> QED
    BY <1>5, <2>1 DEF PickerOf
<1>8. /\ cards' \in PageCards /\ asking' \in [Slots -> AskRow]
      /\ AsksKept(asking') /\ StepPage(cards') /\ RowPage(cards', asking')
      /\ cards'.picker = NoPicker
  BY <1>1, <1>3, <1>5, <1>6, <1>7, TurnTyped DEF ListKept
<1>9. StoredTyped' /\ StoredKept
  BY <1>1, SameStored
<1>10. s.of = cards.picker.of /\ s.ids = cards.picker.ids /\ s.total = cards.picker.total
  OBVIOUS
<1>11. said' \in [of : SomeCampaign, ids : SUBSET People, total : Counts]
  BY <1>3, <1>4, PickerFields
<1>12. CardsTyped'
  BY <1>8, <1>9, <1>11 DEF CardsTyped
<1>13. PickerFits(cards.picker)'
  BY <1>8 DEF PickerFits, NoPicker
<1>14. OneLoop'
  <2>1. \A q \in Slots : Looping(q)' => Looping(q)
    BY <1>8 DEF AsksKept, BatchAsks, Looping
  <2>2. \A q \in Slots : ~Looping(q)
    BY <1>1 DEF PickerInv, OneLoop
  <2> QED
    BY <2>1, <2>2 DEF OneLoop
<1>15. SaidTrue'
  <2>1. /\ s.of \in Campaigns /\ Made(s.of)
        /\ Counted(s.total) + Cardinality({}) = Cardinality(s.ids)
        /\ MissingAtMost(s.of, s.ids \ {}, s.total)
    BY <1>1, <1>10 DEF PickerInv, PickerFits
  <2>2. s.ids \ {} = s.ids /\ Cardinality({}) = 0 /\ s.total \in Counts
    BY <1>4, <1>10, PickerFields, FS_EmptySet
  <2>3. Counted(s.total) \in Nat
    BY <2>2, CountFields
  <2>4. Counted(s.total) = Cardinality(s.ids) /\ MissingAtMost(s.of, s.ids, s.total)
    BY <2>1, <2>2, <2>3
  <2> QED
    BY <1>1, <1>3, <2>1, <2>4, SaidNow
<1>16. PickerInv'
  BY <1>1, <1>8, <1>9, <1>12, <1>13, <1>14, <1>15, BatchesStay DEF PickerInv, AsksKept
<1> QED
  BY <1>8, <1>9, <1>12, <1>16, PickerHears DEF AsksKept

LEMMA LeadsChangeStays ==
  ASSUME CampaignPageInv, NEW l \in People, LeadsChange(l)
  PROVE  CampaignPageInv'
<1>1. CardsTyped /\ StoredTyped /\ UNCHANGED <<campaigns, stepsMade, cards, asking, said>>
  BY DEF CampaignPageInv, CardsTyped, LeadsChange
<1>2. PICK state \in {"with", "without", "gone"} :
        /\ contact' = [contact EXCEPT ![l] = state]
        /\ enrolled' = IF state # "gone" THEN enrolled
                       ELSE [c \in Campaigns |-> [enrolled[c] EXCEPT ![l] = "none"]]
  BY DEF LeadsChange
<1>3. contact[l] # "gone" /\ stepsMade \in Nat
  BY <1>1 DEF LeadsChange, StoredTyped
<1>4. enrolled' \in [Campaigns -> LeadRows]
  BY <1>1, <1>2 DEF StoredTyped, LeadRows, LeadStatus
<1>5. contact' \in [People -> {"with", "without", "gone"}]
  BY <1>1, <1>2 DEF StoredTyped
<1>6. StoredTyped'
  BY <1>1, <1>4, <1>5 DEF StoredTyped
<1>7. ASSUME NEW c \in Campaigns, NEW m \in People, contact'[m] # "gone", enrolled'[c][m] = "none"
      PROVE  contact[m] # "gone" /\ enrolled[c][m] = "none"
  <2>1. contact \in [People -> {"with", "without", "gone"}] /\ enrolled[c] \in LeadRows
    BY <1>1, StoredFields DEF StoredTyped
  <2>2. contact'[m] = IF m = l THEN state ELSE contact[m]
    BY <1>2, <2>1
  <2>3. CASE m = l
    BY <1>2, <1>3, <1>7, <2>2, <2>3
  <2>4. CASE m # l
    BY <1>2, <1>7, <2>1, <2>2, <2>4 DEF LeadRows
  <2> QED
    BY <2>3, <2>4
<1>8. StoredKept
  BY <1>1, <1>3, <1>7 DEF StoredKept, Made, Exists
<1>9. CardsTyped'
  BY <1>1, <1>6 DEF CardsTyped
<1>10. AsksKept(asking') /\ PageKept(cards', asking')
  BY <1>1, SameAsks, SamePage
<1> QED
  BY <1>1, <1>8, <1>9, <1>10, AllStay

\* One enrollment changes, and is none only if it was.
LEMMA OneEnrollment ==
  ASSUME StoredTyped, NEW c, NEW l \in People, NEW status \in LeadStatus,
         enrolled' = [enrolled EXCEPT ![c][l] = status], status # "none",
         UNCHANGED <<campaigns, stepsMade, contact>>
  PROVE  StoredTyped' /\ StoredKept
<1>1. enrolled \in [Campaigns -> LeadRows] /\ stepsMade \in Nat
  BY DEF StoredTyped
<1>2. enrolled' \in [Campaigns -> LeadRows]
  BY <1>1 DEF LeadRows
<1>3. ASSUME NEW d \in Campaigns, NEW m \in People, enrolled'[d][m] = "none"
      PROVE  enrolled[d][m] = "none"
  BY <1>1, <1>3 DEF LeadRows
<1>4. StoredTyped'
  BY <1>2 DEF StoredTyped
<1> QED
  BY <1>1, <1>3, <1>4 DEF StoredKept, Made, Exists

LEMMA EnrolledByOthersStays ==
  ASSUME CampaignPageInv, NEW c \in Campaigns, NEW l \in People, EnrolledByOthers(c, l)
  PROVE  CampaignPageInv'
<1>1. CardsTyped /\ StoredTyped /\ UNCHANGED <<campaigns, stepsMade, contact, cards, asking, said>>
  BY DEF CampaignPageInv, CardsTyped, EnrolledByOthers
<1>2. PICK status \in Open \cup {"FAILED", "closed"} : enrolled' = [enrolled EXCEPT ![c][l] = status]
  BY DEF EnrolledByOthers
<1>3. status \in LeadStatus /\ status # "none"
  BY <1>2 DEF Open, LeadStatus
<1>4. StoredTyped' /\ StoredKept
  BY <1>1, <1>2, <1>3, OneEnrollment
<1>5. CardsTyped'
  BY <1>1, <1>4 DEF CardsTyped
<1>6. AsksKept(asking') /\ PageKept(cards', asking')
  BY <1>1, SameAsks, SamePage
<1> QED
  BY <1>1, <1>4, <1>5, <1>6, AllStay

\* What only the family of the rows hears of.
LEMMA RowsHear ==
  ASSUME CampaignPageInv, cards' \in PageCards, asking' \in [Slots -> AskRow], StepAsks(asking'),
         StepPage(cards'), BatchAsks(asking'), PickerKept(cards'.picker), FilterInv',
         UNCHANGED <<storedVars, said>>
  PROVE  CampaignPageInv'
<1>1. CardsTyped /\ StepsInv /\ PickerInv
  BY DEF CampaignPageInv
<1>2. StoredTyped' /\ StoredKept
  BY <1>1, SameStored
<1>3. CardsTyped'
  BY <1>1, <1>2 DEF CardsTyped
<1>4. StepsInv' /\ PickerInv'
  BY <1>1, <1>2, <1>3, StepsStay, PickerStays
<1> QED
  BY <1>3, <1>4 DEF CampaignPageInv

\* Another request for rows.
LEMMA RowsAskedTyped ==
  ASSUME CardsTyped, InLeads, NEW filter \in Filters, NEW a, a = RowsAsked(filter)
  PROVE  /\ a \in AskRow /\ a.ask = "rows" /\ a.pc = "sent" /\ a.filter = filter /\ a.list = NoList
         /\ a.of \in Campaigns
<1> DEFINE b == Requested("rows", cards.dialog.of, {"dialog"})
<1>1. cards.dialog.of \in Campaigns
  BY MountedListed DEF InLeads
<1>2. b \in AskRow /\ b.ask = "rows" /\ b.pc = "sent" /\ b.list = NoList /\ b.of \in Campaigns
  BY <1>1, RequestTyped DEF PageAsks, SomeCampaign
<1>3. a = [b EXCEPT !.filter = filter]
  BY DEF RowsAsked
<1> HIDE DEF b
<1> QED
  BY <1>1, <1>2, <1>3 DEF AskRow

LEMMA OneRowAsk ==
  ASSUME CardsTyped, NEW r \in Slots, NEW a \in AskRow, asking' = [asking EXCEPT ![r] = a],
         a.list \in {NoList, ListNow, asking[r].list}, a.ask \notin {"save", "enroll"}
  PROVE  /\ asking' \in [Slots -> AskRow] /\ StepAsks(asking') /\ BatchAsks(asking')
         /\ \A q \in Slots : asking'[q] = IF q = r THEN a ELSE asking[q]
<1>1. asking \in [Slots -> AskRow]
  BY DEF CardsTyped
<1>2. asking' \in [Slots -> AskRow]
  BY <1>1
<1>3. \A q \in Slots : asking'[q] = IF q = r THEN a ELSE asking[q]
  BY <1>1
<1>4. StepAsks(asking')
  BY <1>3 DEF StepAsks
<1>5. BatchAsks(asking')
  BY <1>3 DEF BatchAsks
<1> QED
  BY <1>2, <1>3, <1>4, <1>5

\* Only what the list of leads shows changes in the page.
LEMMA ProgressTurns ==
  ASSUME CardsTyped, NEW v \in ProgressRow, cards' = [cards EXCEPT !.progress = v]
  PROVE  /\ cards' \in PageCards /\ cards'.progress = v /\ Mounted(cards') = Mounted(cards)
         /\ StepPage(cards') /\ PickerKept(cards'.picker)
<1>1. cards \in PageCards
  BY PageFields
<1>2. /\ cards' \in PageCards /\ cards'.list = cards.list /\ cards'.dialog = cards.dialog
      /\ cards'.step = cards.step /\ cards'.progress = v /\ cards'.picker = cards.picker
  BY <1>1 DEF PageCards
<1>3. Mounted(cards') = Mounted(cards)
  BY <1>2 DEF Mounted
<1> QED
  BY <1>2, <1>3 DEF StepPage, PickerKept, ListKept

LEMMA ReadRowsStays ==
  ASSUME CampaignPageInv, NEW r \in Slots, NEW loud \in BOOLEAN, ReadRows(r, loud)
  PROVE  CampaignPageInv'
<1> DEFINE a == RowsAsked(cards.progress.filter)
           v == [cards.progress EXCEPT !.loading = cards.progress.loading \/ loud]
<1>1. CardsTyped /\ FilterInv /\ InLeads /\ UNCHANGED <<storedVars, said>>
  BY DEF CampaignPageInv, ReadRows
<1>2. cards.progress \in ProgressRow /\ cards.progress.filter \in Filters /\ cards.progress.loading \in BOOLEAN
  BY <1>1, PageFields DEF ProgressRow
<1>3. (cards.progress.loading \/ loud) \in BOOLEAN
  BY <1>2
<1>4. /\ v \in ProgressRow /\ v.filter = cards.progress.filter /\ v.rows = cards.progress.rows
      /\ v.mixed = cards.progress.mixed /\ (cards.progress.loading => v.loading)
  BY <1>2, <1>3 DEF ProgressRow
<1>5. /\ a \in AskRow /\ a.ask = "rows" /\ a.pc = "sent" /\ a.filter = cards.progress.filter
      /\ a.list = NoList /\ a.of \in Campaigns
  BY <1>1, <1>2, RowsAskedTyped
<1>6. cards' = [cards EXCEPT !.progress = v] /\ asking' = [asking EXCEPT ![r] = a]
  BY DEF ReadRows
<1> HIDE DEF a, v
<1>7. /\ asking' \in [Slots -> AskRow] /\ StepAsks(asking') /\ BatchAsks(asking')
      /\ \A q \in Slots : asking'[q] = IF q = r THEN a ELSE asking[q]
  BY <1>1, <1>5, <1>6, OneRowAsk
<1>8. /\ cards' \in PageCards /\ cards'.progress = v /\ Mounted(cards') = Mounted(cards)
      /\ StepPage(cards') /\ PickerKept(cards'.picker)
  BY <1>1, <1>4, <1>6, ProgressTurns
<1>9. FilterInv'
  BY <1>1, <1>4, <1>5, <1>7, <1>8 DEF FilterInv, RowsHere, RowsFit, InLeads
<1> QED
  BY <1>1, <1>7, <1>8, <1>9, RowsHear

LEMMA ChangeFilterStays ==
  ASSUME CampaignPageInv, NEW r \in Slots, NEW filter \in Filters, ChangeFilter(r, filter)
  PROVE  CampaignPageInv'
<1> DEFINE a == RowsAsked(filter)
           v == [cards.progress EXCEPT !.filter = filter, !.loading = TRUE,
                                       !.mixed = cards.progress.mixed \/ ReadingRows]
<1>1. CardsTyped /\ FilterInv /\ InLeads /\ UNCHANGED <<storedVars, said>>
  BY DEF CampaignPageInv, ChangeFilter
<1>2. cards.progress \in ProgressRow /\ cards.progress.mixed \in BOOLEAN
  BY <1>1, PageFields DEF ProgressRow
<1>3. (cards.progress.mixed \/ ReadingRows) \in BOOLEAN
  BY <1>2 DEF ReadingRows
<1>4. /\ v \in ProgressRow /\ v.filter = filter /\ v.loading = TRUE
      /\ v.mixed = (cards.progress.mixed \/ ReadingRows)
  BY <1>2, <1>3 DEF ProgressRow
<1>5. /\ a \in AskRow /\ a.ask = "rows" /\ a.pc = "sent" /\ a.filter = filter /\ a.list = NoList
      /\ a.of \in Campaigns
  BY <1>1, RowsAskedTyped
<1>6. cards' = [cards EXCEPT !.progress = v] /\ asking' = [asking EXCEPT ![r] = a]
  BY DEF ChangeFilter
<1> HIDE DEF a, v
<1>7. /\ asking' \in [Slots -> AskRow] /\ StepAsks(asking') /\ BatchAsks(asking')
      /\ \A q \in Slots : asking'[q] = IF q = r THEN a ELSE asking[q]
  BY <1>1, <1>5, <1>6, OneRowAsk
<1>8. /\ cards' \in PageCards /\ cards'.progress = v /\ Mounted(cards') = Mounted(cards)
      /\ StepPage(cards') /\ PickerKept(cards'.picker)
  BY <1>1, <1>4, <1>6, ProgressTurns
<1>9. v.mixed \/ \A q \in Slots : ~RowsHere(q)
  BY <1>4 DEF ReadingRows, RowsHere
<1>10. FilterInv'
  BY <1>1, <1>4, <1>5, <1>7, <1>8, <1>9 DEF FilterInv, RowsHere
<1> QED
  BY <1>1, <1>7, <1>8, <1>10, RowsHear

LEMMA ServedRowsTyped ==
  ASSUME StoredTyped, NEW c \in Campaigns, NEW filter, NEW rows,
         rows = [l \in People |-> LET status == enrolled[c][l]
                                 IN  IF filter \in {"all", status} THEN status ELSE "none"]
  PROVE  rows \in LeadRows
<1>1. enrolled[c] \in LeadRows
  BY StoredFields
<1> QED
  BY <1>1 DEF LeadRows, LeadStatus

LEMMA ServeRowsStays ==
  ASSUME CampaignPageInv, NEW r \in Slots, ServeRows(r)
  PROVE  CampaignPageInv'
<1> DEFINE filter == asking[r].filter
           rows == [l \in People |-> LET status == enrolled[asking[r].of][l]
                                     IN  IF filter \in {"all", status} THEN status ELSE "none"]
           a == [asking[r] EXCEPT !.pc = "answered", !.rows = rows]
<1>1. CardsTyped /\ FilterInv /\ UNCHANGED <<storedVars, cards, said>> /\ asking[r].ask = "rows"
  BY DEF CampaignPageInv, ServeRows
<1>2. asking[r] \in AskRow /\ asking[r].of \in SomeCampaign
  BY <1>1, AskFields
<1>3. rows \in LeadRows /\ asking[r].of \in Campaigns
  <2>1. asking[r].of \in Campaigns /\ StoredTyped
    BY <1>1 DEF FilterInv, CardsTyped
  <2> QED
    BY <2>1, ServedRowsTyped
<1>4. RowsFit(filter, rows)
  BY DEF RowsFit
<1>5. asking' = [asking EXCEPT ![r] = a]
  BY DEF ServeRows
<1> HIDE DEF rows
<1>6. /\ a \in AskRow /\ a.ask = "rows" /\ a.filter = filter /\ a.rows = rows
      /\ a.here = asking[r].here /\ a.list = asking[r].list /\ a.of = asking[r].of
  BY <1>1, <1>2, <1>3 DEF AskRow
<1> HIDE DEF a
<1>7. /\ asking' \in [Slots -> AskRow] /\ StepAsks(asking') /\ BatchAsks(asking')
      /\ \A q \in Slots : asking'[q] = IF q = r THEN a ELSE asking[q]
  BY <1>1, <1>5, <1>6, OneRowAsk
<1>8. cards' \in PageCards /\ StepPage(cards') /\ PickerKept(cards'.picker)
  BY <1>1, PageFields DEF StepPage, PickerKept, ListKept
<1>9. FilterInv'
  BY <1>1, <1>3, <1>4, <1>6, <1>7 DEF FilterInv, RowsHere, RowsFit, InLeads
<1> QED
  BY <1>1, <1>7, <1>8, <1>9, RowsHear

LEMMA RowsReadStays ==
  ASSUME CampaignPageInv, NEW r \in Slots, RowsRead(r)
  PROVE  CampaignPageInv'
<1> DEFINE shown == "dialog" \in asking[r].here
           v == [cards.progress EXCEPT !.rows = asking[r].rows, !.loading = FALSE]
           w == [cards.progress EXCEPT !.mixed = TRUE, !.loading = FALSE]
<1>1. CardsTyped /\ FilterInv /\ UNCHANGED <<storedVars, said>> /\ asking[r].ask = "rows"
  BY DEF CampaignPageInv, RowsRead
<1>2. cards.progress \in ProgressRow /\ asking[r].rows \in LeadRows
  BY <1>1, PageFields, AskFields
<1>3. /\ v \in ProgressRow /\ v.rows = asking[r].rows /\ v.mixed = cards.progress.mixed
      /\ v.filter = cards.progress.filter
  BY <1>2 DEF ProgressRow
<1>4. w \in ProgressRow /\ w.mixed = TRUE
  BY <1>2 DEF ProgressRow
<1>5. asking' = [asking EXCEPT ![r] = NoAsk]
  BY DEF RowsRead
<1>6. /\ asking' \in [Slots -> AskRow] /\ StepAsks(asking') /\ BatchAsks(asking')
      /\ \A q \in Slots : asking'[q] = IF q = r THEN NoAsk ELSE asking[q]
  <2>1. NoAsk \in AskRow /\ NoAsk.list = NoList /\ NoAsk.ask = "none"
    BY NoAskTyped
  <2> QED
    BY <1>1, <1>5, <2>1, OneRowAsk
<1>7. NoAsk.ask = "none"
  BY NoAskTyped
<1> HIDE DEF v, w
<1>8. CASE cards' = cards
  <2>1. cards' \in PageCards /\ StepPage(cards') /\ PickerKept(cards'.picker)
    BY <1>1, <1>8, PageFields DEF StepPage, PickerKept, ListKept
  <2>2. FilterInv'
    BY <1>1, <1>6, <1>7, <1>8 DEF FilterInv, RowsHere, RowsFit, InLeads
  <2> QED
    BY <1>1, <1>6, <2>1, <2>2, RowsHear
<1>9. CASE shown /\ asking[r].pc = "answered" /\ cards' = [cards EXCEPT !.progress = v]
  <2>1. /\ cards' \in PageCards /\ cards'.progress = v /\ Mounted(cards') = Mounted(cards)
        /\ StepPage(cards') /\ PickerKept(cards'.picker)
    BY <1>1, <1>3, <1>9, ProgressTurns
  <2>2. RowsFit(asking[r].filter, asking[r].rows) /\ RowsHere(r)
    BY <1>1, <1>9 DEF FilterInv, RowsHere
  <2>3. FilterInv'
    BY <1>1, <1>3, <1>6, <1>7, <2>1, <2>2 DEF FilterInv, RowsHere, RowsFit, InLeads
  <2> QED
    BY <1>1, <1>6, <2>1, <2>3, RowsHear
<1>10. CASE cards' = [cards EXCEPT !.progress = w]
  <2>1. /\ cards' \in PageCards /\ cards'.progress = w /\ Mounted(cards') = Mounted(cards)
        /\ StepPage(cards') /\ PickerKept(cards'.picker)
    BY <1>1, <1>4, <1>10, ProgressTurns
  <2>2. FilterInv'
    BY <1>1, <1>4, <1>6, <1>7, <2>1 DEF FilterInv, RowsHere, RowsFit, InLeads
  <2> QED
    BY <1>1, <1>6, <2>1, <2>2, RowsHear
<1> QED
  BY <1>8, <1>9, <1>10 DEF RowsRead, v, w

LEMMA PressRowStays ==
  ASSUME CampaignPageInv, NEW r \in Slots, NEW ask \in {"stop", "retry"}, NEW l \in People,
         PressRow(r, ask, l)
  PROVE  CampaignPageInv'
<1> DEFINE b == Requested(ask, cards.dialog.of, {"dialog"})
           a == [b EXCEPT !.leads = {l}, !.filter = cards.progress.filter]
<1>1. CardsTyped /\ FilterInv /\ InLeads /\ UNCHANGED <<storedVars, cards, said>>
  BY DEF CampaignPageInv, PressRow
<1>2. cards.dialog.of \in Campaigns
  BY <1>1, MountedListed DEF InLeads
<1>3. cards.progress.filter \in Filters
  BY <1>1, PageFields DEF ProgressRow
<1>4. /\ b \in AskRow /\ b.ask = ask /\ b.pc = "sent" /\ b.list = NoList
      /\ b.of = cards.dialog.of
  BY <1>2, RequestTyped DEF PageAsks, SomeCampaign
<1>5. asking' = [asking EXCEPT ![r] = a]
  BY DEF PressRow
<1> HIDE DEF b
<1>6. /\ a \in AskRow /\ a.ask = ask /\ a.list = NoList /\ a.of = cards.dialog.of
      /\ a.filter = cards.progress.filter
  BY <1>3, <1>4 DEF AskRow
<1> HIDE DEF a
<1>7. /\ asking' \in [Slots -> AskRow] /\ StepAsks(asking') /\ BatchAsks(asking')
      /\ \A q \in Slots : asking'[q] = IF q = r THEN a ELSE asking[q]
  BY <1>1, <1>5, <1>6, OneRowAsk
<1>8. cards' \in PageCards /\ StepPage(cards') /\ PickerKept(cards'.picker)
  BY <1>1, PageFields DEF StepPage, PickerKept, ListKept
<1>9. FilterInv'
  BY <1>1, <1>2, <1>6, <1>7 DEF FilterInv, RowsHere, RowsFit, InLeads
<1> QED
  BY <1>1, <1>7, <1>8, <1>9, RowsHear

LEMMA ServeRowStays ==
  ASSUME CampaignPageInv, NEW r \in Slots, NEW l \in People, ServeRow(r, l)
  PROVE  CampaignPageInv'
<1> DEFINE a == [asking[r] EXCEPT !.pc = "answered"]
<1>1. /\ CardsTyped /\ StoredTyped /\ UNCHANGED <<campaigns, stepsMade, contact, cards, said>>
      /\ asking[r].ask \in {"stop", "retry"}
  BY DEF CampaignPageInv, CardsTyped, ServeRow
<1>2. PICK status \in {"closed", "ACTIVE", "PAUSED"} :
        enrolled' = [enrolled EXCEPT ![asking[r].of][l] = status]
  BY DEF ServeRow
<1>3. status \in LeadStatus /\ status # "none"
  BY <1>2 DEF LeadStatus
<1>4. StoredTyped' /\ StoredKept
  BY <1>1, <1>2, <1>3, OneEnrollment
<1>5. asking[r] \in AskRow /\ asking' = [asking EXCEPT ![r] = a]
  BY <1>1, AskFields DEF ServeRow
<1>6. /\ a \in AskRow /\ a.ask = asking[r].ask /\ a.of = asking[r].of /\ a.here = asking[r].here
      /\ a.list = asking[r].list /\ a.filter = asking[r].filter
  BY <1>5 DEF AskRow
<1> HIDE DEF a
<1>7. /\ asking' \in [Slots -> AskRow] /\ StepAsks(asking') /\ BatchAsks(asking')
      /\ \A q \in Slots : asking'[q] = IF q = r THEN a ELSE asking[q]
  BY <1>1, <1>5, <1>6, OneRowAsk
<1>8. RowAsks(asking')
  BY <1>1, <1>6, <1>7 DEF RowAsks, RowsHere
<1>9. CardsTyped' /\ PageKept(cards', asking')
  BY <1>1, <1>4, <1>7, SamePage DEF CardsTyped
<1> QED
  BY <1>1, <1>4, <1>7, <1>8, <1>9, AllStay DEF AsksKept

LEMMA PressAnsweredStays ==
  ASSUME CampaignPageInv, NEW r \in Slots, NEW q \in Slots, PressAnswered(r, q)
  PROVE  CampaignPageInv'
<1>1. /\ CardsTyped /\ FilterInv /\ UNCHANGED <<storedVars, cards, said>>
      /\ asking[r].ask \in {"stop", "retry"}
  BY DEF CampaignPageInv, PressAnswered
<1>2. CASE asking' = [asking EXCEPT ![r] = NoAsk]
  BY <1>1, <1>2, NoAskTyped, AskTurns
<1>3. CASE /\ asking[r].pc = "answered" /\ Idle(q)
           /\ asking' = [asking EXCEPT
                ![r] = [asking[r] EXCEPT !.ask = "rows", !.pc = "sent", !.leads = {}],
                ![q] = ReadAgain("none", NoCampaign, {})]
  <2> DEFINE a == [asking[r] EXCEPT !.ask = "rows", !.pc = "sent", !.leads = {}]
             b == ReadAgain("none", NoCampaign, {})
  <2>1. asking \in [Slots -> AskRow] /\ asking[r] \in AskRow /\ q # r
    BY <1>1, <1>3 DEF CardsTyped, Idle
  <2>2. /\ a \in AskRow /\ a.ask = "rows" /\ a.pc = "sent" /\ a.here = asking[r].here
        /\ a.of = asking[r].of /\ a.list = asking[r].list /\ a.filter = asking[r].filter
    BY <2>1 DEF AskRow, PageAsks
  <2>3. b \in AskRow /\ b.ask = "load" /\ b.list = NoList
    BY ReadTyped DEF SomeCampaign
  <2>4. asking' = [asking EXCEPT ![r] = a, ![q] = b]
    BY <1>3
  <2> HIDE DEF a, b
  <2>5. /\ asking' \in [Slots -> AskRow]
        /\ \A s \in Slots : asking'[s] = IF s = q THEN b ELSE IF s = r THEN a ELSE asking[s]
    BY <2>1, <2>2, <2>3, <2>4
  <2>6. StepAsks(asking')
    BY <2>2, <2>3, <2>5 DEF StepAsks
  <2>7. BatchAsks(asking')
    BY <2>2, <2>3, <2>5 DEF BatchAsks
  <2>8. cards' \in PageCards /\ StepPage(cards') /\ PickerKept(cards'.picker)
    BY <1>1, PageFields DEF StepPage, PickerKept, ListKept
  <2>9. RowAsks(asking')
    BY <1>1, <2>2, <2>3, <2>5 DEF RowAsks, RowsHere
  <2>10. FilterInv'
    BY <1>1, <2>9, RowsStay DEF RowPage
  <2> QED
    BY <1>1, <2>5, <2>6, <2>7, <2>8, <2>10, RowsHear
<1> QED
  BY <1>2, <1>3 DEF PressAnswered

\* Before anything is stored but the steps of one campaign.
LEMMA PageInitially == CampaignPageInit => CampaignPageInv
<1> SUFFICES ASSUME CampaignPageInit PROVE CampaignPageInv
  OBVIOUS
<1>1. PICK n \in 0..MaxPosition :
        /\ stepsMade = n
        /\ \E c \in Campaigns, m \in BOOLEAN :
             campaigns = [d \in Campaigns |-> IF d # c THEN NoRow
               ELSE [status |-> "DRAFT", mailbox |-> m,
                     steps |-> [p \in 1..MaxPosition |-> IF p <= n THEN p ELSE 0]]]
  BY DEF CampaignPageInit
<1>2. PICK c \in Campaigns, m \in BOOLEAN :
        campaigns = [d \in Campaigns |-> IF d # c THEN NoRow
          ELSE [status |-> "DRAFT", mailbox |-> m,
                steps |-> [p \in 1..MaxPosition |-> IF p <= n THEN p ELSE 0]]]
  BY <1>1
<1>3. /\ enrolled = [d \in Campaigns |-> NoStatus] /\ contact \in [People -> {"with", "without"}]
      /\ asking = [r \in Slots |-> NoAsk]
      /\ said = [of |-> NoCampaign, ids |-> {}, total |-> NoCount]
  BY DEF CampaignPageInit
<1>4. cards = [list |-> NoList, dialog |-> NoDialog, busy |-> NoCampaign, editor |-> "none",
               step |-> NoStep, picker |-> NoPicker, progress |-> NoProgress]
  BY DEF CampaignPageInit
<1>5. StoredTyped
  <2> DEFINE steps == [p \in 1..MaxPosition |-> IF p <= n THEN p ELSE 0]
             row == [status |-> "DRAFT", mailbox |-> m, steps |-> steps]
  <2>1. steps \in StepRows
    BY <1>1 DEF StepRows
  <2> HIDE DEF steps
  <2>2. row \in CampaignRow /\ NoRow \in CampaignRow
    BY <2>1, NothingTyped DEF CampaignRow, NoRow, CampaignStates, Kept
  <2>3. campaigns = [d \in Campaigns |-> IF d # c THEN NoRow ELSE row]
    BY <1>2 DEF steps
  <2> HIDE DEF row
  <2>4. campaigns \in [Campaigns -> CampaignRow]
    BY <2>2, <2>3
  <2>5. enrolled \in [Campaigns -> LeadRows]
    BY <1>3, NothingTyped
  <2>6. contact \in [People -> {"with", "without", "gone"}]
    BY <1>3
  <2>7. stepsMade \in Nat
    BY <1>1
  <2> QED
    BY <2>4, <2>5, <2>6, <2>7 DEF StoredTyped
<1>6. CardsTyped
  <2>1. cards \in PageCards
    BY <1>4, NothingTyped DEF PageCards, SomeCampaign
  <2>2. asking \in [Slots -> AskRow]
    BY <1>3, NoAskTyped
  <2>3. said \in [of : SomeCampaign, ids : SUBSET People, total : Counts]
    BY <1>3, NothingTyped DEF SomeCampaign
  <2> QED
    BY <1>5, <2>1, <2>2, <2>3 DEF CardsTyped
<1>7. Mounted(cards) = NoDialog
  BY <1>4 DEF Mounted, NoDialog
<1>8. \A r \in Slots : asking[r] = NoAsk /\ NoAsk.ask = "none" /\ NoAsk.list = NoList
  BY <1>3, NoAskTyped
<1>9. StepsInv
  <2>1. ASSUME NEW d \in Campaigns, NEW p \in 1..MaxPosition
        PROVE  campaigns[d].steps[p] <= stepsMade /\ campaigns[d].steps[p] \in Nat
    BY <1>1, <1>2 DEF NoRow, NoSteps
  <2>2. ListTold(NoList)
    <3>1. NoList.upto = 0
      BY DEF NoList
    <3>2. ASSUME NEW d \in Campaigns
          PROVE  NoList.rows[d].status = "none" /\ \A p \in 1..MaxPosition : NoList.rows[d].steps[p] = 0
      BY DEF NoList, NoSteps
    <3>3. "none" \notin Kept
      BY DEF Kept
    <3>4. ASSUME NEW d \in Campaigns, NEW p \in 1..MaxPosition
          PROVE  campaigns[d].steps[p] \in {0, NoList.rows[d].steps[p]} \/ campaigns[d].steps[p] > NoList.upto
      BY <2>1, <3>1, <3>2
    <3>5. NoList.upto <= stepsMade
      BY <1>1, <3>1
    <3> QED
      BY <3>1, <3>2, <3>3, <3>4, <3>5 DEF ListTold
  <2>3. cards.list = NoList
    BY <1>4
  <2> QED
    BY <1>7, <1>8, <2>1, <2>2, <2>3 DEF StepsInv, NoDialog
<1>10. PickerInv
  <2>1. cards.picker.pc = "closed"
    BY <1>4 DEF NoPicker
  <2> QED
    BY <1>3, <1>8, <2>1 DEF PickerInv, PickerFits, OneLoop, Looping, SaidTrue
<1>11. FilterInv
  BY <1>7, <1>8 DEF FilterInv, InLeads, NoDialog
<1> QED
  BY <1>6, <1>9, <1>10, <1>11 DEF CampaignPageInv

LEMMA CardsStay == CampaignPageInv /\ CardsNext => CampaignPageInv'
<1> SUFFICES ASSUME CampaignPageInv, CardsNext PROVE CampaignPageInv'
  OBVIOUS
<1>1. CASE CloseDialog
  BY <1>1, CloseDialogStays
<1>2. ASSUME NEW kind \in {"create", "edit", "steps", "enroll", "leads"}, NEW c \in SomeCampaign,
             OpenDialog(kind, c)
      PROVE  CampaignPageInv'
  BY <1>2, OpenDialogStays
<1>3. ASSUME NEW r \in Slots,
             \/ Poll(r) \/ ServeList(r) \/ ListRead(r) \/ CardAnswered(r) \/ FormAnswered(r)
             \/ Serve(r)
      PROVE  CampaignPageInv'
  BY <1>3, PollStays, ServeListStays, ListReadStays, AnsweredCardStays, AnsweredFormStays, ServeStays
<1>4. ASSUME NEW r \in Slots, NEW ask \in {"start", "pause", "delete"}, NEW c \in Campaigns,
             PressCard(r, ask, c)
      PROVE  CampaignPageInv'
  BY <1>4, PressCardStays
<1>5. ASSUME NEW r \in Slots, NEW mailbox \in BOOLEAN, SubmitForm(r, mailbox)
      PROVE  CampaignPageInv'
  BY <1>5, SubmitFormStays
<1>6. ASSUME NEW c \in Campaigns, ChangedByOthers(c) PROVE CampaignPageInv'
  BY <1>6, OthersStay
<1> QED
  BY <1>1, <1>2, <1>3, <1>4, <1>5, <1>6, Zenon DEF CardsNext, SomeCampaign

LEMMA StepsDialogStays == CampaignPageInv /\ StepsNext => CampaignPageInv'
<1> SUFFICES ASSUME CampaignPageInv, StepsNext PROVE CampaignPageInv'
  OBVIOUS
<1>1. CASE NewStep \/ CancelEdit
  BY <1>1, NewStepStays, CancelEditStays
<1>2. ASSUME NEW p \in 1..MaxPosition, EditStep(p) PROVE CampaignPageInv'
  BY <1>2, EditStepStays
<1>3. ASSUME NEW r \in Slots, SubmitStep(r) \/ StepAnswered(r) PROVE CampaignPageInv'
  BY <1>3, SubmitStepStays, StepAnsweredStays
<1>4. ASSUME NEW r \in Slots, NEW p \in 1..MaxPosition, RemoveStep(r, p) PROVE CampaignPageInv'
  BY <1>4, RemoveStepStays
<1> QED
  BY <1>1, <1>2, <1>3, <1>4, Zenon DEF StepsNext

LEMMA PickerDialogStays == CampaignPageInv /\ PickerNext => CampaignPageInv'
<1> SUFFICES ASSUME CampaignPageInv, PickerNext PROVE CampaignPageInv'
  OBVIOUS
<1>1. CASE PickerLoads \/ SubmitPicker
  BY <1>1, PickerLoadsStays, SubmitPickerStays
<1>2. ASSUME NEW leads \in SUBSET People, SelectLeads(leads) PROVE CampaignPageInv'
  BY <1>2, SelectLeadsStays
<1>3. ASSUME NEW r \in Slots,
             ReadsLeads(r) \/ BatchAnswered(r) \/ BatchFails(r) \/ BatchForgotten(r) \/ PickerEnds(r)
      PROVE  CampaignPageInv'
  BY <1>3, ReadsLeadsStays, BatchAnsweredStays, BatchFailsStays, BatchForgottenStays, PickerEndsStays
<1>4. ASSUME NEW r \in Slots, NEW leads \in SUBSET People, SendBatch(r, leads)
      PROVE  CampaignPageInv'
  BY <1>4, SendBatchStays
<1>5. ASSUME NEW r \in Slots, NEW status \in Open, EnrollsLeads(r, status) PROVE CampaignPageInv'
  BY <1>5, EnrollsLeadsStays
<1>6. ASSUME NEW l \in People, LeadsChange(l) PROVE CampaignPageInv'
  BY <1>6, LeadsChangeStays
<1>7. ASSUME NEW l \in People, NEW c \in Campaigns, EnrolledByOthers(c, l) PROVE CampaignPageInv'
  BY <1>7, EnrolledByOthersStays
<1> QED
  BY <1>1, <1>2, <1>3, <1>4, <1>5, <1>6, <1>7, Zenon DEF PickerNext

LEMMA ProgressDialogStays == CampaignPageInv /\ ProgressNext => CampaignPageInv'
<1> SUFFICES ASSUME CampaignPageInv, ProgressNext PROVE CampaignPageInv'
  OBVIOUS
<1>1. ASSUME NEW r \in Slots, ServeRows(r) \/ RowsRead(r) PROVE CampaignPageInv'
  BY <1>1, ServeRowsStays, RowsReadStays
<1>2. ASSUME NEW r \in Slots, NEW loud \in BOOLEAN, ReadRows(r, loud) PROVE CampaignPageInv'
  BY <1>2, ReadRowsStays
<1>3. ASSUME NEW r \in Slots, NEW filter \in Filters, ChangeFilter(r, filter) PROVE CampaignPageInv'
  BY <1>3, ChangeFilterStays
<1>4. ASSUME NEW r \in Slots, NEW l \in People, ServeRow(r, l) PROVE CampaignPageInv'
  BY <1>4, ServeRowStays
<1>5. ASSUME NEW r \in Slots, NEW l \in People, NEW ask \in {"stop", "retry"}, PressRow(r, ask, l)
      PROVE  CampaignPageInv'
  BY <1>5, PressRowStays
<1>6. ASSUME NEW r \in Slots, NEW q \in Slots, PressAnswered(r, q) PROVE CampaignPageInv'
  BY <1>6, PressAnsweredStays
<1> QED
  BY <1>1, <1>2, <1>3, <1>4, <1>5, <1>6, Zenon DEF ProgressNext

\* What the invariant says of a reader of the page.
LEMMA PageIsHonest == CampaignPageInv => CampaignPageHonest
<1> SUFFICES ASSUME CampaignPageInv PROVE CampaignPageHonest
  OBVIOUS
<1>1. StepsAreKept
  BY DEF StepsAreKept, CampaignPageInv, StepsInv, StepFits
<1>2. EnrolledAreCounted
  BY DEF EnrolledAreCounted, CampaignPageInv, PickerInv, SaidTrue, Counted, MissingAtMost, Missing
<1>3. FilterHolds
  BY DEF FilterHolds, CampaignPageInv, FilterInv, RowsFit
<1> QED
  BY <1>1, <1>2, <1>3 DEF CampaignPageHonest

\* Whatever users, other tabs and lost answers do (CampaignPageHonest): a step is
\* saved over none that the page had shown, but the one that is edited, while one
\* that was stored after the list was read may be overwritten; the numbers of the
\* picker add up to the leads that were selected, and no more of those are left out
\* than it says had no address; and the list of leads is of the filter that is
\* chosen, unless another was chosen during an answer or a read failed.
THEOREM CampaignPageIsHonest == CampaignPageSpec => []CampaignPageHonest
<1>1. CampaignPageInit => CampaignPageInv
  BY PageInitially
<1>2. CampaignPageInv /\ [CampaignPageNext]_cardVars => CampaignPageInv'
  <2> SUFFICES ASSUME CampaignPageInv, [CampaignPageNext]_cardVars PROVE CampaignPageInv'
    OBVIOUS
  <2>1. CASE UNCHANGED cardVars
    <3>1. UNCHANGED storedVars /\ UNCHANGED <<cards, asking, said>>
      BY <2>1 DEF cardVars
    <3>2. CardsTyped /\ StoredTyped' /\ StoredKept
      BY <3>1, SameStored DEF CampaignPageInv
    <3>3. CardsTyped'
      BY <3>1, <3>2 DEF CardsTyped
    <3>4. AsksKept(asking') /\ PageKept(cards', asking')
      BY <3>1, <3>2, SameAsks, SamePage
    <3> QED
      BY <3>1, <3>2, <3>3, <3>4, AllStay
  <2> QED
    BY <2>1, CardsStay, StepsDialogStays, PickerDialogStays, ProgressDialogStays DEF CampaignPageNext
<1> QED
  BY <1>1, <1>2, PageIsHonest, PTL DEF CampaignPageSpec
===============================================================================
