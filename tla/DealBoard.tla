------------------------------ MODULE DealBoard ------------------------------
(***************************************************************************)
(* The board of deals: a tab with apps/web/app/app/crm/page.tsx, and       *)
(* apps/api/src/modules/crm/crm.service.ts, which serves other users as    *)
(* well. A change is followed by a new read of the board; reads are        *)
(* answered in any order and each replaces what is shown. Values, dates    *)
(* and the company, contact and owner of a deal are left out.              *)
(***************************************************************************)
EXTENDS Naturals, FiniteSets

CONSTANTS
  Deals,                    \* rows of Deal that may be made
  Positions,                \* of the stages of a pipeline
  Rpcs,                     \* requests of the page at the same time
  MaxPipelines              \* bound: pipelines ever made

ASSUME BoardAssumption == MaxPipelines \in Nat \ {0}

VARIABLES
  pipelines,                \* how many exist, numbered by createdAt
  deal,                     \* the rows of Deal
  board,                    \* what the page shows of pipelines[0], and its form
  rpc,                      \* the requests and the statements that serve them
  newest,                   \* history: the read that was sent last, under way
  boardCalm                 \* history: what the newest read gives is to stay

historyOfBoard == <<newest, boardCalm>>
boardVars == <<pipelines, deal, board, rpc, historyOfBoard>>

Stages == [pipeline : 1..MaxPipelines, position : Positions]
NoStage == [pipeline |-> 0, position |-> 0]
NoDeal == [status |-> "none", stage |-> NoStage]
NoCards == [first |-> 0, cards |-> {}]
NoRpc == [pc |-> "idle", ask |-> "none", deal |-> {}, value |-> NoDeal, rows |-> NoCards]

\* A workspace is made with a pipeline; the page makes one where there is none.
BoardInit ==
  /\ pipelines \in {0, 1}
  /\ deal = [d \in Deals |-> NoDeal]
  /\ board = [rows |-> NoCards, show |-> FALSE, busy |-> FALSE]
  /\ rpc = [r \in Rpcs |-> NoRpc]
  /\ newest = {} /\ boardCalm = FALSE

\* The deals of a pipeline where they stand.
RowsOf(p, statuses) ==
  [first |-> p,
   cards |-> {[deal |-> d, stage |-> deal[d].stage] :
                d \in {d \in Deals : deal[d].status \in statuses /\ deal[d].stage.pipeline = p}}]

\* The newest read has yet to see the rows.
ReadToCome == \E r \in newest : rpc[r].pc = "sent"

----------------------------------------------------------------------------
(* The page *)

LoadBoard(r, ask) ==
  /\ rpc' = [rpc EXCEPT ![r] = [NoRpc EXCEPT !.pc = "sent", !.ask = "load",
                                             !.value.status = IF ask = "add" THEN ask ELSE "none"]]
  /\ newest' = {r} /\ boardCalm' = TRUE

OpenBoard(r) ==
  /\ board.rows = NoCards /\ \A q \in Rpcs : rpc[q] = NoRpc
  /\ LoadBoard(r, "open")
  /\ UNCHANGED <<pipelines, deal, board>>

\* The form stays busy until the read after its new deal is answered. An answer
\* that comes after that of the newest read replaces it.
BoardRead(r) ==
  LET busy == board.busy /\ rpc[r].value.status # "add"
  IN  /\ rpc[r].ask = "load"
      /\ \/ /\ rpc[r].pc = "answered"
            /\ board' = [board EXCEPT !.rows = rpc[r].rows, !.busy = busy]
            /\ boardCalm' = (boardCalm /\ newest # {})
         \/ /\ board' = [board EXCEPT !.rows = NoCards, !.busy = busy]
            /\ boardCalm' = (boardCalm /\ newest \ {r} # {})
      /\ rpc' = [rpc EXCEPT ![r] = NoRpc] /\ newest' = newest \ {r}
      /\ UNCHANGED <<pipelines, deal>>

\* The form is opened, and closed, also while a deal is being created.
ToggleForm ==
  /\ board.rows.first # 0
  /\ board' = [board EXCEPT !.show = ~@]
  /\ UNCHANGED <<pipelines, deal, rpc, historyOfBoard>>

AskBoard(r, ask, d, value) ==
  /\ rpc[r] = NoRpc
  /\ rpc' = [rpc EXCEPT ![r] = [NoRpc EXCEPT !.pc = "sent", !.ask = ask, !.deal = d, !.value = value]]
  /\ UNCHANGED <<pipelines, deal, historyOfBoard>>

ShownStages == {s \in Stages : s.pipeline = board.rows.first}

AddDeal(r, s) ==
  /\ board.show /\ ~board.busy
  /\ board' = [board EXCEPT !.busy = TRUE]
  /\ AskBoard(r, "add", {}, [status |-> "OPEN", stage |-> s])

\* Dropped on a stage, or the stage chosen from the list, its own included.
MoveCard(r, card, s) ==
  AskBoard(r, "move", {card.deal}, [status |-> "none", stage |-> s]) /\ UNCHANGED board

CloseCard(r, card, status) ==
  AskBoard(r, "close", {card.deal}, [status |-> status, stage |-> NoStage]) /\ UNCHANGED board

\* A variant that takes the change for shown.
ShowsAsIs(r) == rpc' = [rpc EXCEPT ![r] = NoRpc] /\ UNCHANGED <<board, historyOfBoard>>

Succeeds(r) ==
  /\ LoadBoard(r, rpc[r].ask)
  /\ board' = [board EXCEPT !.show = @ /\ rpc[r].ask # "add"]

\* A failed change is not followed by a read; that of a new deal keeps its form.
ChangeAnswered(r) ==
  /\ rpc[r].ask \in {"add", "move", "close"}
  /\ \/ rpc[r].pc = "answered" /\ Succeeds(r)
     \/ /\ rpc' = [rpc EXCEPT ![r] = NoRpc]
        /\ boardCalm' = (boardCalm /\ ReadToCome) /\ UNCHANGED newest
        /\ board' = [board EXCEPT !.busy = @ /\ rpc[r].ask # "add"]
  /\ UNCHANGED <<pipelines, deal>>

----------------------------------------------------------------------------
(* CrmService.pipelines, three statements without a transaction *)

BoardGoto(r, pc, rows) == rpc' = [rpc EXCEPT ![r].pc = pc, ![r].rows = rows]

FindPipelines(r) ==
  /\ rpc[r].ask = "load" /\ rpc[r].pc = "sent"
  /\ IF pipelines = 0 THEN BoardGoto(r, "none", NoCards)
     ELSE BoardGoto(r, "answered", RowsOf(1, {"OPEN"}))
  /\ UNCHANGED <<pipelines, deal, board, historyOfBoard>>

CreatePipeline(r) ==
  /\ rpc[r].pc = "none" /\ pipelines < MaxPipelines
  /\ pipelines' = pipelines + 1
  /\ BoardGoto(r, "again", NoCards)
  /\ UNCHANGED <<deal, board, historyOfBoard>>

\* The second read has no order and leaves out no closed deal.
FindAgain(r) ==
  /\ rpc[r].pc = "again"
  /\ \E p \in 1..pipelines : BoardGoto(r, "answered", RowsOf(p, {"OPEN", "WON", "LOST"}))
  /\ UNCHANGED <<pipelines, deal, board, historyOfBoard>>

----------------------------------------------------------------------------
(* createDeal, move, close *)

\* The row a change leaves. A closed deal is moved as well, and closed again.
NewRow(ask, row, value) ==
  CASE ask = "add" -> value
    [] ask = "move" -> [row EXCEPT !.stage = value.stage]
    [] ask = "close" -> [row EXCEPT !.status = value.status]

\* A new deal has an id of its own; the others name theirs.
ServeChange(r, d) ==
  /\ rpc[r].ask \in {"add", "move", "close"} /\ rpc[r].pc = "sent"
  /\ IF rpc[r].ask = "add" THEN deal[d] = NoDeal ELSE d \in rpc[r].deal
  /\ deal' = [deal EXCEPT ![d] = NewRow(rpc[r].ask, @, rpc[r].value)]
  /\ BoardGoto(r, "answered", NoCards)
  /\ UNCHANGED <<pipelines, board, historyOfBoard>>

\* Other users do the same; a first visit of one of them makes a pipeline.
ChangedElsewhere(d) ==
  /\ \/ \E s \in {s \in Stages : s.pipeline <= pipelines} :
          deal' = [deal EXCEPT ![d].stage = s, ![d].status = IF @ = "none" THEN "OPEN" ELSE @]
     \/ \E status \in {"WON", "LOST"} :
          deal[d] # NoDeal /\ deal' = [deal EXCEPT ![d].status = status]
  /\ boardCalm' = (boardCalm /\ ReadToCome)
  /\ UNCHANGED <<pipelines, board, rpc, newest>>

PipelineElsewhere ==
  /\ pipelines < MaxPipelines
  /\ pipelines' = pipelines + 1
  /\ UNCHANGED <<deal, board, rpc, historyOfBoard>>

BoardNext ==
  \/ ToggleForm \/ PipelineElsewhere
  \/ \E r \in Rpcs :
       \/ OpenBoard(r) \/ BoardRead(r) \/ ChangeAnswered(r)
       \/ FindPipelines(r) \/ CreatePipeline(r) \/ FindAgain(r)
       \/ \E s \in ShownStages : AddDeal(r, s)
       \/ \E card \in board.rows.cards :
            \/ \E s \in ShownStages : MoveCard(r, card, s)
            \/ \E status \in {"WON", "LOST"} : CloseCard(r, card, status)
       \/ \E d \in Deals : ServeChange(r, d)
  \/ \E d \in Deals : ChangedElsewhere(d)

BoardSpec == BoardInit /\ [][BoardNext]_boardVars

----------------------------------------------------------------------------
(* Properties *)

BoardTypeOK ==
  /\ pipelines \in 0..MaxPipelines
  /\ \A d \in Deals : deal[d] = NoDeal \/ deal[d].stage \in Stages
  /\ board.rows.first \in 0..MaxPipelines
  /\ boardCalm \in BOOLEAN

\* Once nothing of the page is under way, its board shows every open deal in the
\* stage it is in, and no closed one: reads carry no ticket (page.tsx:23), and
\* changes and reads of the page overlap and are answered in any order. What it
\* takes is that the newest read was answered, by no older one after it, and that
\* since it saw the rows nobody else changed a deal and no change failed that may
\* have been made. Two first visits make two pipelines, of which one is shown.
BoardAgrees ==
  boardCalm /\ pipelines = 1 /\ (\A r \in Rpcs : rpc[r] = NoRpc) =>
    board.rows = RowsOf(1, {"OPEN"})
=============================================================================
