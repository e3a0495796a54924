------------------------------ MODULE MCMessages ------------------------------
(***************************************************************************)
(* Campaigns without failures and three screens for TLC: those that show   *)
(* what was sent and what came in, and the one that finds leads. They      *)
(* share no rows here; a behaviour exercises the part its initial state    *)
(* names, and the others keep still.                                       *)
(***************************************************************************)
EXTENDS MCCampaign, InboxPage, ThreadScreen, LeadFinder

VARIABLE part

messageVars == <<part, vars, inboxVars, threadVars, finderVars>>

MessagesInit ==
  /\ part \in {"campaigns", "inbox", "thread", "finder"}
  /\ Init /\ InboxInit /\ ThreadInit /\ FinderInit
  \* One of the initial states of the parts that keep still.
  /\ part # "inbox" => page.kind = "inbox"
  /\ part # "thread" => written = 1

MessagesNext ==
  /\ UNCHANGED part
  /\ \/ part = "campaigns" /\ Next /\ UNCHANGED <<inboxVars, threadVars, finderVars>>
     \/ part = "inbox" /\ InboxNext /\ UNCHANGED <<vars, threadVars, finderVars>>
     \/ part = "thread" /\ ThreadNext /\ UNCHANGED <<vars, inboxVars, finderVars>>
     \/ part = "finder" /\ FinderNext /\ UNCHANGED <<vars, inboxVars, threadVars>>

MessagesSpec == MessagesInit /\ [][MessagesNext]_messageVars
=============================================================================
