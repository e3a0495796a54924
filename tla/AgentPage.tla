------------------------------ MODULE AgentPage ------------------------------
(***************************************************************************)
(* The agents of apps/web/app/app/ai/page.tsx, which the browser keeps in  *)
(* its localStorage: the list is read once, and every change writes the    *)
(* whole list back. A run asks for one city after the other and then       *)
(* writes the list of the render it was started in. Of an agent it matters *)
(* whether it is there and enabled; of a place, whether it qualifies: an   *)
(* earlier place with the same key stands for a later one.                 *)
(***************************************************************************)
EXTENDS Naturals

CONSTANTS
  Agents,                   \* ids that agents may be given
  NoAgent,                  \* none
  Places,                   \* what the searches tell apart (normalizeKey)
  MaxCities                 \* cities an agent may have (25)

ASSUME AgentAssumption == NoAgent \notin Agents /\ MaxCities \in Nat \ {0}

VARIABLES
  shown,                    \* of each agent in the list: is it enabled
  stored,                   \* the same in localStorage
  made,                     \* ids that were given
  agentRun,                 \* runAgent, with the list its handler sees
  summary,                  \* the agent whose results are shown, and those
  asked,                    \* history: the list as the user left it
  disturbed                 \* history: it was changed while an agent ran

agentVars == <<shown, stored, made, agentRun, summary, asked, disturbed>>

Lists == [Agents -> {"none", "on", "off"}]
Finds == [Places -> {"none", "fits", "rejected"}]
Nothing == [p \in Places |-> "none"]
NoRun == [pc |-> "idle", of |-> NoAgent, list |-> [a \in Agents |-> "none"], left |-> 0,
          found |-> Nothing]
NoSummary == [of |-> NoAgent, results |-> {}]

AgentInit ==
  /\ shown = [a \in Agents |-> "none"] /\ stored = shown /\ asked = shown
  /\ made = {} /\ agentRun = NoRun /\ summary = NoSummary
  /\ disturbed = FALSE

RunUnderWay == agentRun.pc # "idle"

WriteList(list) == shown' = list /\ stored' = list

\* A change by the user, to the list of the present render.
UserChange(a, state) ==
  /\ WriteList([shown EXCEPT ![a] = state])
  /\ asked' = [asked EXCEPT ![a] = state]
  /\ disturbed' = (disturbed \/ RunUnderWay)

CreateAgent(a) ==
  /\ a \notin made
  /\ made' = made \cup {a}
  /\ UserChange(a, "on")
  /\ UNCHANGED <<agentRun, summary>>

ToggleAgent(a) ==
  /\ shown[a] # "none"
  /\ UserChange(a, IF shown[a] = "on" THEN "off" ELSE "on")
  /\ UNCHANGED <<made, agentRun, summary>>

\* A variant that leaves the results of a deleted agent on the page.
KeepsResults(a) == summary

WithoutResults(a) == IF summary.of = a THEN NoSummary ELSE summary

RemoveAgent(a) ==
  /\ shown[a] # "none"
  /\ UserChange(a, "none")
  /\ summary' = WithoutResults(a)
  /\ UNCHANGED <<made, agentRun>>

\* One agent at a time, an enabled one.
RunAgent(a, cities) ==
  /\ ~RunUnderWay /\ shown[a] = "on"
  /\ agentRun' = [pc |-> "sent", of |-> a, list |-> shown, left |-> cities, found |-> Nothing]
  /\ summary' = NoSummary
  /\ UNCHANGED <<shown, stored, made, asked, disturbed>>

\* deduplicate: what was found before stays.
Deduplicate(found, more) == [p \in Places |-> IF found[p] = "none" THEN more[p] ELSE found[p]]

SearchCity(more) ==
  /\ agentRun.pc \in {"sent", "again"} /\ agentRun.left > 0
  /\ agentRun' = [agentRun EXCEPT !.pc = "sent", !.left = @ - 1,
                                  !.found = Deduplicate(@, more)]
  /\ UNCHANGED <<shown, stored, made, summary, asked, disturbed>>

\* The token has expired: searchRegion gets another and asks once more.
SearchUnauthorized ==
  /\ agentRun.pc = "sent" /\ agentRun.left > 0
  /\ agentRun' = [agentRun EXCEPT !.pc = "again"]
  /\ UNCHANGED <<shown, stored, made, summary, asked, disturbed>>

\* A search fails, or the token is not renewed: nothing is kept of the run.
RunFails ==
  /\ RunUnderWay /\ agentRun.left > 0
  /\ agentRun' = NoRun
  /\ UNCHANGED <<shown, stored, made, summary, asked, disturbed>>

RunEnds ==
  /\ agentRun.pc = "sent" /\ agentRun.left = 0
  /\ summary' = [of |-> agentRun.of,
                 results |-> {p \in Places : agentRun.found[p] = "fits"}]
  /\ WriteList(agentRun.list)
  /\ agentRun' = NoRun
  /\ UNCHANGED <<made, asked, disturbed>>

\* The page is left and opened again: what ran is forgotten, and what a run
\* would have undone stays.
ReloadAgents ==
  /\ shown' = stored
  /\ agentRun' = NoRun /\ summary' = NoSummary
  /\ UNCHANGED <<stored, made, asked, disturbed>>

AgentNext ==
  \/ \E a \in Agents :
       \/ CreateAgent(a) \/ ToggleAgent(a) \/ RemoveAgent(a)
       \/ \E cities \in 1..MaxCities : RunAgent(a, cities)
  \/ \E more \in Finds : SearchCity(more)
  \/ SearchUnauthorized \/ RunFails \/ RunEnds \/ ReloadAgents

AgentSpec == AgentInit /\ [][AgentNext]_agentVars

----------------------------------------------------------------------------
(* Properties *)

AgentTypeOK ==
  /\ shown \in Lists /\ stored \in Lists /\ asked \in Lists /\ made \subseteq Agents
  /\ agentRun \in [pc : {"idle", "sent", "again"}, of : Agents \cup {NoAgent}, list : Lists,
                   left : 0..MaxCities, found : Finds]
  /\ summary \in [of : Agents \cup {NoAgent}, results : SUBSET Places]
  /\ disturbed \in BOOLEAN

\* A run writes back a list that may be old by then (ai/page.tsx:214): the list
\* stays as the user left it unless it was changed while an agent ran, also when
\* runs fail, overlap with reloads or follow each other. And through all that
\* the results that are shown are those of an agent that is in the list.
AgentsStay ==
  /\ ~disturbed => stored = asked
  /\ summary.of # NoAgent => shown[summary.of] # "none"
=============================================================================
