--------------------------- MODULE WhatsappPacing ---------------------------
(***************************************************************************)
(* The pause between two WhatsApp messages of a workspace: deliverWhatsapp *)
(* and recordSent of                                                       *)
(* apps/api/src/modules/campaigns/sequence.scheduler.ts, with a clock. The *)
(* scheduler of every instance of the API executes its runs one at a time; *)
(* the instances claim different runs. Times are kept as ticks passed, up  *)
(* to the interval.                                                        *)
(***************************************************************************)
EXTENDS Naturals

CONSTANTS
  Instances,                \* instances of the API
  MinInterval,              \* WHATSAPP_MIN_INTERVAL_SECONDS
  MaxMessages               \* bound: messages that are ever sent

VARIABLES
  pass,                     \* what each instance does with its run
  sinceRecorded,            \* ticks since finishedAt of the last run that is SENT
  sinceSent,                \* history: ticks since the last message went out
  messages                  \* how many went out

pacingVars == <<pass, sinceRecorded, sinceSent, messages>>

Later(n) == IF n = MinInterval THEN n ELSE n + 1

PacingInit ==
  /\ pass = [i \in Instances |-> "idle"]
  /\ sinceRecorded = MinInterval
  /\ sinceSent = MinInterval
  /\ messages = 0

Goto(i, pc) == pass' = [pass EXCEPT ![i] = pc]

\* claim gives the instance a run that no other instance has.
ClaimRun(i) ==
  /\ pass[i] = "idle"
  /\ Goto(i, "check")
  /\ UNCHANGED <<sinceRecorded, sinceSent, messages>>

\* The last run that is SENT is read; too early, the run is deferred.
CheckInterval(i) ==
  /\ pass[i] = "check"
  /\ Goto(i, IF sinceRecorded >= MinInterval THEN "send" ELSE "idle")
  /\ UNCHANGED <<sinceRecorded, sinceSent, messages>>

SendText(i) ==
  /\ pass[i] = "send" /\ messages < MaxMessages
  /\ messages' = messages + 1
  /\ sinceSent' = 0
  /\ Goto(i, "record")
  /\ UNCHANGED sinceRecorded

\* The bridge refused, or the instance died: the run is tried again later.
SendFails(i) ==
  /\ pass[i] = "send"
  /\ Goto(i, "idle")
  /\ UNCHANGED <<sinceRecorded, sinceSent, messages>>

RecordSent(i) ==
  /\ pass[i] = "record"
  /\ sinceRecorded' = 0
  /\ Goto(i, "idle")
  /\ UNCHANGED <<sinceSent, messages>>

PacingTick ==
  /\ sinceRecorded' = Later(sinceRecorded)
  /\ sinceSent' = Later(sinceSent)
  /\ UNCHANGED <<pass, messages>>

PacingNext ==
  \/ PacingTick
  \/ \E i \in Instances :
       ClaimRun(i) \/ CheckInterval(i) \/ SendText(i) \/ SendFails(i) \/ RecordSent(i)

PacingSpec == PacingInit /\ [][PacingNext]_pacingVars

----------------------------------------------------------------------------

\* "WhatsApp: no máximo um envio a cada WHATSAPP_MIN_INTERVAL_SECONDS ... por
\* workspace" (docs/campaigns.md:33): two messages are never closer than that.
SendsPaced ==
  [][messages' # messages => sinceSent >= MinInterval]_pacingVars
=============================================================================
