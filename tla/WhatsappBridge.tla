--------------------------- MODULE WhatsappBridge ---------------------------
(***************************************************************************)
(* Pairing a phone: the sessions of the bridge                             *)
(* (services/whatsapp/internal/session/manager.go, httpapi/server.go), the *)
(* requests of the API that pass to them (modules/whatsapp) and the page   *)
(* that shows the QR code (apps/web/app/app/whatsapp/page.tsx). One        *)
(* workspace, one session id. Connect is serialised by connectMu; the      *)
(* goroutines that read the codes, the client and the calls of the page    *)
(* overlap with it.                                                        *)
(***************************************************************************)
EXTENDS Naturals

CONSTANTS
  MaxSessions,              \* bound: Session objects in use
  MaxReads,                 \* bound: calls of readPairing that overlap
  MaxFaults                 \* bound: calls that fail, restarts, lost links

ASSUME BridgeAssumption ==
  MaxSessions \in Nat \ {0} /\ MaxReads \in Nat \ {0} /\ MaxFaults \in Nat

VARIABLES
  mapped,                   \* the Session in the manager's map, 0 when none
  session,                  \* the Session objects, with client and channel
  device,                   \* the store on disk holds a paired device
  connect,                  \* the Connect that holds connectMu
  owned,                    \* the row of WhatsappConnection exists
  page,                     \* dialog, error, connecting, pollTimer
  read,                     \* the calls of readPairing and their answers
  faults

bridgeVars == <<mapped, session, device, connect, owned, page, read, faults>>
pageVars == <<owned, page, read>>

SessionIds == 1..MaxSessions
Reads == 1..MaxReads
Pending == {"starting", "waiting_for_scan"}
PairingStates == Pending \cup
  {"none", "initializing", "paired", "expired", "error", "connected", "reconnecting", "logged_out"}
ConnectPCs == {"idle", "asked", "pair", "channel", "dial", "redial", "restore", "ok", "error"}

\* readers: goroutines in consumeQR. item: what the channel brings last; it is
\* closed behind it.
NoSession == [state |-> "none", active |-> FALSE, readers |-> 0, cancelled |-> FALSE,
              item |-> "none", connected |-> FALSE, paired |-> FALSE, loggedIn |-> FALSE]

\* The calls of status and qr still to answer, and what the others said.
PairingAnswers == {"yes", "no", "failed"}
NoRead == [of |-> "none", left |-> 2, said |-> {}]

BridgeInit ==
  /\ mapped = 0
  /\ session = [s \in SessionIds |-> NoSession]
  /\ device = FALSE
  /\ connect = [pc |-> "idle", session |-> 0, new |-> FALSE]
  /\ owned = FALSE
  /\ page = [dialog |-> FALSE, failed |-> FALSE, connecting |-> FALSE, timer |-> FALSE]
  /\ read = [r \in Reads |-> NoRead]
  /\ faults = 0

\* An object is used again when nothing refers to it any more.
Referred(s) == s = mapped \/ session[s].readers > 0
LoggedIn == mapped # 0 /\ session[mapped].loggedIn
Fault == faults < MaxFaults /\ faults' = faults + 1

----------------------------------------------------------------------------
(* Connect *)

ConnectAt(pc) == connect.pc = pc
ConnectGoto(pc) == connect' = [connect EXCEPT !.pc = pc]

\* A session that fails while it is new is taken from the map again.
Fails ==
  /\ ConnectGoto("error")
  /\ mapped' = IF connect.new THEN 0 ELSE mapped

Route(s, new, paired) ==
  connect' = [pc |-> IF paired THEN "restore" ELSE "pair", session |-> s, new |-> new]

FindSession ==
  /\ ConnectAt("asked") /\ mapped # 0
  /\ Route(mapped, FALSE, session[mapped].paired)
  /\ UNCHANGED <<mapped, session, device, pageVars, faults>>

\* Published before it connects, with the device the store holds.
NewSession(s) ==
  /\ ConnectAt("asked") /\ mapped = 0
  /\ ~Referred(s) /\ \A t \in 1..(s - 1) : Referred(t)
  /\ mapped' = s
  /\ session' = [session EXCEPT ![s] = [NoSession EXCEPT !.state = "initializing", !.paired = device]]
  /\ Route(s, TRUE, device)
  /\ UNCHANGED <<device, pageVars, faults>>

\* A paired client connects again; being logged in comes later, as an event.
RestoreClient ==
  /\ ConnectAt("restore")
  /\ LET s == connect.session IN
       \/ /\ session' = [session EXCEPT
                ![s].connected = TRUE,
                ![s].state = IF session[s].loggedIn THEN "connected" ELSE "reconnecting"]
          /\ ConnectGoto("ok")
          /\ UNCHANGED <<mapped, faults>>
       \/ ~session[s].connected /\ Fault /\ Fails /\ UNCHANGED session
  /\ UNCHANGED <<device, pageVars>>

----------------------------------------------------------------------------
(* ensurePairing *)

PairingActive(s) == session[s].active

EnsurePairing ==
  /\ ConnectAt("pair")
  /\ LET s == connect.session IN
       IF PairingActive(s)
       THEN ConnectGoto("redial") /\ UNCHANGED session
       ELSE /\ session' = [session EXCEPT ![s].active = TRUE, ![s].state = "starting"]
            /\ ConnectGoto("channel")
  /\ UNCHANGED <<mapped, device, pageVars, faults>>

\* GetQRChannel is refused while the client is connected.
OpenChannel ==
  /\ ConnectAt("channel")
  /\ LET s == connect.session IN
       IF session[s].connected
       THEN /\ session' = [session EXCEPT ![s].active = FALSE, ![s].state = "error"]
            /\ Fails
       ELSE /\ session' = [session EXCEPT ![s].readers = @ + 1, ![s].cancelled = FALSE,
                                          ![s].item = "none"]
            /\ ConnectGoto("dial")
            /\ UNCHANGED mapped
  /\ UNCHANGED <<device, pageVars, faults>>

\* A variant whose error path does not call cancel.
Abandoned(s) == [s EXCEPT !.state = "error"]

\* The error path of ensurePairing.
Cancelled(s) == [s EXCEPT !.state = "error", !.cancelled = TRUE]

Dial ==
  /\ ConnectAt("dial")
  /\ LET s == connect.session IN
       \/ /\ session' = [session EXCEPT ![s].connected = TRUE]
          /\ ConnectGoto("ok")
          /\ UNCHANGED <<mapped, faults>>
       \/ /\ ~session[s].connected /\ Fault /\ Fails
          /\ session' = [session EXCEPT ![s] = Cancelled(@)]
  /\ UNCHANGED <<device, pageVars>>

\* Somebody reads the codes already: the error is returned and nothing marked.
Redial ==
  /\ ConnectAt("redial")
  /\ LET s == connect.session IN
       \/ /\ session' = [session EXCEPT ![s].connected = TRUE]
          /\ ConnectGoto("ok")
          /\ UNCHANGED <<mapped, faults>>
       \/ ~session[s].connected /\ Fault /\ Fails /\ UNCHANGED session
  /\ UNCHANGED <<device, pageVars>>

ConnectStep ==
  \/ FindSession \/ (\E s \in SessionIds : NewSession(s))
  \/ RestoreClient \/ EnsurePairing \/ OpenChannel \/ Dial \/ Redial

----------------------------------------------------------------------------
(* consumeQR *)

ChannelOpen(s) == session[s].readers > 0 /\ ~session[s].cancelled /\ session[s].item = "none"

ReadCode(s) ==
  /\ ChannelOpen(s) /\ session[s].connected
  /\ session' = [session EXCEPT ![s].state = "waiting_for_scan"]
  /\ UNCHANGED <<mapped, device, connect, pageVars, faults>>

Shown(item) ==
  CASE item = "success" -> "paired" [] item = "timeout" -> "expired" [] OTHER -> "error"

ReadItem(s) ==
  /\ session[s].readers > 0 /\ session[s].item \in {"success", "timeout", "error"}
  /\ session' = [session EXCEPT ![s].item = "closed", ![s].state = Shown(session[s].item)]
  /\ UNCHANGED <<mapped, device, connect, pageVars, faults>>
StateAfter(state) == IF state \in Pending THEN "expired" ELSE state

\* The channel is closed, or its context was cancelled.
EndReader(s) ==
  /\ session[s].readers > 0
  /\ session[s].item = "closed" \/ session[s].cancelled
  /\ session' = [session EXCEPT ![s].readers = @ - 1, ![s].active = FALSE,
                                ![s].state = StateAfter(@)]
  /\ UNCHANGED <<mapped, device, connect, pageVars, faults>>

----------------------------------------------------------------------------
(* The phone, the client and its events; handleEvent *)

Scan(s) ==
  /\ ChannelOpen(s) /\ session[s].state = "waiting_for_scan"
  /\ session' = [session EXCEPT ![s].item = "success", ![s].paired = TRUE]
  /\ device' = TRUE
  /\ UNCHANGED <<mapped, connect, pageVars, faults>>

\* No phone came, or the pairing failed; without a channel an unpaired client
\* is disconnected by the server.
GiveUp(s) ==
  /\ session[s].connected /\ ~session[s].paired
  /\ \/ /\ ChannelOpen(s)
        /\ \E item \in {"timeout", "error"} :
             session' = [session EXCEPT ![s].item = item, ![s].connected = FALSE]
     \/ /\ ~ChannelOpen(s)
        /\ session' = [session EXCEPT ![s].connected = FALSE]
  /\ UNCHANGED <<mapped, device, connect, pageVars, faults>>

\* events.Connected. A paired client connects again by itself.
Connected(s) ==
  /\ s = mapped /\ session[s].paired /\ ~session[s].loggedIn
  /\ session[s].state # "initializing"
  /\ session' = [session EXCEPT ![s].connected = TRUE, ![s].loggedIn = TRUE, ![s].state = "connected"]
  /\ UNCHANGED <<mapped, device, connect, pageVars, faults>>

LinkLost(s) ==
  /\ session[s].loggedIn /\ Fault
  /\ session' = [session EXCEPT ![s].connected = FALSE, ![s].loggedIn = FALSE]
  /\ UNCHANGED <<mapped, device, connect, pageVars>>

\* events.LoggedOut: the device is deleted from the store.
LoggedOut(s) ==
  /\ session[s].loggedIn /\ Fault
  /\ session' = [session EXCEPT ![s].connected = FALSE, ![s].loggedIn = FALSE,
                                ![s].paired = FALSE, ![s].state = "logged_out"]
  /\ device' = FALSE
  /\ UNCHANGED <<mapped, connect, pageVars>>

\* The bridge restarts: sessions come back only with the next Connect.
RestartBridge ==
  /\ Fault
  /\ mapped' = 0
  /\ session' = [s \in SessionIds |-> NoSession]
  /\ connect' = IF ConnectAt("idle") THEN connect ELSE [pc |-> "error", session |-> 0, new |-> FALSE]
  /\ UNCHANGED <<device, pageVars>>

----------------------------------------------------------------------------
(* The page *)

\* stopPolling: the timer is cleared, and calls on their way are of the past.
Stopped == [r \in Reads |-> IF read[r].of = "now" THEN [read[r] EXCEPT !.of = "past"] ELSE read[r]]

\* A call of readPairing begins in the first place that is free.
Begin(calls, of) ==
  \E r \in Reads :
    /\ calls[r].of = "none" /\ \A q \in 1..(r - 1) : calls[q].of # "none"
    /\ read' = [calls EXCEPT ![r].of = of]

\* The page is opened, or opened again: checkStatus. What it waited for is gone.
OpenPage ==
  /\ page' = [dialog |-> FALSE, failed |-> FALSE, connecting |-> FALSE, timer |-> FALSE]
  /\ Begin([r \in Reads |-> NoRead], "past")
  /\ UNCHANGED <<mapped, session, device, connect, owned, faults>>

CloseDialog ==
  /\ page.dialog
  /\ page' = [page EXCEPT !.dialog = FALSE]
  /\ UNCHANGED <<mapped, session, device, connect, owned, read, faults>>

\* send without a login opens the dialog and does not poll.
SendWithoutLogin ==
  /\ ~page.dialog
  /\ page' = [page EXCEPT !.dialog = TRUE, !.failed = TRUE]
  /\ UNCHANGED <<mapped, session, device, connect, owned, read, faults>>

\* A Connect the page no longer waits for may still hold connectMu.
ClickConnect ==
  /\ ~page.connecting /\ ConnectAt("idle")
  /\ page' = [page EXCEPT !.connecting = TRUE, !.failed = FALSE, !.timer = FALSE]
  /\ read' = Stopped
  /\ ConnectGoto("asked")
  /\ UNCHANGED <<mapped, session, device, owned, faults>>

\* The answer: the API keeps a row, the page shows the dialog and polls.
ConnectAnswered ==
  /\ ConnectAt("ok")
  /\ owned' = TRUE
  /\ ConnectGoto("idle")
  /\ IF ~page.connecting
     THEN UNCHANGED <<page, read>>
     ELSE \/ /\ LoggedIn
             /\ page' = [page EXCEPT !.connecting = FALSE, !.dialog = FALSE, !.timer = FALSE]
             /\ read' = Stopped
          \/ /\ ~LoggedIn
             /\ page' = [page EXCEPT !.connecting = FALSE, !.dialog = TRUE, !.timer = FALSE]
             /\ Begin(Stopped, "now")
  /\ UNCHANGED <<mapped, session, device, faults>>

\* The bridge refused, or its answer is lost: the error is shown.
ConnectFailed ==
  /\ ConnectAt("error") \/ (ConnectAt("ok") /\ Fault)
  /\ ConnectAt("error") => UNCHANGED faults
  /\ ConnectGoto("idle")
  /\ page' = IF page.connecting THEN [page EXCEPT !.connecting = FALSE, !.failed = TRUE] ELSE page
  /\ UNCHANGED <<mapped, session, device, owned, read>>

\* status and qr: without a row the bridge is not asked; without a session the
\* answer is an error, as when a call fails.
PairingAnswer == IF ~owned THEN "no" ELSE IF mapped = 0 THEN "failed" ELSE IF LoggedIn THEN "yes" ELSE "no"

ReadAnswered(r) ==
  /\ read[r].of # "none" /\ read[r].left > 0
  /\ \E answer \in {PairingAnswer, "failed"} :
       /\ read' = [read EXCEPT ![r].left = @ - 1, ![r].said = @ \cup {answer}]
       /\ IF answer = PairingAnswer THEN UNCHANGED faults ELSE Fault
  /\ UNCHANGED <<mapped, session, device, connect, owned, page>>

\* A variant that gives up when a call failed.
PollAnswered(r) == read[r].of = "now" /\ "failed" \notin read[r].said

PollAgain(r) == read[r].of = "now"

\* applyPairing of both answers; then a poll of this generation sets the timer.
ApplyRead(r) ==
  /\ read[r].of # "none" /\ read[r].left = 0
  /\ IF "yes" \in read[r].said
     THEN /\ page' = [page EXCEPT !.dialog = FALSE, !.timer = FALSE]
          /\ read' = [Stopped EXCEPT ![r] = NoRead]
     ELSE /\ page' = [page EXCEPT !.timer = PollAgain(r) \/ @]
          /\ read' = [read EXCEPT ![r] = NoRead]
  /\ UNCHANGED <<mapped, session, device, connect, owned, faults>>

Poll ==
  /\ page.timer
  /\ page' = [page EXCEPT !.timer = FALSE]
  /\ Begin(read, "now")
  /\ UNCHANGED <<mapped, session, device, connect, owned, faults>>

PageStep ==
  \/ ConnectAnswered \/ ConnectFailed \/ Poll
  \/ \E r \in Reads : ReadAnswered(r) \/ ApplyRead(r)

BridgeNext ==
  \/ ConnectStep \/ RestartBridge
  \/ \E s \in SessionIds :
       \/ ReadCode(s) \/ ReadItem(s) \/ EndReader(s)
       \/ Scan(s) \/ GiveUp(s) \/ Connected(s) \/ LinkLost(s) \/ LoggedOut(s)
  \/ OpenPage \/ CloseDialog \/ SendWithoutLogin \/ ClickConnect \/ PageStep

BridgeSpec == BridgeInit /\ [][BridgeNext]_bridgeVars

\* The bridge works on a Connect, calls end and timers fire. No phone has to
\* scan, and no user has to click.
BridgeFair ==
  /\ WF_bridgeVars(ConnectStep)
  /\ WF_bridgeVars(ConnectAnswered \/ ConnectFailed)
  /\ WF_bridgeVars(Poll)
  /\ \A r \in Reads : WF_bridgeVars(ReadAnswered(r) \/ ApplyRead(r))

----------------------------------------------------------------------------
(* Properties *)

BridgeTypeOK ==
  /\ mapped \in 0..MaxSessions
  /\ session \in [SessionIds -> [state : PairingStates, active : BOOLEAN, readers : 0..1,
                                 cancelled : BOOLEAN, connected : BOOLEAN, paired : BOOLEAN,
                                 loggedIn : BOOLEAN,
                                 item : {"none", "success", "timeout", "error", "closed"}]]
  /\ device \in BOOLEAN /\ owned \in BOOLEAN
  /\ connect \in [pc : ConnectPCs, session : 0..MaxSessions, new : BOOLEAN]
  /\ page \in [dialog : BOOLEAN, failed : BOOLEAN, connecting : BOOLEAN, timer : BOOLEAN]
  /\ read \in [Reads -> [of : {"none", "now", "past"}, left : 0..2, said : SUBSET PairingAnswers]]
  /\ faults \in 0..MaxFaults

\* A session has at most one goroutine that reads its codes; one whose Connect
\* failed has been cancelled (manager.go:256); and a session that shows that it
\* starts, or waits for a scan, has somebody who will change that, however
\* Connect, its failures, the phone and the end of a pairing interleave.
PairingAlive ==
  \A s \in SessionIds :
    /\ session[s].readers <= 1
    /\ session[s].readers > 0 => session[s].active /\ (s # mapped => session[s].cancelled)
    /\ session[s].state \in Pending =>
         session[s].readers > 0 \/ (ConnectAt("channel") /\ connect.session = s)

\* "O código será atualizado automaticamente" (page.tsx:613): once the phone
\* stays logged in, a dialog that polls is closed, unless the user asks for
\* another code or is shown an error, whatever calls fail or come late.
PairingNoticed ==
  <>[]LoggedIn =>
    (page.dialog /\ (page.timer \/ \E r \in Reads : read[r].of = "now"))
      ~> (~page.dialog \/ page.connecting \/ page.failed)
=============================================================================
