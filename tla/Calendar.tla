------------------------------ MODULE Calendar ------------------------------
(***************************************************************************)
(* The two-way calendar: CalendarIntegrationService of                     *)
(* apps/api/src/modules/calendar-integration/calendar-integration.service.ts *)
(* and the event requests of modules/crud/crud.service.ts, against Google  *)
(* Calendar. A request or a sync is a row write, a call to Google, which   *)
(* may fail or succeed without an answer, and another row write; one       *)
(* request may run during a sync. The workspace stays connected; every     *)
(* event is scheduled and inside the window that is synchronised.          *)
(***************************************************************************)
EXTENDS Naturals, FiniteSets

CONSTANTS
  Events,                   \* rows of CalendarEvent that may exist
  Copies,                   \* events that may exist at Google
  Contents,                 \* what an event says
  None                      \* no row, no externalId, no content

ASSUME CalendarAssumption == None \notin Contents \cup Copies \cup Events

VARIABLES
  row,                      \* the rows
  google,                   \* the events at Google
  synced,                   \* config.lastSyncAt is set
  request,                  \* the user's request: its statement, row and values
  sync,                     \* the sync: its statement and what it has read
  calm                      \* history: no request ever overlapped a sync

calendarVars == <<row, google, synced, request, sync, calm>>

\* changed: updatedAt is later than lastSyncAt.
RowState == [state : {"none", "live", "deleted"}, copy : Copies \cup {None},
             source : {"KLYVERO", "GOOGLE"}, content : Contents \cup {None}, changed : BOOLEAN]
CopyState == [state : {"none", "live", "cancelled"}, content : Contents \cup {None}]

NoRequest == [pc |-> "idle", event |-> None, copy |-> None, content |-> None]
NoSync == [pc |-> "idle", push |-> {}, items |-> {}, event |-> None, copy |-> None, content |-> None,
           quiet |-> TRUE, mine |-> {}]

CalendarInit ==
  /\ row = [e \in Events |-> [state |-> "none", copy |-> None, source |-> "KLYVERO",
                              content |-> None, changed |-> FALSE]]
  /\ google = [g \in Copies |-> [state |-> "none", content |-> None]]
  /\ synced = FALSE
  /\ request = NoRequest
  /\ sync = NoSync
  /\ calm = TRUE

Live == {e \in Events : row[e].state = "live"}
LiveCopies == {g \in Copies : google[g].state = "live"}
Syncing == sync.pc # "idle"

\* Whatever happens while a sync runs, the sync is no longer alone.
Disturb == sync' = [sync EXCEPT !.quiet = ~Syncing /\ @]

----------------------------------------------------------------------------
(* What a call of Google does, whether its answer comes or not *)

NewCopy(g, content) ==
  /\ google[g].state = "none"
  /\ google' = [google EXCEPT ![g] = [state |-> "live", content |-> content]]

\* push: update the copy; insert when there is none or it is gone. The copy
\* that now holds the content is g.
PushTo(copy, content, g) ==
  IF copy # None /\ google[copy].state = "live"
  THEN g = copy /\ google' = [google EXCEPT ![g].content = content]
  ELSE NewCopy(g, content)

----------------------------------------------------------------------------
(* createEvent, updateEvent, deleteEvent; trySyncEvent and tryDeleteRemote *)

Asked(pc, e, copy, content) ==
  /\ request' = [pc |-> pc, event |-> e, copy |-> copy, content |-> content]
  /\ calm' = (calm /\ ~Syncing)
  /\ Disturb

CreateEvent(e, content) ==
  /\ request.pc = "idle" /\ row[e].state = "none"
  /\ row' = [row EXCEPT ![e] = [state |-> "live", copy |-> None, source |-> "KLYVERO",
                                content |-> content, changed |-> TRUE]]
  /\ Asked("push", e, None, content)
  /\ UNCHANGED <<google, synced>>

UpdateEvent(e, content) ==
  /\ request.pc = "idle" /\ e \in Live
  /\ content # row[e].content
  /\ row' = [row EXCEPT ![e].content = content, ![e].changed = TRUE]
  /\ Asked("push", e, row[e].copy, content)
  /\ UNCHANGED <<google, synced>>

DeleteEvent(e) ==
  /\ request.pc = "idle" /\ e \in Live
  /\ row' = [row EXCEPT ![e].state = "deleted"]
  /\ Asked(IF row[e].copy = None THEN "idle" ELSE "delete", e, row[e].copy, None)
  /\ UNCHANGED <<google, synced>>

\* Google served the call; without an answer the row keeps its externalId.
RequestPush(g) ==
  /\ request.pc = "push"
  /\ PushTo(request.copy, request.content, g)
  /\ \E answered \in BOOLEAN :
       request' = IF answered THEN [request EXCEPT !.pc = "store", !.copy = g] ELSE NoRequest
  /\ Disturb
  /\ UNCHANGED <<row, synced, calm>>

RequestStore ==
  /\ request.pc = "store"
  /\ row' = IF request.event \in Live
            THEN [row EXCEPT ![request.event].copy = request.copy,
                             ![request.event].changed = TRUE]
            ELSE row
  /\ request' = NoRequest
  /\ Disturb
  /\ UNCHANGED <<google, synced, calm>>

RequestDelete ==
  /\ request.pc = "delete"
  /\ google' = [google EXCEPT ![request.copy].state = "cancelled"]
  /\ request' = NoRequest
  /\ Disturb
  /\ UNCHANGED <<row, synced, calm>>

\* Google refuses, or the process dies: best effort.
RequestFails ==
  /\ request.pc # "idle"
  /\ request' = NoRequest
  /\ Disturb
  /\ UNCHANGED <<row, google, synced, calm>>

----------------------------------------------------------------------------
(* The owner of the Google calendar *)

GoogleCreates(g, content) ==
  /\ NewCopy(g, content)
  /\ Disturb
  /\ UNCHANGED <<row, synced, request, calm>>

GoogleEdits(g, content) ==
  /\ g \in LiveCopies /\ content # google[g].content
  /\ google' = [google EXCEPT ![g].content = content]
  /\ Disturb
  /\ UNCHANGED <<row, synced, request, calm>>

GoogleDeletes(g) ==
  /\ g \in LiveCopies
  /\ google' = [google EXCEPT ![g].state = "cancelled"]
  /\ Disturb
  /\ UNCHANGED <<row, synced, request, calm>>

----------------------------------------------------------------------------
(* sync *)

\* Only what is new or changed since the previous sync.
NewOrChanged(e) == ~synced \/ row[e].copy = None \/ row[e].changed

\* The rows to push, as they are read now.
StartSync ==
  /\ sync.pc = "idle"
  /\ LET mine == {e \in Live : row[e].source = "KLYVERO"}
         push == {<<e, row[e].copy, row[e].content>> : e \in {e \in mine : NewOrChanged(e)}}
     IN  sync' = [NoSync EXCEPT !.pc = "push", !.push = push,
                                !.quiet = (request.pc = "idle"),
                                !.mine = {<<e, row[e].content>> :
                                            e \in {e \in mine : row[e].copy = None \/ row[e].changed}}]
  /\ calm' = (calm /\ request.pc = "idle")
  /\ UNCHANGED <<row, google, synced, request>>

SyncPush(g) ==
  /\ sync.pc = "push" /\ sync.event = None
  /\ \E p \in sync.push :
       /\ PushTo(p[2], p[3], g)
       /\ \E answered \in BOOLEAN :
            sync' = IF answered
                    THEN [sync EXCEPT !.push = @ \ {p}, !.event = p[1], !.copy = g]
                    ELSE [sync EXCEPT !.push = @ \ {p}, !.quiet = FALSE]
  /\ UNCHANGED <<row, synced, request, calm>>

SyncStore ==
  /\ sync.pc = "push" /\ sync.event # None
  /\ row' = IF sync.event \in Live
            THEN [row EXCEPT ![sync.event].copy = sync.copy, ![sync.event].changed = TRUE]
            ELSE row
  /\ sync' = [sync EXCEPT !.event = None, !.copy = None]
  /\ UNCHANGED <<google, synced, request, calm>>

\* Google refuses a push; the sync goes on and counts it.
SyncPushFails ==
  /\ sync.pc = "push" /\ sync.event = None
  /\ \E p \in sync.push : sync' = [sync EXCEPT !.push = @ \ {p}, !.quiet = FALSE]
  /\ UNCHANGED <<row, google, synced, request, calm>>

\* events.list, deleted events too.
ListCopies ==
  /\ sync.pc = "push" /\ sync.event = None /\ sync.push = {}
  /\ sync' = [sync EXCEPT !.pc = "import",
                          !.items = {<<g, google[g]>> : g \in {g \in Copies : google[g].state # "none"}}]
  /\ UNCHANGED <<row, google, synced, request, calm>>

\* A variant that leaves the rows of deleted copies.
CancelledKept(e) == row' = row

RemoveCancelled(e) == row' = [row EXCEPT ![e].state = "deleted"]

\* One item: the row with its id is updated or deleted, or a row is created.
ImportCopy(g) ==
  /\ sync.pc = "import"
  /\ \E item \in sync.items :
       /\ item[1] = g
       /\ LET known == {e \in Live : row[e].copy = g} IN
            IF item[2].state = "cancelled"
            THEN \/ known = {} /\ UNCHANGED row
                 \/ \E e \in known : RemoveCancelled(e)
            ELSE \/ \E e \in known :
                      row' = [row EXCEPT ![e].content = item[2].content, ![e].changed = TRUE]
                 \/ /\ known = {}
                    /\ \E e \in Events :
                         /\ row[e].state = "none"
                         /\ row' = [row EXCEPT ![e] =
                              [state |-> "live", copy |-> g, source |-> "GOOGLE",
                               content |-> item[2].content, changed |-> TRUE]]
       /\ sync' = [sync EXCEPT !.items = @ \ {item}]
  /\ UNCHANGED <<google, synced, request, calm>>

\* lastSyncAt becomes the time of this step: nothing is changed since.
EndSync ==
  /\ sync.pc = "import" /\ sync.items = {}
  /\ synced' = TRUE
  /\ row' = [e \in Events |-> [row[e] EXCEPT !.changed = FALSE]]
  /\ sync' = NoSync
  /\ UNCHANGED <<google, request, calm>>

\* Google cannot be reached, or the process dies.
SyncFails ==
  /\ Syncing
  /\ sync' = NoSync
  /\ UNCHANGED <<row, google, synced, request, calm>>

CalendarNext ==
  \/ \E e \in Events : DeleteEvent(e) \/ \E c \in Contents : CreateEvent(e, c) \/ UpdateEvent(e, c)
  \/ RequestStore \/ RequestDelete \/ RequestFails
  \/ StartSync \/ SyncStore \/ SyncPushFails \/ ListCopies \/ EndSync \/ SyncFails
  \/ \E g \in Copies :
       \/ RequestPush(g) \/ SyncPush(g) \/ ImportCopy(g) \/ GoogleDeletes(g)
       \/ \E c \in Contents : GoogleCreates(g, c) \/ GoogleEdits(g, c)

CalendarSpec == CalendarInit /\ [][CalendarNext]_calendarVars

----------------------------------------------------------------------------
(* Properties *)

CalendarTypeOK ==
  /\ row \in [Events -> RowState]
  /\ google \in [Copies -> CopyState]
  /\ synced \in BOOLEAN /\ calm \in BOOLEAN
  /\ request.pc \in {"idle", "push", "store", "delete"}
  /\ sync.pc \in {"idle", "push", "import"} /\ sync.quiet \in BOOLEAN

Ending == sync.pc = "import" /\ sync.items = {} /\ sync.quiet

\* The events here and the ones at Google correspond one to one and agree.
Mirrored ==
  /\ \A e \in Live : /\ row[e].copy \in LiveCopies
                     /\ google[row[e].copy].content = row[e].content
  /\ \A g \in LiveCopies : Cardinality({e \in Live : row[e].copy = g}) = 1

\* "Two-way sync: pulls Google's window and pushes Klyvero events that are new
\* or changed locally" (calendar-integration.service.ts:261): when a sync in which
\* nothing failed and nothing else happened ends, both sides agree and what was
\* new or changed here is what they say, whatever pushes failed, lost their
\* answer or died before it, as long as no request ever overlapped a sync.
QuietSyncMirrors ==
  calm /\ Ending =>
    Mirrored /\ \A m \in sync.mine : m[1] \in Live /\ row[m[1]].content = m[2]
=============================================================================
