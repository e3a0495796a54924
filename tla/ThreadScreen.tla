----------------------------- MODULE ThreadScreen -----------------------------
(***************************************************************************)
(* A conversation in the mobile application,                               *)
(* apps/mobile/src/app/thread/[id].tsx, over                               *)
(* apps/api/src/modules/inbox/inbox.service.ts: the newest messages, which *)
(* are read again after a reply, and older ones, a page at a time, put in  *)
(* front of them. Messages are numbered by createdAt; no two have the same.*)
(***************************************************************************)
EXTENDS Naturals, Sequences, SequencesExt, FiniteSets

CONSTANTS
  PageSize,                 \* messages of a page (50)
  MaxPosts,                 \* bound: messages ever stored
  MaxTickets,               \* bound: reads of the newest messages
  Taps                      \* reads of older messages at the same time

ASSUME ThreadAssumption ==
  PageSize \in Nat \ {0} /\ MaxPosts \in Nat /\ MaxTickets \in Nat \ {0}

VARIABLES
  written,                  \* how many messages were ever stored
  erased,                   \* those that were deleted
  inbound,                  \* those that came in
  unread,                   \* those of them without readAt
  ticket,                   \* the newest ticket of useResource
  fetches,                  \* of each ticket: its read
  view,                     \* data, error, olderPages and the draft
  taps,                     \* the reads of older messages and their closures
  marks,                    \* are requests to mark it as read on their way
  reply,                    \* the reply under way
  slid                      \* history: the newest page was replaced, by a later
                            \* one, while older ones were shown or asked for

threadRows == <<written, erased, inbound, unread>>
threadVars == <<threadRows, ticket, fetches, view, taps, marks, reply, slid>>

Page == [items |-> <<>>, hasMore |-> FALSE]
NoFetch == [pc |-> "idle", page |-> Page]
NoTap == [pc |-> "idle", before |-> 0, older |-> <<>>, page |-> Page]

\* The screen of a conversation with some messages is opened.
ThreadInit ==
  /\ written \in 1..MaxPosts /\ erased = {}
  /\ inbound = {1} /\ unread = {1}
  /\ ticket = 1
  /\ fetches = [k \in 1..MaxTickets |-> IF k = 1 THEN [NoFetch EXCEPT !.pc = "sent"] ELSE NoFetch]
  /\ view = [loaded |-> FALSE, failed |-> FALSE, data |-> Page, paged |-> FALSE, older |-> Page,
             draft |-> FALSE]
  /\ taps = [t \in Taps |-> NoTap]
  /\ marks = FALSE
  /\ reply = "no"
  /\ slid = FALSE

Held == (1..written) \ erased
Shown == IF view.loaded THEN view.older.items \o view.data.items ELSE <<>>
HasMore == IF view.paged THEN view.older.hasMore ELSE view.data.hasMore

----------------------------------------------------------------------------
(* InboxService *)

\* A variant of lt that returns the message it was given once more.
AlsoBefore(m, k) == m <= k

Before(m, k) == m < k

\* A set of messages by createdAt.
InOrder(M) ==
  CHOOSE s \in [1..Cardinality(M) -> M] : \A i, j \in DOMAIN s : i < j => s[i] < s[j]

\* messages: one more than a page is read, to tell whether there are more.
PageBefore(k) ==
  LET found == InOrder({m \in Held : Before(m, k)})
      extra == IF Len(found) > PageSize THEN Len(found) - PageSize ELSE 0
  IN  [items |-> SubSeq(found, extra + 1, Len(found)), hasMore |-> extra > 0]

MessageComes ==
  /\ written < MaxPosts
  /\ written' = written + 1
  /\ inbound' = inbound \cup {written + 1} /\ unread' = unread \cup {written + 1}
  /\ UNCHANGED <<erased, ticket, fetches, view, taps, marks, reply, slid>>

MessageErased(m) ==
  /\ m \in Held
  /\ erased' = erased \cup {m} /\ unread' = unread \ {m}
  /\ UNCHANGED <<written, inbound, ticket, fetches, view, taps, marks, reply, slid>>

\* markRead marks what has come in by now, shown or not; or the request fails.
MarkRead ==
  /\ marks /\ marks' \in BOOLEAN
  /\ unread' \in {{}, unread}
  /\ UNCHANGED <<written, erased, inbound, ticket, fetches, view, taps, reply, slid>>

ServeFetch(k) ==
  /\ fetches[k].pc = "sent"
  /\ fetches' = [fetches EXCEPT ![k] = [pc |-> "answered", page |-> PageBefore(written + 1)]]
  /\ UNCHANGED <<threadRows, ticket, view, taps, marks, reply, slid>>

ServeTap(t) ==
  /\ taps[t].pc = "sent"
  /\ taps' = [taps EXCEPT ![t].pc = "answered", ![t].page = PageBefore(taps[t].before)]
  /\ UNCHANGED <<threadRows, ticket, fetches, view, marks, reply, slid>>

\* reply finds the number and a session, or the mailbox that wrote last, sends
\* and stores the message.
ServeReply ==
  /\ reply = "sent" /\ written < MaxPosts
  /\ written' = written + 1
  /\ reply' = "served"
  /\ UNCHANGED <<erased, inbound, unread, ticket, fetches, view, taps, marks, slid>>

----------------------------------------------------------------------------
(* The screen *)

Refetch ==
  /\ ticket < MaxTickets
  /\ ticket' = ticket + 1
  /\ fetches' = [fetches EXCEPT ![ticket + 1].pc = "sent"]

\* The button of an error, as often as it is pressed while it is shown.
RetryThread ==
  /\ view.failed
  /\ Refetch
  /\ UNCHANGED <<threadRows, view, taps, marks, reply, slid>>

\* The reply that waited for its read is over; the effect of new data follows.
Awaited(k) == IF reply = "reading" /\ k = ticket THEN "no" ELSE reply

FetchAnswered(k) ==
  /\ fetches[k].pc = "answered"
  /\ IF k = ticket
     THEN /\ view' = [view EXCEPT !.loaded = TRUE, !.failed = FALSE, !.data = fetches[k].page]
          /\ marks' = (marks \/ Range(fetches[k].page.items) \cap inbound # {})
          /\ slid' = (slid \/ (fetches[k].page # view.data
                                 /\ (view.paged \/ \E t \in Taps : taps[t].pc # "idle")))
     ELSE UNCHANGED <<view, marks, slid>>
  /\ fetches' = [fetches EXCEPT ![k] = NoFetch]
  /\ reply' = Awaited(k)
  /\ UNCHANGED <<threadRows, ticket, taps>>

\* An error is shown as long as there is nothing else to show.
FetchFails(k) ==
  /\ fetches[k].pc # "idle"
  /\ view' = IF k = ticket THEN [view EXCEPT !.failed = ~view.loaded] ELSE view
  /\ fetches' = [fetches EXCEPT ![k] = NoFetch]
  /\ reply' = Awaited(k)
  /\ UNCHANGED <<threadRows, ticket, taps, marks, slid>>

\* The button is pressed again while it loads: each call has its own closure.
LoadOlder(t) ==
  /\ HasMore /\ Shown # <<>> /\ taps[t].pc = "idle"
  /\ taps' = [taps EXCEPT ![t] = [NoTap EXCEPT !.pc = "sent", !.before = Shown[1],
                                               !.older = view.older.items]]
  /\ UNCHANGED <<threadRows, ticket, fetches, view, marks, reply, slid>>

OlderAnswered(t) ==
  /\ taps[t].pc = "answered"
  /\ view' = [view EXCEPT !.paged = TRUE,
                          !.older = [items |-> taps[t].page.items \o taps[t].older,
                                     hasMore |-> taps[t].page.hasMore]]
  /\ taps' = [taps EXCEPT ![t] = NoTap]
  /\ UNCHANGED <<threadRows, ticket, fetches, marks, reply, slid>>

OlderFails(t) ==
  /\ taps[t].pc # "idle"
  /\ taps' = [taps EXCEPT ![t] = NoTap]
  /\ UNCHANGED <<threadRows, ticket, fetches, view, marks, reply, slid>>

TypeReply ==
  /\ view' = [view EXCEPT !.draft = TRUE]
  /\ UNCHANGED <<threadRows, ticket, fetches, taps, marks, reply, slid>>

SendReply ==
  /\ view.draft /\ reply = "no"
  /\ reply' = "sent"
  /\ UNCHANGED <<threadRows, ticket, fetches, view, taps, marks, slid>>

ReplySent ==
  /\ reply = "served" /\ reply' = "reading"
  /\ view' = [view EXCEPT !.draft = FALSE]
  /\ Refetch
  /\ UNCHANGED <<threadRows, taps, marks, slid>>

\* Refused, or its answer is lost: the draft stays, to be sent again.
ReplyFails ==
  /\ reply \in {"sent", "served"} /\ reply' = "no"
  /\ UNCHANGED <<threadRows, ticket, fetches, view, taps, marks, slid>>

ThreadNext ==
  \/ MessageComes \/ MarkRead \/ ServeReply \/ RetryThread
  \/ TypeReply \/ SendReply \/ ReplySent \/ ReplyFails
  \/ \E m \in 1..MaxPosts : MessageErased(m)
  \/ \E k \in 1..MaxTickets : ServeFetch(k) \/ FetchAnswered(k) \/ FetchFails(k)
  \/ \E t \in Taps : ServeTap(t) \/ LoadOlder(t) \/ OlderAnswered(t) \/ OlderFails(t)

ThreadSpec == ThreadInit /\ [][ThreadNext]_threadVars

----------------------------------------------------------------------------
(* Properties *)

ThreadTypeOK ==
  /\ written \in 0..MaxPosts
  /\ unread \subseteq inbound /\ inbound \subseteq 1..MaxPosts /\ erased \subseteq 1..MaxPosts
  /\ ticket \in 1..MaxTickets /\ marks \in BOOLEAN
  /\ reply \in {"no", "sent", "served", "reading"}

\* Whatever the button is pressed twice, answers cross and replies bring the
\* newest page again, the conversation shows no message twice and none out of
\* order, and offers older ones as long as there are some, as long as none was
\* deleted; and it leaves no message out between two, unless the newest page
\* was replaced while older ones were shown or on their way.
ThreadInOrder ==
  view.loaded /\ erased = {} =>
    /\ \A i, j \in DOMAIN Shown : i < j => Shown[i] < Shown[j]
    /\ ~HasMore => Shown[1] = 1
    /\ ~slid => \A i \in DOMAIN Shown : i > 1 => Shown[i] = Shown[i - 1] + 1
=============================================================================
