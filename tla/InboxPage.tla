------------------------------ MODULE InboxPage ------------------------------
(***************************************************************************)
(* The pages that show conversations: apps/web/app/app/inbox/page.tsx,     *)
(* which reads the list again every ten seconds, and email/page.tsx, which *)
(* reads it when asked to. A read is answered at any time after others and *)
(* replaces what is shown. What a promise does when it settles is one      *)
(* step, with the effects of the render that follows. Messages are         *)
(* numbered as they are stored; wording, subjects and mailboxes are left   *)
(* out.                                                                    *)
(***************************************************************************)
EXTENDS Naturals, FiniteSets, FiniteSetsExt

CONSTANTS
  Threads,                  \* rows of MessageThread that may exist
  Mailed,                   \* those of the channel EMAIL that the inbox lists
  Nowhere,                  \* no conversation
  MaxStored,                \* bound: messages that are ever stored
  MaxLoads                  \* bound: reads of the list at the same time

ASSUME InboxAssumption ==
  /\ MaxStored \in Nat /\ MaxLoads \in Nat
  /\ Nowhere \notin Threads /\ Mailed \subseteq Threads

VARIABLES
  of,                       \* of each message ever stored: its conversation
  kept,                     \* the messages that are stored
  page,                     \* what the page shows
  loads,                    \* reads under way, at most one of each purpose
  sending,                  \* where the message on its way goes
  erasing,                  \* the deletion under way (deletingId)
  moved                     \* history: the chosen conversation left the list

inboxVars == <<of, kept, page, loads, sending, erasing, moved>>

Ever == 1..MaxStored
Purposes == {"page", "send", "erasure"}
NoLoad == [pc |-> "idle", saw |-> {}, upTo |-> 0]
NoErasure == [of |-> Nowhere, todo |-> {}, whole |-> FALSE, failed |-> FALSE]
Posted == {m \in Ever : of[m] # Nowhere}
MessagesOf(t, ms) == {m \in ms : of[m] = t}

FirstPage(kind) ==
  [kind |-> kind, channel |-> IF kind = "email" THEN "EMAIL" ELSE "WHATSAPP",
   rows |-> {}, shown |-> {}, upTo |-> 0, found |-> Threads,
   chosen |-> Nowhere, draft |-> Nowhere, loading |-> TRUE]

InboxInit ==
  /\ of = [m \in Ever |-> Nowhere] /\ kept = {}
  /\ page \in {FirstPage("inbox"), FirstPage("email")}
  /\ loads = [l \in Purposes |-> [NoLoad EXCEPT !.pc = IF l = "page" THEN "sent" ELSE "idle"]]
  /\ sending = Nowhere
  /\ erasing = NoErasure
  /\ moved = FALSE

----------------------------------------------------------------------------
(* What is in view *)

\* The page of e-mails is opened in a workspace that has no others.
Channel(t) == IF t \in Mailed \/ page.kind = "email" THEN "EMAIL" ELSE "WHATSAPP"
Visible(p) == {t \in p.rows \cap p.found : Channel(t) = p.channel}

\* The newest message shown, or else updatedAt, orders the inbox; updatedAt
\* alone orders the e-mails.
Newness(p, t) ==
  LET shown == MessagesOf(t, p.shown)
  IN  Max(IF p.kind = "inbox" /\ shown # {} THEN shown ELSE MessagesOf(t, 1..p.upTo))

InView(p) ==
  IF p.chosen \in Visible(p) THEN p.chosen
  ELSE IF Visible(p) = {} THEN Nowhere
  ELSE CHOOSE t \in Visible(p) : \A u \in Visible(p) : Newness(p, t) >= Newness(p, u)

\* A variant that shows the first conversation without choosing it.
Rendered(p) == p

\* The effect of a render chooses the conversation in view when none is chosen.
Pinned(p) == IF p.chosen = Nowhere THEN [p EXCEPT !.chosen = InView(p)] ELSE p

\* The page after a step, and whether the view moved without a click.
Show(p) ==
  /\ page' = Pinned(p)
  /\ moved' = (moved \/ page'.chosen \notin {Nowhere} \cup Visible(page'))

----------------------------------------------------------------------------
(* The rows *)

\* A conversation is deleted with its last message and does not come back.
Lives(t) == MessagesOf(t, kept) # {} \/ MessagesOf(t, Posted) = {}

Store(t) ==
  LET m == Cardinality(Posted) + 1
  IN  /\ m <= MaxStored /\ Lives(t)
      /\ of' = [of EXCEPT ![m] = t]
      /\ kept' = kept \cup {m}

MessageArrives(t) ==
  /\ Store(t)
  /\ UNCHANGED <<page, loads, sending, erasing, moved>>

\* Another user deletes a message.
DeletedElsewhere(m) ==
  /\ m \in kept
  /\ kept' = kept \ {m}
  /\ UNCHANGED <<of, page, loads, sending, erasing, moved>>

----------------------------------------------------------------------------
(* load *)

UnderWay == {l \in Purposes : loads[l].pc # "idle"}

Asking(why) ==
  /\ why \notin UnderWay /\ Cardinality(UnderWay) < MaxLoads
  /\ loads' = [loads EXCEPT ![why].pc = "sent"]

\* The button of the e-mails is disabled while they load.
Reload ==
  /\ Asking("page")
  /\ page.kind = "email" => ~page.loading
  /\ page' = [page EXCEPT !.loading = page.kind = "email"]
  /\ UNCHANGED <<of, kept, sending, erasing, moved>>

ServeLoad(l) ==
  /\ loads[l].pc = "sent"
  /\ loads' = [loads EXCEPT ![l].pc = "answered", ![l].saw = kept,
                            ![l].upTo = Cardinality(Posted)]
  /\ UNCHANGED <<of, kept, page, sending, erasing, moved>>

\* What waited for the read goes on, whether it succeeded or not.
LoadSettles(l) ==
  /\ loads' = [loads EXCEPT ![l] = NoLoad]
  /\ sending' = IF l = "send" THEN Nowhere ELSE sending
  /\ erasing' = IF l = "erasure" THEN NoErasure ELSE erasing
  /\ UNCHANGED <<of, kept>>

LoadAnswered(l) ==
  LET saw == {m \in loads[l].saw : page.kind = "email" => Channel(of[m]) = "EMAIL"}
  IN  /\ loads[l].pc = "answered"
      /\ Show([page EXCEPT !.rows = {of[m] : m \in saw}, !.shown = saw,
                           !.upTo = loads[l].upTo, !.loading = FALSE])
      /\ LoadSettles(l)

LoadFails(l) ==
  /\ loads[l].pc \in {"sent", "answered"}
  /\ page' = [page EXCEPT !.loading = FALSE]
  /\ LoadSettles(l)
  /\ UNCHANGED moved

----------------------------------------------------------------------------
(* Choosing, searching and writing *)

\* What a search of the inbox may find: everything, or one conversation. (The
\* search of the e-mails works alike and is left out.)
Matches == {Threads} \cup {{t} : t \in Threads}

\* What is typed stays in the field when another conversation is chosen.
ChooseThread(t) ==
  /\ t \in Visible(page) /\ ~page.loading
  /\ page' = [page EXCEPT !.chosen = t, !.draft = IF @ = Nowhere THEN Nowhere ELSE t]
  /\ moved' = FALSE
  /\ UNCHANGED <<of, kept, loads, sending, erasing>>

Search(found) ==
  /\ page.kind = "inbox"
  /\ Show([page EXCEPT !.found = found])
  /\ UNCHANGED <<of, kept, loads, sending, erasing>>

ChooseChannel(c) ==
  /\ page.kind = "inbox" /\ c # page.channel
  /\ page' = Pinned([page EXCEPT !.channel = c, !.chosen = Nowhere, !.draft = Nowhere])
  /\ moved' = FALSE
  /\ UNCHANGED <<of, kept, loads, sending, erasing>>

Write ==
  /\ page.kind = "inbox" /\ InView(page) # Nowhere
  /\ page' = [page EXCEPT !.draft = InView(page)]
  /\ UNCHANGED <<of, kept, loads, sending, erasing, moved>>

PostText ==
  /\ page.draft # Nowhere /\ InView(page) # Nowhere /\ sending = Nowhere
  /\ sending' = InView(page)
  /\ UNCHANGED <<of, kept, page, loads, erasing, moved>>

\* The page of e-mails asks for the address in a dialog of its own.
SendEmail(t) ==
  /\ page.kind = "email" /\ sending = Nowhere
  /\ sending' = t
  /\ UNCHANGED <<of, kept, page, loads, erasing, moved>>

\* The message is stored, the field is cleared and the list is read.
SendAnswered ==
  /\ sending # Nowhere
  /\ Store(sending)
  /\ page' = [page EXCEPT !.draft = Nowhere, !.loading = page.kind = "email"]
  /\ Asking("send")
  /\ UNCHANGED <<sending, erasing, moved>>

SendFails ==
  /\ sending # Nowhere /\ loads["send"].pc = "idle"
  /\ sending' = Nowhere
  /\ UNCHANGED <<of, kept, page, loads, erasing, moved>>

----------------------------------------------------------------------------
(* deleteMessage, clearConversation, deleteConversation *)

Erase(t, todo, whole) ==
  /\ erasing = NoErasure
  /\ erasing' = [NoErasure EXCEPT !.of = t, !.todo = todo, !.whole = whole]
  /\ UNCHANGED <<of, kept, page, loads, sending, moved>>

DeleteShown ==
  \E m \in MessagesOf(InView(page), page.shown) : Erase(InView(page), {m}, FALSE)

\* The messages that are in view, one call after the other; the e-mails offer
\* it for every row of the list.
ClearConversation(t) ==
  /\ t = InView(page) \/ (page.kind = "email" /\ ~page.loading /\ t \in Visible(page))
  /\ t # Nowhere
  /\ page.kind = "inbox" => MessagesOf(t, page.shown) # {}
  /\ Erase(t, MessagesOf(t, page.shown), TRUE)

\* One that shows no message has its own identifier deleted, with whatever
\* messages it has.
Doomed ==
  IF erasing.todo = {} THEN MessagesOf(erasing.of, kept) ELSE {Min(erasing.todo)}

\* The deletion is over: the row goes, and the choice with it if it was chosen
\* (in the inbox, whatever is chosen by now).
Erased ==
  LET p == IF erasing.whole
           THEN [page EXCEPT !.rows = @ \ {erasing.of},
                             !.shown = @ \ MessagesOf(erasing.of, Ever),
                             !.chosen = IF page.kind = "inbox" \/ @ = erasing.of
                                        THEN Nowhere ELSE @]
           ELSE [page EXCEPT !.shown = @ \ erasing.todo]
  IN  /\ erasing' = NoErasure
      /\ page' = Pinned(p)
      /\ moved' = (moved \/ erasing.whole)

\* The next call succeeds; the last one ends the deletion.
EraseNext ==
  /\ erasing # NoErasure /\ ~erasing.failed
  /\ Doomed # {} /\ Doomed \subseteq kept
  /\ kept' = kept \ Doomed
  /\ IF erasing.todo \subseteq Doomed
     THEN Erased
     ELSE erasing' = [erasing EXCEPT !.todo = @ \ Doomed] /\ UNCHANGED <<page, moved>>
  /\ UNCHANGED <<of, loads, sending>>

\* A call fails, as both do when the message is gone already. Only the deletion
\* of a whole conversation reads the list again before it ends.
EraseFails ==
  /\ erasing # NoErasure /\ ~erasing.failed
  /\ erasing' = IF erasing.whole THEN [erasing EXCEPT !.failed = TRUE] ELSE NoErasure
  /\ UNCHANGED <<of, kept, page, loads, sending, moved>>

ReloadAfterFailure ==
  /\ erasing.failed
  /\ Asking("erasure")
  /\ page' = [page EXCEPT !.loading = page.kind = "email"]
  /\ UNCHANGED <<of, kept, sending, erasing, moved>>

----------------------------------------------------------------------------
InboxNext ==
  \/ \E t \in Threads :
       MessageArrives(t) \/ ChooseThread(t) \/ SendEmail(t) \/ ClearConversation(t)
  \/ \E m \in Ever : DeletedElsewhere(m)
  \/ \E l \in Purposes : ServeLoad(l) \/ LoadAnswered(l) \/ LoadFails(l)
  \/ \E found \in Matches : Search(found)
  \/ \E c \in {"WHATSAPP", "EMAIL"} : ChooseChannel(c)
  \/ Reload \/ Write \/ PostText \/ SendAnswered \/ SendFails
  \/ DeleteShown \/ EraseNext \/ EraseFails \/ ReloadAfterFailure

InboxSpec == InboxInit /\ [][InboxNext]_inboxVars

----------------------------------------------------------------------------
(* Properties *)

Someplace == Threads \cup {Nowhere}

\* What is stored, shown and under way keeps its type.
InboxTypeOK ==
  /\ of \in [Ever -> Someplace] /\ kept \subseteq Posted
  /\ page.rows \subseteq Threads /\ page.shown \subseteq Posted
  /\ page.chosen \in Someplace /\ page.draft \in Someplace
  /\ \A l \in Purposes : loads[l].pc \in {"idle", "sent", "answered"}
  /\ sending \in Someplace /\ erasing.of \in Someplace

\* What is being written for one conversation stays under it, and is sent to it,
\* however the reads of the interval reorder the list (inbox/page.tsx:113-122,
\* 141-153), until that conversation leaves the list, a search hides it or the
\* deletion of a conversation ends.
DraftStaysPut ==
  page.draft # Nowhere /\ ~moved => page.draft = InView(page)
=============================================================================
