---------------------------- MODULE Conversations ----------------------------
(***************************************************************************)
(* The conversation of one sender: how messages are stored under it        *)
(* (handleEvent and sendText of whatsapp.service.ts, statement by          *)
(* statement and without a transaction) and how the inbox deletes them     *)
(* (crud.service.ts). Every statement of a request may be followed by      *)
(* those of another, and a look-up without an order may find any row.      *)
(***************************************************************************)
EXTENDS Naturals, FiniteSets

CONSTANTS
  Writers,                  \* requests that store a message
  Deletions,                \* requests that delete one
  Externals,                \* identifiers of inbound messages
  Own,                      \* the identifier of a message of ours
  MaxContacts, MaxThreads, MaxMessages      \* bounds: rows ever inserted

ASSUME ConversationsAssumption ==
  /\ MaxContacts \in Nat /\ MaxThreads \in Nat /\ MaxMessages \in Nat
  /\ Own \notin Externals

VARIABLES
  contacts,                 \* rows of Contact with the sender's number
  threads,                  \* of each row of MessageThread its contact, 0 without a row
  touched,                  \* threads whose lastMessageAt is set
  messages,                 \* of each row of Message its thread (0 without) and externalId
  writer,                   \* of each writer: its local variables
  deletion                  \* of each deletion: its local variables

conversationVars == <<contacts, threads, touched, messages, writer, deletion>>

ContactIds == 1..MaxContacts
ThreadIds == 1..MaxThreads
MessageIds == 1..MaxMessages
WriterPCs == {"idle", "contact", "newContact", "thread", "newThread", "message", "touch"}
NoWriter == [pc |-> "idle", external |-> Own, contact |-> 0, thread |-> 0]
NoDeletion == [pc |-> "idle", thread |-> 0]
NoMessage == [thread |-> 0, external |-> Own, used |-> FALSE]

ConversationsInit ==
  /\ contacts = {}
  /\ threads = [t \in ThreadIds |-> 0] /\ touched = {}
  /\ messages = [m \in MessageIds |-> NoMessage]
  /\ writer = [w \in Writers |-> NoWriter]
  /\ deletion = [x \in Deletions |-> NoDeletion]

WriterAt(w, pc) == writer[w].pc = pc
WriterGoto(w, pc) == writer' = [writer EXCEPT ![w].pc = pc]
WriterEnds(w) == writer' = [writer EXCEPT ![w] = NoWriter]

InThread(t) == t # 0 /\ threads[t] # 0
Stored(e) == e # Own /\ \E m \in MessageIds : messages[m].thread # 0 /\ messages[m].external = e

\* A variant that counts the messages of the tenant.
RemainingAnywhere(t) == {m \in MessageIds : messages[m].thread # 0}

Remaining(t) == {m \in MessageIds : messages[m].thread = t}

\* Deleting a thread deletes its messages.
Cascade(t) ==
  /\ threads' = [threads EXCEPT ![t] = 0]
  /\ messages' = [m \in MessageIds |-> IF messages[m].thread = t
                                       THEN [messages[m] EXCEPT !.thread = 0] ELSE messages[m]]
  /\ touched' = touched \ {t}

----------------------------------------------------------------------------
(* Storing a message *)

\* An event of the bridge, once or again, that is not found among the messages.
Deliver(w, e) ==
  /\ WriterAt(w, "idle") /\ ~Stored(e)
  /\ writer' = [writer EXCEPT ![w] = [NoWriter EXCEPT !.pc = "contact", !.external = e]]
  /\ UNCHANGED <<contacts, threads, touched, messages, deletion>>

\* A message of ours has been sent.
Answer(w) ==
  /\ WriterAt(w, "idle")
  /\ writer' = [writer EXCEPT ![w] = [NoWriter EXCEPT !.pc = "contact"]]
  /\ UNCHANGED <<contacts, threads, touched, messages, deletion>>

FindContact(w) ==
  /\ WriterAt(w, "contact")
  /\ \/ contacts = {} /\ WriterGoto(w, "newContact")
     \/ \E c \in contacts : writer' = [writer EXCEPT ![w].pc = "thread", ![w].contact = c]
  /\ UNCHANGED <<contacts, threads, touched, messages, deletion>>

CreateContact(w) ==
  LET c == Cardinality(contacts) + 1
  IN  /\ WriterAt(w, "newContact") /\ c \in ContactIds
      /\ contacts' = contacts \cup {c}
      /\ writer' = [writer EXCEPT ![w].pc = "thread", ![w].contact = c]
      /\ UNCHANGED <<threads, touched, messages, deletion>>

FindThread(w) ==
  LET own == {t \in ThreadIds : threads[t] = writer[w].contact}
  IN  /\ WriterAt(w, "thread")
      /\ \/ own = {} /\ WriterGoto(w, "newThread")
         \/ \E t \in own : writer' = [writer EXCEPT ![w].pc = "message", ![w].thread = t]
      /\ UNCHANGED <<contacts, threads, touched, messages, deletion>>

CreateThread(w) ==
  /\ WriterAt(w, "newThread")
  /\ \E t \in ThreadIds :
       /\ threads[t] = 0 /\ Remaining(t) = {}
       /\ \A u \in Writers : writer[u].thread # t
       /\ \A x \in Deletions : deletion[x].thread # t
       /\ threads' = [threads EXCEPT ![t] = writer[w].contact]
       /\ writer' = [writer EXCEPT ![w].pc = "message", ![w].thread = t]
  /\ UNCHANGED <<contacts, touched, messages, deletion>>

\* The thread is gone, or the message is there already (P2002): an error or a
\* duplicate.
InsertFails(w) ==
  /\ WriterAt(w, "message")
  /\ ~InThread(writer[w].thread) \/ Stored(writer[w].external)
  /\ WriterEnds(w)
  /\ UNCHANGED <<contacts, threads, touched, messages, deletion>>

InsertMessage(w) ==
  /\ WriterAt(w, "message") /\ InThread(writer[w].thread) /\ ~Stored(writer[w].external)
  /\ \E m \in MessageIds :
       /\ ~messages[m].used /\ \A n \in 1..(m - 1) : messages[n].used
       /\ messages' = [messages EXCEPT ![m] =
            [thread |-> writer[w].thread, external |-> writer[w].external, used |-> TRUE]]
  /\ WriterGoto(w, "touch")
  /\ UNCHANGED <<contacts, threads, touched, deletion>>

\* lastMessageAt; the update throws when the thread is gone.
Touch(w) ==
  /\ WriterAt(w, "touch")
  /\ touched' = IF InThread(writer[w].thread) THEN touched \cup {writer[w].thread} ELSE touched
  /\ WriterEnds(w)
  /\ UNCHANGED <<contacts, threads, messages, deletion>>

----------------------------------------------------------------------------
(* Deleting *)

DeleteMessage(x, m) ==
  /\ deletion[x].pc = "idle" /\ messages[m].thread # 0
  /\ deletion' = [deletion EXCEPT ![x] = [pc |-> "count", thread |-> messages[m].thread]]
  /\ messages' = [messages EXCEPT ![m].thread = 0]
  /\ UNCHANGED <<contacts, threads, touched, writer>>

CountRemaining(x) ==
  /\ deletion[x].pc = "count"
  /\ deletion' = [deletion EXCEPT ![x] =
       IF Remaining(@.thread) = {} THEN [@ EXCEPT !.pc = "remove"] ELSE NoDeletion]
  /\ UNCHANGED <<contacts, threads, touched, messages, writer>>

\* What was stored after the count goes with the thread.
RemoveThread(x) ==
  /\ deletion[x].pc = "remove"
  /\ Cascade(deletion[x].thread)
  /\ deletion' = [deletion EXCEPT ![x] = NoDeletion]
  /\ UNCHANGED <<contacts, writer>>

DeleteThread(t) ==
  /\ InThread(t)
  /\ Cascade(t)
  /\ UNCHANGED <<contacts, writer, deletion>>

ConversationsNext ==
  \/ \E w \in Writers :
       \/ \E e \in Externals : Deliver(w, e)
       \/ Answer(w) \/ FindContact(w) \/ CreateContact(w) \/ FindThread(w) \/ CreateThread(w)
       \/ InsertFails(w) \/ InsertMessage(w) \/ Touch(w)
  \/ \E x \in Deletions :
       \/ \E m \in MessageIds : DeleteMessage(x, m)
       \/ CountRemaining(x) \/ RemoveThread(x)
  \/ \E t \in ThreadIds : DeleteThread(t)

ConversationsSpec == ConversationsInit /\ [][ConversationsNext]_conversationVars

----------------------------------------------------------------------------
ConversationsTypeOK ==
  /\ contacts \subseteq ContactIds
  /\ threads \in [ThreadIds -> {0} \cup ContactIds] /\ touched \subseteq ThreadIds
  /\ messages \in [MessageIds -> [thread : {0} \cup ThreadIds, external : Externals \cup {Own},
                                  used : BOOLEAN]]
  /\ writer \in [Writers -> [pc : WriterPCs, external : Externals \cup {Own},
                             contact : {0} \cup ContactIds, thread : {0} \cup ThreadIds]]
  /\ deletion \in [Deletions -> [pc : {"idle", "count", "remove"}, thread : {0} \cup ThreadIds]]

\* A conversation goes away with its last message, whoever deletes the others
\* at the same time and whatever is stored meanwhile: one that ever had a
\* message has one, or a request is about to remove it (deleteInboxMessage).
EmptyThreadsGo ==
  \A t \in touched :
    Remaining(t) # {} \/ \E x \in Deletions : deletion[x].thread = t
=============================================================================
