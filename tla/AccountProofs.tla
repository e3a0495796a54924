---------------------------- MODULE AccountProofs ----------------------------
(***************************************************************************)
(* Who may use the program, and for what: a subscription entitles only to  *)
(* what Stripe proved, an invite makes one workspace and an identity signs *)
(* up once, failed logins close the lock in time, the pages of who is not  *)
(* logged in say what was done, and the phone never sends a used token.    *)
(***************************************************************************)
EXTENDS Billing, Signup, LoginThrottling, PublicForms, MobileSession, RateLimits, WebSession,
        FiniteSetTheorems, TLAPS

----------------------------------------------------------------------------
(* Billing *)
(* A subscription entitles its tenant only to what an event of Stripe      *)
(* proved, for any number of plans, checkouts, events and handlers. The    *)
(* row names the event it was written from; events never change, and a     *)
(* handler only applies one whose receipt it wrote.                        *)

\* A handler at work has the receipt of its event.
HooksReceived ==
  \A h \in Handlers : hook[h].pc = "apply" => hook[h].event \in receipts

BillingInv == BillingTypeOK /\ HooksReceived /\ EntitlementProven

USE BillingAssumption

LEMMA BillingInitially == BillingInit => BillingInv
BY DEF BillingInit, BillingInv, BillingTypeOK, HooksReceived, EntitlementProven, NoRow, NoHook,
       Entitled, AtStripe, Event

\* One more event leaves the ones before it, and what they prove.
LEMMA EmitKeeps ==
  ASSUME BillingInv,
         NEW type \in Types, NEW k \in Checkouts, NEW s \in AtStripe, NEW tenant \in BOOLEAN,
         k <= Len(checkout), Emit(type, k, s, tenant),
         stripe' \in Seq(AtStripe), Len(stripe') <= Len(checkout),
         UNCHANGED <<checkout, answered, receipts, sub, hook>>
  PROVE  BillingInv'
<1> DEFINE e == [type |-> type, id |-> k, plan |-> s.plan, meta |-> checkout[k],
                 status |-> s.status, tenant |-> tenant]
<1>1. checkout[k] \in Plans
  BY DEF BillingInv, BillingTypeOK, Checkouts
<1>2. e \in Event
  BY <1>1 DEF Event, AtStripe
<1>3. /\ events \in Seq(Event) /\ Len(events) < MaxEvents
      /\ events' = Append(events, e)
  BY DEF BillingInv, BillingTypeOK, Emit
<1> HIDE DEF e
<1>4. /\ events' \in Seq(Event) /\ Len(events') = Len(events) + 1 /\ Len(events') <= MaxEvents
      /\ \A n \in 1..Len(events) : events'[n] = events[n]
  BY <1>2, <1>3
<1>5. 1..Len(events) \subseteq 1..Len(events') /\ 0..Len(events) \subseteq 0..Len(events')
  BY <1>3, <1>4
<1>6. BillingTypeOK'
  BY <1>4, <1>5 DEF BillingInv, BillingTypeOK
<1>7. HooksReceived'
  BY DEF BillingInv, HooksReceived
<1>8. EntitlementProven'
  BY <1>4 DEF BillingInv, BillingTypeOK, EntitlementProven
<1> QED
  BY <1>6, <1>7, <1>8 DEF BillingInv

----------------------------------------------------------------------------

LEMMA CheckoutKeeps ==
  ASSUME BillingInv, NEW p \in Plans, Checkout(p)
  PROVE  BillingInv'
<1>1. /\ checkout \in Seq(Plans) /\ Len(checkout) < MaxCheckouts
      /\ checkout' = Append(checkout, p)
  BY DEF BillingInv, BillingTypeOK, Checkout
<1>2. checkout' \in Seq(Plans) /\ Len(checkout') <= MaxCheckouts /\ Len(checkout) <= Len(checkout')
  BY <1>1
<1>3. UNCHANGED <<stripe, events, answered, receipts, sub, hook>>
  BY DEF Checkout
<1>4. Len(stripe) <= Len(checkout')
  BY <1>1, <1>2 DEF BillingInv, BillingTypeOK
<1> QED
  BY <1>2, <1>3, <1>4 DEF BillingInv, BillingTypeOK, HooksReceived, EntitlementProven

LEMMA BeginKeeps ==
  ASSUME BillingInv, Begin
  PROVE  BillingInv'
<1>1. PICK status \in {"active", "incomplete"} :
        LET k == Len(stripe) + 1
            s == [plan |-> checkout[k], status |-> status]
        IN  stripe' = Append(stripe, s) /\ Emit("created", k, s, TRUE)
  BY DEF Begin
<1> DEFINE k == Len(stripe) + 1
           s == [plan |-> checkout[k], status |-> status]
<1>2. /\ stripe \in Seq(AtStripe) /\ checkout \in Seq(Plans)
      /\ Len(stripe) < Len(checkout) /\ Len(checkout) <= MaxCheckouts
  BY DEF BillingInv, BillingTypeOK, Begin
<1>3. k \in Checkouts /\ k <= Len(checkout) /\ checkout[k] \in Plans
  BY <1>2 DEF Checkouts
<1>4. s \in AtStripe
  BY <1>3 DEF AtStripe, Prices, Statuses, Entitled
<1>5. stripe' = Append(stripe, s) /\ Emit("created", k, s, TRUE)
  BY <1>1
<1> HIDE DEF s
<1>6. stripe' \in Seq(AtStripe) /\ Len(stripe') <= Len(checkout)
  BY <1>2, <1>4, <1>5
<1>7. UNCHANGED <<checkout, answered, receipts, sub, hook>>
  BY DEF Begin
<1>8. "created" \in Types
  BY DEF Types
<1> QED
  BY <1>3, <1>4, <1>5, <1>6, <1>7, <1>8, EmitKeeps

LEMMA ChangeKeeps ==
  ASSUME BillingInv, NEW k \in Checkouts, Change(k)
  PROVE  BillingInv'
<1>1. PICK s \in [plan : Prices, status : {"active", "past_due"}] :
        stripe' = [stripe EXCEPT ![k] = s] /\ Emit("updated", k, s, TRUE)
  BY DEF Change
<1>2. s \in AtStripe
  BY DEF AtStripe, Statuses, Entitled
<1>3. stripe \in Seq(AtStripe) /\ k <= Len(stripe) /\ Len(stripe) <= Len(checkout)
  BY DEF BillingInv, BillingTypeOK, Change
<1>4. stripe' \in Seq(AtStripe) /\ Len(stripe') <= Len(checkout) /\ k <= Len(checkout)
  BY <1>1, <1>2, <1>3 DEF Checkouts
<1>5. UNCHANGED <<checkout, answered, receipts, sub, hook>> /\ "updated" \in Types
  BY DEF Change, Types
<1> QED
  BY <1>1, <1>2, <1>4, <1>5, EmitKeeps

LEMMA PaymentFailsKeeps ==
  ASSUME BillingInv, NEW k \in Checkouts, PaymentFails(k)
  PROVE  BillingInv'
<1>1. PICK tenant \in BOOLEAN : Emit("payment_failed", k, stripe[k], tenant)
  BY DEF PaymentFails
<1>2. stripe \in Seq(AtStripe) /\ k <= Len(stripe) /\ Len(stripe) <= Len(checkout)
  BY DEF BillingInv, BillingTypeOK, PaymentFails
<1>3. stripe[k] \in AtStripe /\ k <= Len(checkout)
  BY <1>2 DEF Checkouts
<1>4. UNCHANGED <<checkout, stripe, answered, receipts, sub, hook>> /\ "payment_failed" \in Types
  BY DEF PaymentFails, Types
<1> QED
  BY <1>1, <1>2, <1>3, <1>4, EmitKeeps

LEMMA SubscriptionEndKeeps ==
  ASSUME BillingInv, NEW k \in Checkouts, End(k)
  PROVE  BillingInv'
<1> DEFINE s == [stripe[k] EXCEPT !.status = "canceled"]
<1>1. stripe \in Seq(AtStripe) /\ k <= Len(stripe) /\ Len(stripe) <= Len(checkout)
  BY DEF BillingInv, BillingTypeOK, End
<1>2. stripe[k] \in AtStripe /\ k <= Len(checkout)
  BY <1>1 DEF Checkouts
<1>3. s \in AtStripe
  BY <1>2 DEF AtStripe, Statuses
<1>4. stripe' = [stripe EXCEPT ![k] = s] /\ Emit("deleted", k, s, TRUE)
  BY DEF End
<1> HIDE DEF s
<1>5. stripe' \in Seq(AtStripe) /\ Len(stripe') <= Len(checkout)
  BY <1>1, <1>3, <1>4 DEF Checkouts
<1>6. UNCHANGED <<checkout, answered, receipts, sub, hook>> /\ "deleted" \in Types
  BY DEF End, Types
<1> QED
  BY <1>2, <1>3, <1>4, <1>5, <1>6, EmitKeeps

LEMMA ReceiveKeeps ==
  ASSUME BillingInv, NEW h \in Handlers, NEW n \in EventIds, ReceiveEvent(h, n)
  PROVE  BillingInv'
<1>1. n \in 1..Len(events)
  BY DEF ReceiveEvent, EventIds, BillingInv, BillingTypeOK
<1>2. UNCHANGED <<checkout, stripe, events, sub>>
  BY DEF ReceiveEvent
<1>3. CASE Unreceived(n)
  <2>1. /\ receipts' = receipts \cup {n} /\ answered' = answered
        /\ hook' = [hook EXCEPT ![h] = [pc |-> "apply", event |-> n]]
    BY <1>3 DEF ReceiveEvent
  <2>2. BillingTypeOK'
    BY <1>1, <1>2, <2>1 DEF BillingInv, BillingTypeOK
  <2>3. HooksReceived'
    BY <2>1 DEF BillingInv, BillingTypeOK, HooksReceived
  <2>4. EntitlementProven'
    BY <1>2, <2>1 DEF BillingInv, EntitlementProven
  <2> QED
    BY <2>2, <2>3, <2>4 DEF BillingInv
<1>4. CASE ~Unreceived(n)
  <2>1. answered' = answered \cup {n} /\ UNCHANGED <<receipts, hook>>
    BY <1>4 DEF ReceiveEvent
  <2> QED
    BY <1>1, <1>2, <2>1 DEF BillingInv, BillingTypeOK, HooksReceived, EntitlementProven
<1> QED
  BY <1>3, <1>4

\* The row is written from an event with a receipt, or no longer entitles.
LEMMA ApplyKeeps ==
  ASSUME BillingInv, NEW h \in Handlers, Apply(h)
  PROVE  BillingInv'
<1> DEFINE n == hook[h].event
           e == events[n]
<1>1. n \in receipts /\ n \in 1..Len(events)
  BY DEF Apply, BillingInv, BillingTypeOK, HooksReceived
<1>2. e \in Event
  BY <1>1 DEF BillingInv, BillingTypeOK
<1>3. UNCHANGED <<checkout, stripe, events, receipts>>
  BY DEF Apply
<1>4. hook' = [hook EXCEPT ![h] = NoHook] /\ answered' = answered \cup {n}
  BY DEF Apply
<1>5. \/ sub' = sub
      \/ e.type \in {"created", "updated"} /\ e.plan # NoPlan /\ sub' = RowOf(e)
      \/ sub' = Marked("canceled")
      \/ sub' = Marked("past_due")
  <2>1. sub' = CASE ~e.tenant -> sub
                 [] e.tenant /\ e.type \in {"created", "updated"} ->
                      IF e.plan = NoPlan THEN sub ELSE RowOf(e)
                 [] e.tenant /\ e.type = "deleted" -> Marked("canceled")
                 [] e.tenant /\ e.type = "payment_failed" -> Marked("past_due")
    BY DEF Apply
  <2>2. e.type \in {"created", "updated", "deleted", "payment_failed"} /\ e.tenant \in BOOLEAN
    BY <1>2 DEF Event, Types
  <2> QED
    BY <2>1, <2>2
<1> DEFINE Rows == {NoRow} \cup [id : Checkouts, plan : Plans, status : Statuses]
<1>6. /\ sub' \in Rows
      /\ sub'.status \in Entitled =>
           \/ sub' = sub
           \/ /\ e.type \in {"created", "updated"}
              /\ <<e.id, e.plan, e.status>> = <<sub'.id, sub'.plan, sub'.status>>
  <2>1. sub \in Rows
    BY DEF BillingInv, BillingTypeOK
  <2>2. CASE sub' = sub
    BY <2>1, <2>2
  <2>3. CASE e.type \in {"created", "updated"} /\ e.plan # NoPlan /\ sub' = RowOf(e)
    BY <1>2, <2>3 DEF RowOf, Event, Prices
  <2>4. ASSUME NEW status \in {"canceled", "past_due"}, sub' = Marked(status)
        PROVE  sub' \in Rows /\ (sub'.status \in Entitled => sub' = sub)
    <3>1. CASE HasRow
      <4>1. sub \in [id : Checkouts, plan : Plans, status : Statuses]
        BY <2>1, <3>1 DEF HasRow, NoRow
      <4>2. sub' = [sub EXCEPT !.status = status]
        BY <2>4, <3>1 DEF Marked
      <4> QED
        BY <4>1, <4>2 DEF Statuses, Entitled
    <3>2. CASE ~HasRow
      BY <2>1, <2>4, <3>2 DEF Marked
    <3> QED
      BY <3>1, <3>2
  <2> QED
    BY <1>5, <2>2, <2>3, <2>4
<1>7. BillingTypeOK'
  <2>1. hook' \in [Handlers -> [pc : {"idle", "apply"}, event : 0..Len(events)]]
    BY <1>4 DEF BillingInv, BillingTypeOK, NoHook
  <2>2. answered' \subseteq 1..Len(events)
    BY <1>1, <1>4 DEF BillingInv, BillingTypeOK
  <2>3. sub' \in Rows
    BY <1>6
  <2> HIDE DEF e, n
  <2> QED
    BY <1>3, <2>1, <2>2, <2>3 DEF BillingInv, BillingTypeOK
<1>8. HooksReceived'
  BY <1>3, <1>4 DEF BillingInv, BillingTypeOK, HooksReceived, NoHook
<1>9. EntitlementProven'
  <2>1. CASE ~(sub'.status \in Entitled)
    BY <2>1 DEF EntitlementProven
  <2>2. CASE sub' = sub
    BY <1>3, <2>2 DEF BillingInv, EntitlementProven
  <2>3. CASE sub'.status \in Entitled /\ sub' # sub
    <3>1. /\ e.type \in {"created", "updated"}
          /\ <<e.id, e.plan, e.status>> = <<sub'.id, sub'.plan, sub'.status>>
      BY <1>6, <2>3
    <3>2. n \in receipts' /\ events'[n] = e
      BY <1>1, <1>3
    <3> HIDE DEF e, n
    <3> QED
      BY <3>1, <3>2 DEF EntitlementProven
  <2> QED
    BY <2>1, <2>2, <2>3
<1> QED
  BY <1>7, <1>8, <1>9 DEF BillingInv

LEMMA BillingStepKeeps == BillingInv /\ [BillingNext]_billingVars => BillingInv'
<1> SUFFICES ASSUME BillingInv, [BillingNext]_billingVars PROVE BillingInv'
  OBVIOUS
<1>1. ASSUME NEW h \in Handlers, Drop(h) PROVE BillingInv'
  BY <1>1 DEF Drop, NoHook, BillingInv, BillingTypeOK, HooksReceived, EntitlementProven
<1>2. CASE UNCHANGED billingVars
  BY <1>2 DEF billingVars, BillingInv, BillingTypeOK, HooksReceived, EntitlementProven
<1> QED
  BY <1>1, <1>2, CheckoutKeeps, BeginKeeps, ChangeKeeps, PaymentFailsKeeps, SubscriptionEndKeeps,
     ReceiveKeeps, ApplyKeeps DEF BillingNext

\* The row entitles its tenant only to a plan and a status that an event of
\* that subscription proved, whatever was bought, reordered, retried or lost
\* (billing.service.ts:61).
THEOREM EntitlementsAreProven == BillingSpec => []EntitlementProven
<1>1. BillingInv => EntitlementProven
  BY DEF BillingInv
<1> QED
  BY <1>1, BillingInitially, BillingStepKeeps, PTL DEF BillingSpec

HIDE BillingAssumption

----------------------------------------------------------------------------
(* Sign-up *)
(* One invite makes one workspace and one identity signs up once, for any  *)
(* number of registrations, invites, addresses and documents. Each rests   *)
(* on a resource that at most one open transaction holds (the lock on the  *)
(* e-mail, the claimed row of the invite, the entries of the two unique    *)
(* indexes) and on what its holder has tested being so until it commits.   *)

Locked == {"locked", "looked", "claimed", "inserted"}
Claimed == {"claimed", "inserted"}

\* A registration under way has a form.
FormKnown ==
  \A r \in Registrations : RegAt(r, InSignup) => reg[r].form \in Form

\* Two open registrations that hold the same thing are the same.
OneHolder ==
  \A q, r \in Registrations : q # r =>
    /\ RegAt(q, Locked) /\ RegAt(r, Locked) => reg[q].form.email # reg[r].form.email
    /\ RegAt(q, Claimed) /\ RegAt(r, Claimed) => reg[q].form.invite # reg[r].form.invite
    /\ RegAt(q, {"inserted"}) /\ RegAt(r, {"inserted"}) =>
         /\ reg[q].form.document # reg[r].form.document
         /\ reg[q].form.slug # reg[r].form.slug

\* What a holder has tested: nobody signed up with its e-mail, its invite is
\* still claimable (it may expire), its document and its slug are free.
HolderTested ==
  \A r \in Registrations :
    /\ RegAt(r, {"looked", "claimed", "inserted"}) =>
         \A w \in workspaces : w.form.email # reg[r].form.email
    /\ RegAt(r, Claimed) =>
         ~invite[reg[r].form.invite].used /\ ~invite[reg[r].form.invite].revoked
    /\ RegAt(r, {"inserted"}) => ~Taken(reg[r].form)

SignupInv ==
  /\ SignupTypeOK /\ FormKnown /\ OneHolder /\ HolderTested
  /\ InviteMakesOne /\ OneSignupPerIdentity

USE SignupAssumption

LEMMA SignupInitially == SignupInit => SignupInv
<1> SUFFICES ASSUME SignupInit PROVE SignupInv
  OBVIOUS
<1>1. SignupTypeOK
  BY DEF SignupInit, SignupTypeOK, InviteRow, SignupPCs
<1>2. FormKnown /\ OneHolder /\ HolderTested
  BY DEF SignupInit, FormKnown, OneHolder, HolderTested, RegAt, InSignup, Locked, Claimed
<1>3. InviteMakesOne /\ OneSignupPerIdentity
  BY DEF SignupInit, InviteMakesOne, OneSignupPerIdentity
<1> QED
  BY <1>1, <1>2, <1>3 DEF SignupInv

----------------------------------------------------------------------------
(* The rows change, the registrations do not *)

\* An invite is issued or expires, or a revocation finds nobody holding it.
LEMMA InviteKeeps ==
  ASSUME SignupInv, UNCHANGED <<workspaces, reg>>, invite' \in [Invites -> InviteRow],
         members' \subseteq Emails,
         \A i \in Invites : /\ invite'[i].used = invite[i].used
                            /\ invite'[i].revoked # invite[i].revoked =>
                                 /\ ~invite[i].used
                                 /\ \A r \in Registrations :
                                      RegAt(r, Claimed) => reg[r].form.invite # i
  PROVE  SignupInv'
<1>1. SignupTypeOK'
  BY DEF SignupInv, SignupTypeOK
<1>2. FormKnown' /\ OneHolder' /\ OneSignupPerIdentity'
  BY DEF SignupInv, FormKnown, OneHolder, OneSignupPerIdentity, RegAt
<1>3. InviteMakesOne'
  BY DEF SignupInv, InviteMakesOne
<1>4. HolderTested'
  <2>1. \A r \in Registrations : RegAt(r, Claimed) => reg[r].form.invite \in Invites
    BY DEF SignupInv, FormKnown, RegAt, Claimed, InSignup, Form
  <2> QED
    BY <2>1 DEF SignupInv, HolderTested, RegAt, Taken
<1> QED
  BY <1>1, <1>2, <1>3, <1>4 DEF SignupInv

LEMMA CreateInviteKeeps ==
  ASSUME SignupInv, NEW i \in Invites, CreateInvite(i)
  PROVE  SignupInv'
<1>1. PICK e \in Emails \cup {Anyone} :
        invite' = [invite EXCEPT ![i].issued = TRUE, ![i].email = e]
  BY DEF CreateInvite
<1>2. invite \in [Invites -> InviteRow] /\ members \subseteq Emails
  BY DEF SignupInv, SignupTypeOK
<1>3. /\ invite' \in [Invites -> InviteRow]
      /\ \A j \in Invites : /\ invite'[j].used = invite[j].used
                            /\ invite'[j].revoked = invite[j].revoked
  BY ZenonT(60), <1>1, <1>2 DEF InviteRow
<1> QED
  BY <1>2, <1>3, InviteKeeps DEF CreateInvite

LEMMA RevokeInviteKeeps ==
  ASSUME SignupInv, NEW i \in Invites, RevokeInvite(i)
  PROVE  SignupInv'
<1>1. invite \in [Invites -> InviteRow] /\ members \subseteq Emails
  BY DEF SignupInv, SignupTypeOK
<1>2. /\ invite' \in [Invites -> InviteRow]
      /\ \A j \in Invites : /\ invite'[j].used = invite[j].used
                            /\ invite'[j].revoked # invite[j].revoked => j = i
  BY <1>1 DEF RevokeInvite, InviteRow
<1>3. ~invite[i].used /\ \A r \in Registrations : RegAt(r, Claimed) => reg[r].form.invite # i
  BY DEF RevokeInvite, Claimed
<1> QED
  BY <1>1, <1>2, <1>3, InviteKeeps DEF RevokeInvite

LEMMA ExpireInviteKeeps ==
  ASSUME SignupInv, NEW i \in Invites, ExpireInvite(i)
  PROVE  SignupInv'
<1>1. invite \in [Invites -> InviteRow] /\ members \subseteq Emails
  BY DEF SignupInv, SignupTypeOK
<1>2. /\ invite' \in [Invites -> InviteRow]
      /\ \A j \in Invites : /\ invite'[j].used = invite[j].used
                            /\ invite'[j].revoked = invite[j].revoked
  BY <1>1 DEF ExpireInvite, InviteRow
<1> QED
  BY <1>1, <1>2, InviteKeeps DEF ExpireInvite

LEMMA CreateUserKeeps ==
  ASSUME SignupInv, NEW e \in Emails, CreateUser(e)
  PROVE  SignupInv'
<1>1. invite' \in [Invites -> InviteRow] /\ members' \subseteq Emails
  BY DEF CreateUser, SignupInv, SignupTypeOK
<1> QED
  BY <1>1, InviteKeeps DEF CreateUser

----------------------------------------------------------------------------
(* A registration goes on; the rows do not change *)

\* What the statement that took r to pc has found.
Tested(r, pc) ==
  /\ pc \in Locked => EmailFree(r)
  /\ pc \in Claimed => ClaimFree(r)
  /\ pc = "inserted" => InsertFree(r)
  /\ pc \in {"looked", "claimed", "inserted"} =>
       \A w \in workspaces : w.form.email # reg[r].form.email
  /\ pc \in Claimed => ~invite[reg[r].form.invite].used /\ ~invite[reg[r].form.invite].revoked
  /\ pc = "inserted" => ~Taken(reg[r].form)

LEMMA StatementKeeps ==
  ASSUME SignupInv, NEW r \in Registrations, NEW pc \in SignupPCs,
         RegAt(r, InSignup), RegGoto(r, pc), Tested(r, pc),
         UNCHANGED <<invite, workspaces, members>>
  PROVE  SignupInv'
<1>1. \A q \in Registrations : q # r => reg'[q] = reg[q]
  BY DEF SignupInv, SignupTypeOK, RegGoto
<1>2. reg'[r] = [pc |-> pc, form |-> reg[r].form] /\ reg[r].form \in Form
  <2>1. reg[r].form \in Form
    BY DEF SignupInv, FormKnown, RegAt
  <2>2. reg[r] \in [pc : SignupPCs, form : Form \cup {NoForm}]
    BY DEF SignupInv, SignupTypeOK
  <2>3. reg'[r] = [reg[r] EXCEPT !.pc = pc]
    BY DEF SignupInv, SignupTypeOK, RegGoto
  <2> QED
    BY <2>1, <2>2, <2>3
<1>3. SignupTypeOK'
  BY <1>2 DEF SignupInv, SignupTypeOK, RegGoto
<1>4. FormKnown'
  BY <1>1, <1>2 DEF SignupInv, FormKnown, RegAt
<1>5. ASSUME NEW q \in Registrations, q # r
      PROVE  /\ RegAt(q, Locked) /\ pc \in Locked => reg[q].form.email # reg[r].form.email
             /\ RegAt(q, Claimed) /\ pc \in Claimed => reg[q].form.invite # reg[r].form.invite
             /\ RegAt(q, {"inserted"}) /\ pc = "inserted" =>
                  /\ reg[q].form.document # reg[r].form.document
                  /\ reg[q].form.slug # reg[r].form.slug
  BY <1>5 DEF Tested, EmailFree, ClaimFree, InsertFree, OpenWith, Locked, Claimed
<1>6. OneHolder'
  BY <1>1, <1>2, <1>5 DEF SignupInv, OneHolder, RegAt
<1>7. HolderTested'
  BY <1>1, <1>2 DEF SignupInv, HolderTested, Tested, RegAt, Taken, Claimed
<1>8. InviteMakesOne' /\ OneSignupPerIdentity'
  BY DEF SignupInv, InviteMakesOne, OneSignupPerIdentity
<1> QED
  BY <1>3, <1>4, <1>6, <1>7, <1>8 DEF SignupInv

\* A registration that is over holds nothing.
LEMMA EndKeeps ==
  ASSUME SignupInv, NEW r \in Registrations, RegEnds(r, "refused"),
         UNCHANGED <<invite, workspaces, members>>
  PROVE  SignupInv'
<1>1. \A q \in Registrations : q # r => reg'[q] = reg[q]
  BY DEF SignupInv, SignupTypeOK, RegEnds
<1>2. reg'[r].pc = "refused"
  BY DEF SignupInv, SignupTypeOK, RegEnds
<1>3. SignupTypeOK'
  BY DEF SignupInv, SignupTypeOK, RegEnds, SignupPCs
<1>4. FormKnown'
  BY <1>1, <1>2 DEF SignupInv, FormKnown, RegAt, InSignup
<1>5. OneHolder'
  BY <1>1, <1>2 DEF SignupInv, OneHolder, RegAt, Locked, Claimed
<1>6. HolderTested'
  BY <1>1, <1>2 DEF SignupInv, HolderTested, RegAt, Taken, Claimed
<1>7. InviteMakesOne' /\ OneSignupPerIdentity'
  BY DEF SignupInv, InviteMakesOne, OneSignupPerIdentity
<1> QED
  BY <1>3, <1>4, <1>5, <1>6, <1>7 DEF SignupInv

LEMMA CheckInviteKeeps ==
  ASSUME SignupInv, NEW r \in Registrations, CheckInvite(r)
  PROVE  SignupInv'
<1>1. CASE RegEnds(r, "refused")
  BY <1>1, EndKeeps DEF CheckInvite
<1>2. ASSUME NEW f \in Form, reg' = [reg EXCEPT ![r] = [pc |-> "checked", form |-> f]]
      PROVE  SignupInv'
  <2>1. \A q \in Registrations : q # r => reg'[q] = reg[q]
    BY <1>2 DEF SignupInv, SignupTypeOK
  <2>2. reg'[r].pc = "checked" /\ reg'[r].form \in Form
    BY <1>2 DEF SignupInv, SignupTypeOK
  <2>3. UNCHANGED <<invite, workspaces, members>>
    BY DEF CheckInvite
  <2>4. SignupTypeOK'
    BY <1>2, <2>3 DEF SignupInv, SignupTypeOK, SignupPCs
  <2>5. FormKnown'
    BY <2>1, <2>2 DEF SignupInv, FormKnown, RegAt
  <2>6. OneHolder'
    BY <2>1, <2>2 DEF SignupInv, OneHolder, RegAt, Locked, Claimed
  <2>7. HolderTested'
    BY <2>1, <2>2, <2>3 DEF SignupInv, HolderTested, RegAt, Taken, Claimed
  <2>8. InviteMakesOne' /\ OneSignupPerIdentity'
    BY <2>3 DEF SignupInv, InviteMakesOne, OneSignupPerIdentity
  <2> QED
    BY <2>4, <2>5, <2>6, <2>7, <2>8 DEF SignupInv
<1> QED
  BY <1>1, <1>2 DEF CheckInvite

LEMMA LockEmailKeeps ==
  ASSUME SignupInv, NEW r \in Registrations, LockEmail(r)
  PROVE  SignupInv'
<1>1. Tested(r, "locked")
  BY DEF LockEmail, Tested, Claimed
<1> QED
  BY <1>1, StatementKeeps DEF LockEmail, RegAt, InSignup, SignupPCs

LEMMA LookUpKeeps ==
  ASSUME SignupInv, NEW r \in Registrations, LookUp(r)
  PROVE  SignupInv'
<1>1. CASE reg[r].form.email \in Users \/ Taken(reg[r].form)
  BY <1>1, EndKeeps DEF LookUp
<1>2. CASE ~(reg[r].form.email \in Users \/ Taken(reg[r].form))
  <2>1. EmailFree(r)
    BY DEF LookUp, SignupInv, OneHolder, EmailFree, OpenWith, RegAt, Locked
  <2>2. Tested(r, "looked")
    BY <1>2, <2>1 DEF Tested, Claimed, Users
  <2> QED
    BY <1>2, <2>2, StatementKeeps DEF LookUp, RegAt, InSignup, SignupPCs
<1> QED
  BY <1>1, <1>2

LEMMA ClaimInviteKeeps ==
  ASSUME SignupInv, NEW r \in Registrations, ClaimInvite(r)
  PROVE  SignupInv'
<1>1. CASE ~Claimable(reg[r].form.invite)
  BY <1>1, EndKeeps DEF ClaimInvite
<1>2. CASE Claimable(reg[r].form.invite)
  <2>1. EmailFree(r)
    BY DEF ClaimInvite, SignupInv, OneHolder, EmailFree, OpenWith, RegAt, Locked
  <2>2. \A w \in workspaces : w.form.email # reg[r].form.email
    BY DEF ClaimInvite, SignupInv, HolderTested, RegAt
  <2>3. Tested(r, "claimed")
    BY <1>2, <2>1, <2>2 DEF ClaimInvite, Tested, Claimable, Pending
  <2> QED
    BY <1>2, <2>3, StatementKeeps DEF ClaimInvite, RegAt, InSignup, SignupPCs
<1> QED
  BY <1>1, <1>2

LEMMA InsertTenantKeeps ==
  ASSUME SignupInv, NEW r \in Registrations, InsertTenant(r)
  PROVE  SignupInv'
<1>1. CASE Taken(reg[r].form)
  BY <1>1, EndKeeps DEF InsertTenant
<1>2. CASE ~Taken(reg[r].form)
  <2>1. EmailFree(r) /\ ClaimFree(r)
    BY DEF InsertTenant, SignupInv, OneHolder, EmailFree, ClaimFree, OpenWith, RegAt,
           Locked, Claimed
  <2>2. /\ \A w \in workspaces : w.form.email # reg[r].form.email
        /\ ~invite[reg[r].form.invite].used /\ ~invite[reg[r].form.invite].revoked
    BY DEF InsertTenant, SignupInv, HolderTested, RegAt, Claimed
  <2>3. Tested(r, "inserted")
    BY <1>2, <2>1, <2>2 DEF InsertTenant, Tested
  <2> QED
    BY <1>2, <2>3, StatementKeeps DEF InsertTenant, RegAt, InSignup, SignupPCs
<1> QED
  BY <1>1, <1>2

LEMMA AbortSignupKeeps ==
  ASSUME SignupInv, NEW r \in Registrations, AbortSignup(r)
  PROVE  SignupInv'
BY EndKeeps DEF AbortSignup

----------------------------------------------------------------------------
(* The commit *)

\* The new workspace has the e-mail, the document and the slug of nobody, and
\* the invite it uses, which nobody else holds, had made none.
LEMMA CommitSignupKeeps ==
  ASSUME SignupInv, NEW r \in Registrations, CommitSignup(r)
  PROVE  SignupInv'
<1> DEFINE f == reg[r].form
           made == [by |-> r, form |-> f]
<1>1. f \in Form /\ f.invite \in Invites /\ made \in Workspace
  BY DEF CommitSignup, SignupInv, FormKnown, RegAt, InSignup, Form, Workspace
<1>2. /\ invite' = [invite EXCEPT ![f.invite].used = TRUE]
      /\ workspaces' = workspaces \cup {made}
      /\ RegEnds(r, "done") /\ members' = members
  BY DEF CommitSignup
<1>3. /\ \A w \in workspaces : /\ w.form.email # f.email
                               /\ w.form.document # f.document
                               /\ w.form.slug # f.slug
      /\ ~invite[f.invite].used /\ ~invite[f.invite].revoked
  BY DEF CommitSignup, SignupInv, HolderTested, RegAt, Claimed, Taken
<1>4. \A q \in Registrations : q # r => reg'[q] = reg[q]
  BY <1>2 DEF SignupInv, SignupTypeOK, RegEnds
<1>5. reg'[r].pc = "done"
  BY <1>2 DEF SignupInv, SignupTypeOK, RegEnds
<1>6. \A i \in Invites : /\ invite'[i].revoked = invite[i].revoked
                         /\ invite'[i].used <=> (invite[i].used \/ i = f.invite)
  BY <1>1, <1>2 DEF SignupInv, SignupTypeOK, InviteRow
<1>7. ASSUME NEW q \in Registrations, q # r
      PROVE  /\ RegAt(q, Locked) => reg[q].form.email # f.email
             /\ RegAt(q, Claimed) => reg[q].form.invite # f.invite
             /\ RegAt(q, {"inserted"}) => /\ reg[q].form.document # f.document
                                          /\ reg[q].form.slug # f.slug
  BY <1>7 DEF CommitSignup, SignupInv, OneHolder, RegAt, Locked, Claimed
<1> HIDE DEF f
<1>8. SignupTypeOK'
  BY ZenonT(60), <1>1, <1>2 DEF SignupInv, SignupTypeOK, RegEnds, InviteRow, SignupPCs
<1>9. FormKnown'
  BY <1>4, <1>5 DEF SignupInv, FormKnown, RegAt, InSignup
<1>10. OneHolder'
  BY <1>4, <1>5 DEF SignupInv, OneHolder, RegAt, Locked, Claimed
<1>11. HolderTested'
  <2> SUFFICES ASSUME NEW q \in Registrations
               PROVE  /\ RegAt(q, {"looked", "claimed", "inserted"})' =>
                           \A w \in workspaces' : w.form.email # reg'[q].form.email
                      /\ RegAt(q, Claimed)' => /\ ~invite'[reg'[q].form.invite].used
                                               /\ ~invite'[reg'[q].form.invite].revoked
                      /\ RegAt(q, {"inserted"})' => ~Taken(reg[q].form)'
    BY DEF HolderTested
  <2>1. CASE q = r
    BY <1>5, <2>1 DEF RegAt, Claimed
  <2>2. CASE q # r
    <3>1. reg'[q] = reg[q]
      BY <1>4, <2>2
    <3>2. RegAt(q, Claimed) => reg[q].form.invite \in Invites
      BY DEF SignupInv, FormKnown, RegAt, Claimed, InSignup, Form
    <3>3. RegAt(q, {"looked", "claimed", "inserted"}) =>
            \A w \in workspaces' : w.form.email # reg[q].form.email
      BY <1>2, <1>7, <2>2 DEF SignupInv, HolderTested, RegAt, Locked
    <3>4. RegAt(q, Claimed) => /\ ~invite'[reg[q].form.invite].used
                               /\ ~invite'[reg[q].form.invite].revoked
      BY <1>6, <1>7, <2>2, <3>2 DEF SignupInv, HolderTested
    <3>5. RegAt(q, {"inserted"}) =>
            \A w \in workspaces' : /\ w.form.document # reg[q].form.document
                                   /\ w.form.slug # reg[q].form.slug
      BY <1>2, <1>7, <2>2 DEF SignupInv, HolderTested, Taken
    <3> QED
      BY <3>1, <3>3, <3>4, <3>5 DEF RegAt, Taken
  <2> QED
    BY <2>1, <2>2
<1>12. InviteMakesOne'
  <2>1. \A w \in workspaces : w.form.invite # f.invite
    BY <1>1, <1>3 DEF SignupInv, InviteMakesOne
  <2> QED
    BY <1>1, <1>2, <1>3, <1>6, <2>1 DEF SignupInv, InviteMakesOne
<1>13. OneSignupPerIdentity'
  BY <1>2, <1>3 DEF SignupInv, OneSignupPerIdentity
<1> QED
  BY <1>8, <1>9, <1>10, <1>11, <1>12, <1>13 DEF SignupInv

----------------------------------------------------------------------------

LEMMA SignupStepKeeps == SignupInv /\ [SignupNext]_signupVars => SignupInv'
<1> SUFFICES ASSUME SignupInv, [SignupNext]_signupVars PROVE SignupInv'
  OBVIOUS
<1>1. ASSUME NEW r \in Registrations, SignupStep(r) PROVE SignupInv'
  BY <1>1, LockEmailKeeps, LookUpKeeps, ClaimInviteKeeps, InsertTenantKeeps,
     CommitSignupKeeps DEF SignupStep
<1>2. CASE UNCHANGED signupVars
  BY <1>2 DEF signupVars, SignupInv, SignupTypeOK, FormKnown, OneHolder, HolderTested,
              RegAt, Taken, InviteMakesOne, OneSignupPerIdentity
<1> QED
  BY <1>1, <1>2, CreateInviteKeeps, RevokeInviteKeeps, ExpireInviteKeeps, CreateUserKeeps,
     CheckInviteKeeps, AbortSignupKeeps DEF SignupNext

\* The inductive invariant, and with it the types.
THEOREM SignupIsSafe == SignupSpec => []SignupInv
BY SignupInitially, SignupStepKeeps, PTL DEF SignupSpec

\* A used invite made exactly one workspace, an unused or revoked one none
\* (docs/signup.md:26).
THEOREM InvitesAreSingleUse == SignupSpec => []InviteMakesOne
<1>1. SignupInv => InviteMakesOne
  BY DEF SignupInv
<1> QED
  BY <1>1, SignupIsSafe, PTL

\* No two workspaces share an e-mail, a document or a slug (docs/signup.md:28).
THEOREM IdentitiesSignUpOnce == SignupSpec => []OneSignupPerIdentity
<1>1. SignupInv => OneSignupPerIdentity
  BY DEF SignupInv
<1> QED
  BY <1>1, SignupIsSafe, PTL

HIDE SignupAssumption

----------------------------------------------------------------------------
(* Login throttling *)
(* While a key is open, each attempt let through is a failure counted      *)
(* below the limit or belongs to a login that still has to count it or to  *)
(* set the lock: a login sets what it owes before it tries again.          *)

USE ThrottlingAssumption

ThrottlingShape ==
  /\ redisUp \in BOOLEAN
  /\ failures \in [Stores -> [LoginKeys -> Nat]]
  /\ lockedOut \in [Stores -> SUBSET LoginKeys]
  /\ login \in [Logins -> [pc : LoginPCs, keys : SUBSET LoginKeys,
                           process : Processes, due : SUBSET LoginKeys]]
  /\ \A l \in Logins : login[l].due \subseteq login[l].keys
  /\ guesses \in [Stores -> [LoginKeys -> Nat]]

\* The logins that have yet to count or to lock, and the failures below the limit.
Owing(s, k) ==
  Verifying(s, k, Logins) \cup
  {l \in Logins : s = "redis" /\ LoginAt(l, "counted") /\ k \in login[l].due}

Spent(s, k) ==
  IF failures[s][k] < FailureLimit(k) THEN failures[s][k] ELSE FailureLimit(k) - 1

GuessesOK(s, k) ==
  /\ guesses[s][k] < FailureLimit(k) + Cardinality(Logins)
  /\ InUse(s) /\ k \notin lockedOut[s] => guesses[s][k] <= Spent(s, k) + Cardinality(Owing(s, k))
  /\ ~InUse(s) => guesses[s][k] = 0

ThrottlingInv == ThrottlingShape /\ \A s \in Stores, k \in LoginKeys : GuessesOK(s, k)

LEMMA LimitType ==
  ASSUME NEW k PROVE FailureLimit(k) \in Nat /\ FailureLimit(k) > 0
BY DEF FailureLimit

LEMMA LoginsAreFinite ==
  ASSUME NEW S \in SUBSET Logins
  PROVE  /\ IsFiniteSet(S) /\ Cardinality(S) \in Nat /\ Cardinality(Logins) \in Nat
         /\ Cardinality(S) <= Cardinality(Logins)
BY FS_Subset, FS_CardinalityType

LEMMA NoLoginType ==
  /\ NoLogin \in [pc : LoginPCs, keys : SUBSET LoginKeys, process : Processes,
                  due : SUBSET LoginKeys]
  /\ NoLogin.pc = "idle" /\ NoLogin.due = {} /\ NoLogin.keys = {}
<1>1. (CHOOSE p \in Processes : TRUE) \in Processes
  OBVIOUS
<1> QED
  BY <1>1 DEF NoLogin, LoginPCs

LEMMA ThrottlingInitially == ThrottlingInit => ThrottlingInv
<1> SUFFICES ASSUME ThrottlingInit PROVE ThrottlingInv
  OBVIOUS
<1>1. ThrottlingShape
  BY NoLoginType DEF ThrottlingInit, ThrottlingShape
<1>2. ASSUME NEW s \in Stores, NEW k \in LoginKeys PROVE GuessesOK(s, k)
  <2>1. guesses[s][k] = 0 /\ failures[s][k] = 0
    BY DEF ThrottlingInit
  <2>2. Cardinality(Owing(s, k)) \in Nat /\ Cardinality(Logins) \in Nat
    BY LoginsAreFinite DEF Owing, Verifying
  <2> QED
    BY <2>1, <2>2, LimitType DEF GuessesOK, Spent
<1> QED
  BY <1>1, <1>2 DEF ThrottlingInv

----------------------------------------------------------------------------
(* What a step may do to the guesses of one key *)

\* The guesses do not change: nobody settles what it owes, but those whose
\* failure is counted for them.
LEMMA SettledKeeps ==
  ASSUME ThrottlingShape, ThrottlingShape', NEW s \in Stores, NEW k \in LoginKeys, GuessesOK(s, k),
         redisUp' = redisUp, guesses'[s][k] = guesses[s][k],
         (k \in lockedOut[s] => k \in lockedOut'[s]),
         k \notin lockedOut'[s] =>
           \/ Owing(s, k) \subseteq Owing(s, k)' /\ Spent(s, k) <= Spent(s, k)'
           \/ \E l \in Logins : Owing(s, k) \ {l} \subseteq Owing(s, k)' /\ Spent(s, k) + 1 <= Spent(s, k)'
  PROVE  GuessesOK(s, k)'
<1> PICK C, D : C = Owing(s, k) /\ D = Owing(s, k)'
  OBVIOUS
<1>1. C \in SUBSET Logins /\ D \in SUBSET Logins
  BY DEF Owing, Verifying
<1>2. /\ Cardinality(C) \in Nat /\ Cardinality(D) \in Nat
      /\ IsFiniteSet(C) /\ IsFiniteSet(D)
  BY <1>1, LoginsAreFinite
<1>3. C \subseteq D => Cardinality(C) <= Cardinality(D)
  BY <1>2, FS_Subset
<1>4. ASSUME NEW l \in Logins, C \ {l} \subseteq D PROVE Cardinality(C) <= Cardinality(D) + 1
  <2>1. Cardinality(C \ {l}) <= Cardinality(D)
    BY <1>2, <1>4, FS_Subset
  <2>2. /\ Cardinality(C \ {l}) = IF l \in C THEN Cardinality(C) - 1 ELSE Cardinality(C)
        /\ Cardinality(C \ {l}) \in Nat
    <3>1. /\ IsFiniteSet(C \ {l})
          /\ Cardinality(C \ {l}) = IF l \in C THEN Cardinality(C) - 1 ELSE Cardinality(C)
      BY <1>2, FS_RemoveElement
    <3> QED
      BY <3>1, FS_CardinalityType
  <2> QED
    BY <1>2, <2>1, <2>2
<1>5. /\ Spent(s, k) \in Int /\ Spent(s, k)' \in Int
      /\ guesses[s][k] \in Nat /\ InUse(s)' = InUse(s)
  BY LimitType DEF ThrottlingShape, Spent, InUse
<1>6. InUse(s) /\ k \notin lockedOut'[s] => guesses[s][k] <= Spent(s, k)' + Cardinality(D)
  BY <1>2, <1>3, <1>4, <1>5 DEF GuessesOK
<1> QED
  BY <1>5, <1>6 DEF GuessesOK, FailureLimit

\* The guesses start over with those in progress.
LEMMA StartedOver ==
  ASSUME ThrottlingShape', NEW s \in Stores, NEW k \in LoginKeys, NEW L \in SUBSET Logins,
         IF InUse(s)' THEN guesses'[s][k] = Cardinality(L) /\ L \subseteq Owing(s, k)'
                      ELSE guesses'[s][k] = 0
  PROVE  GuessesOK(s, k)'
<1> PICK D : D = Owing(s, k)'
  OBVIOUS
<1>1. D \in SUBSET Logins
  BY DEF Owing, Verifying
<1>2. /\ Cardinality(L) \in Nat /\ Cardinality(D) \in Nat /\ Cardinality(Logins) \in Nat
      /\ Cardinality(L) <= Cardinality(Logins)
      /\ IsFiniteSet(D)
  BY <1>1, LoginsAreFinite
<1>3. L \subseteq D => Cardinality(L) <= Cardinality(D)
  BY <1>2, FS_Subset
<1>4. Spent(s, k)' \in Nat /\ FailureLimit(k) \in Nat \ {0}
  BY LimitType DEF ThrottlingShape, Spent, FailureLimit
<1> QED
  BY <1>2, <1>3, <1>4 DEF GuessesOK, FailureLimit

\* An attempt passes while the key is open, and its login owes it.
LEMMA AttemptCounts ==
  ASSUME ThrottlingShape, ThrottlingShape', NEW s \in Stores, NEW k \in LoginKeys, GuessesOK(s, k),
         redisUp' = redisUp, InUse(s), k \notin lockedOut[s], failures' = failures,
         guesses'[s][k] = guesses[s][k] + 1,
         NEW l \in Logins, l \notin Owing(s, k), Owing(s, k) \cup {l} \subseteq Owing(s, k)'
  PROVE  GuessesOK(s, k)'
<1> PICK C, D : C = Owing(s, k) /\ D = Owing(s, k)'
  OBVIOUS
<1>1. C \in SUBSET Logins /\ D \in SUBSET Logins
  BY DEF Owing, Verifying
<1>2. /\ Cardinality(C) \in Nat /\ Cardinality(D) \in Nat /\ Cardinality(Logins) \in Nat
      /\ IsFiniteSet(C) /\ IsFiniteSet(D) /\ Cardinality(D) <= Cardinality(Logins)
  BY <1>1, LoginsAreFinite
<1>3. Cardinality(C) + 1 <= Cardinality(D)
  <2>1. Cardinality(C \cup {l}) = Cardinality(C) + 1
    BY <1>2, FS_AddElement
  <2> QED
    BY <1>2, <2>1, FS_Subset
<1>4. /\ Spent(s, k) \in Nat /\ Spent(s, k)' = Spent(s, k) /\ Spent(s, k) < FailureLimit(k)
      /\ guesses[s][k] \in Nat /\ InUse(s)' /\ FailureLimit(k) \in Nat
  BY LimitType DEF ThrottlingShape, Spent, FailureLimit, InUse
<1>5. guesses[s][k] <= Spent(s, k) + Cardinality(C)
  BY DEF GuessesOK
<1>6. guesses'[s][k] <= Spent(s, k)' + Cardinality(D)
  BY <1>2, <1>3, <1>4, <1>5
<1>7. guesses'[s][k] < FailureLimit(k) + Cardinality(Logins)
  BY <1>2, <1>3, <1>4, <1>5
<1> QED
  BY <1>4, <1>6, <1>7 DEF GuessesOK, FailureLimit

\* The counting of the keys K of a store in use starts over.
LEMMA StartOverType ==
  ASSUME ThrottlingShape, NEW st \in Stores, NEW K, NEW L \in SUBSET Logins
  PROVE  /\ \A s \in Stores, k \in LoginKeys : StartOver(st, K, L)[s][k] =
              IF s = st /\ k \in K /\ InUse(st) THEN Cardinality(Verifying(st, k, L))
              ELSE guesses[s][k]
         /\ StartOver(st, K, L) \in [Stores -> [LoginKeys -> Nat]]
<1>1. ASSUME NEW k PROVE Cardinality(Verifying(st, k, L)) \in Nat
  <2>1. Verifying(st, k, L) \in SUBSET Logins
    BY DEF Verifying
  <2> QED
    BY <2>1, LoginsAreFinite
<1> QED
  BY <1>1 DEF StartOver, InProgress, ThrottlingShape

----------------------------------------------------------------------------
(* The steps *)

LEMMA AttemptKeeps ==
  ASSUME ThrottlingInv, NEW l \in Logins, NEW p \in Processes, NEW ip \in Ips, Attempt(l, p, ip)
  PROVE  ThrottlingInv'
<1> PICK keys, st : keys = {"account", ip} /\ st = IF redisUp THEN "redis" ELSE p
  OBVIOUS
<1>1. /\ ThrottlingShape /\ keys \in SUBSET LoginKeys /\ st \in Stores /\ InUse(st)
      /\ \A s \in Stores : InUse(s) /\ s # st => s # "redis" /\ st # "redis"
  BY DEF ThrottlingInv, LoginKeys, Stores, InUse, ThrottlingShape
<1>2. /\ login[l].pc = "idle" /\ lockedOut[st] \cap keys = {}
      /\ login' = [login EXCEPT ![l] = [NoLogin EXCEPT !.pc = "checking", !.keys = keys, !.process = p]]
      /\ guesses' = [guesses EXCEPT ![st] =
                       [k \in LoginKeys |-> IF k \in keys THEN @[k] + 1 ELSE @[k]]]
      /\ UNCHANGED <<redisUp, failures, lockedOut>>
  BY DEF Attempt, LoginAt
<1>3. /\ \A m \in Logins \ {l} : login'[m] = login[m]
      /\ login'[l].pc = "checking" /\ login'[l].keys = keys /\ login'[l].process = p
      /\ login'[l].due = {}
      /\ login' \in [Logins -> [pc : LoginPCs, keys : SUBSET LoginKeys,
                                process : Processes, due : SUBSET LoginKeys]]
  BY <1>1, <1>2 DEF ThrottlingShape, NoLogin, LoginPCs
<1>4. /\ \A s \in Stores, k \in LoginKeys :
           guesses'[s][k] = IF s = st /\ k \in keys THEN guesses[s][k] + 1 ELSE guesses[s][k]
      /\ guesses' \in [Stores -> [LoginKeys -> Nat]]
  BY <1>1, <1>2 DEF ThrottlingShape
<1>5. ThrottlingShape'
  BY <1>1, <1>2, <1>3, <1>4 DEF ThrottlingShape
<1>6. ASSUME NEW s \in Stores, NEW k \in LoginKeys PROVE GuessesOK(s, k)'
  <2>1. GuessesOK(s, k)
    BY DEF ThrottlingInv
  <2>2. Owing(s, k) \subseteq Owing(s, k)' /\ l \notin Owing(s, k)
    BY <1>2, <1>3 DEF Owing, Verifying, LoginAt, MayUse
  <2>3. CASE s = st /\ k \in keys
    <3>1. l \in Owing(s, k)'
      BY <1>1, <1>3, <2>3 DEF Owing, Verifying, LoginAt, MayUse
    <3>2. /\ InUse(s) /\ k \notin lockedOut[s] /\ guesses'[s][k] = guesses[s][k] + 1
          /\ Owing(s, k) \cup {l} \subseteq Owing(s, k)'
      BY <1>1, <1>2, <1>4, <2>2, <2>3, <3>1
    <3> QED
      BY <1>1, <1>2, <1>5, <2>1, <2>2, <3>2, AttemptCounts
  <2>4. CASE ~(s = st /\ k \in keys)
    <3>1. guesses'[s][k] = guesses[s][k] /\ Spent(s, k)' = Spent(s, k) /\ Spent(s, k) \in Nat
      BY <1>1, <1>2, <1>4, <2>4, LimitType DEF Spent, FailureLimit, ThrottlingShape
    <3> QED
      BY <1>1, <1>2, <1>5, <2>1, <2>2, <3>1, SettledKeeps
  <2> QED
    BY <2>3, <2>4
<1> QED
  BY <1>5, <1>6 DEF ThrottlingInv

\* A failure is counted: below the limit it is spent, at the limit it is owed.
LEMMA CountFailureKeeps ==
  ASSUME ThrottlingInv, NEW l \in Logins, CountFailure(l)
  PROVE  ThrottlingInv'
<1> PICK keys, due : keys = login[l].keys /\ due = Reached(failures["redis"], login[l].keys)
  OBVIOUS
<1>1. /\ ThrottlingShape /\ "redis" \in Stores /\ redisUp /\ login[l].pc = "checking"
      /\ keys \in SUBSET LoginKeys
  BY DEF ThrottlingInv, ThrottlingShape, CountFailure, LoginAt, Stores
<1>2. /\ failures' = [failures EXCEPT !["redis"] = Bumped(@, keys)]
      /\ login' = [login EXCEPT ![l].pc = "counted", ![l].due = due]
      /\ UNCHANGED <<redisUp, lockedOut, guesses>>
  BY DEF CountFailure
<1>3. due = {k \in keys : failures["redis"][k] + 1 >= FailureLimit(k)}
  BY DEF Reached
<1>4. /\ \A m \in Logins \ {l} : login'[m] = login[m]
      /\ login'[l].pc = "counted" /\ login'[l].keys = keys /\ login'[l].due = due
      /\ login'[l].process = login[l].process
      /\ login' \in [Logins -> [pc : LoginPCs, keys : SUBSET LoginKeys,
                                process : Processes, due : SUBSET LoginKeys]]
  <2> DEFINE Row == [pc : LoginPCs, keys : SUBSET LoginKeys, process : Processes,
                     due : SUBSET LoginKeys]
  <2>1. login \in [Logins -> Row] /\ due \in SUBSET LoginKeys /\ "counted" \in LoginPCs
    BY <1>1, <1>3 DEF ThrottlingShape, LoginPCs
  <2>2. PICK r \in Row : r = [login[l] EXCEPT !.pc = "counted", !.due = due]
    BY <2>1
  <2>3. r.pc = "counted" /\ r.keys = keys /\ r.due = due /\ r.process = login[l].process
    BY <2>1, <2>2
  <2>4. login' = [login EXCEPT ![l] = r]
    BY <1>2, <2>1, <2>2
  <2> HIDE DEF Row
  <2>5. login' \in [Logins -> Row] /\ login'[l] = r /\ \A m \in Logins \ {l} : login'[m] = login[m]
    BY <2>1, <2>4
  <2> QED
    BY <2>3, <2>5 DEF Row
<1>5. /\ \A s \in Stores \ {"redis"} : failures'[s] = failures[s]
      /\ \A k \in LoginKeys : failures'["redis"][k] =
           IF k \in keys /\ failures["redis"][k] < FailureLimit(k)
           THEN failures["redis"][k] + 1 ELSE failures["redis"][k]
      /\ failures' \in [Stores -> [LoginKeys -> Nat]]
  BY <1>1, <1>2 DEF ThrottlingShape, Bumped
<1>6. ThrottlingShape'
  BY <1>1, <1>2, <1>3, <1>4, <1>5 DEF ThrottlingShape
<1>7. ASSUME NEW s \in Stores, NEW k \in LoginKeys PROVE GuessesOK(s, k)'
  <2>1. GuessesOK(s, k) /\ guesses'[s][k] = guesses[s][k] /\ lockedOut'[s] = lockedOut[s]
    BY <1>2 DEF ThrottlingInv
  <2>2. CASE s # "redis"
    <3>1. ~InUse(s) /\ ~InUse(s)'
      BY <1>1, <1>2, <2>2 DEF InUse
    <3> QED
      BY <1>2, <2>1, <3>1 DEF GuessesOK, FailureLimit
  <2>3. CASE s = "redis"
    <3>1. failures[s][k] \in Nat /\ FailureLimit(k) \in Nat /\ FailureLimit(k) > 0
      BY <1>1, LimitType DEF ThrottlingShape
    <3>2. CASE k \in keys \ due
      <4>1. Owing(s, k) \ {l} \subseteq Owing(s, k)'
        BY <1>4 DEF Owing, Verifying, LoginAt, MayUse
      <4>2. Spent(s, k) + 1 <= Spent(s, k)'
        BY <1>3, <1>5, <2>3, <3>1, <3>2 DEF Spent, FailureLimit
      <4> QED
        BY <1>1, <1>2, <1>6, <2>1, <4>1, <4>2, SettledKeeps
    <3>3. CASE k \notin keys \ due
      <4>1. Owing(s, k) \subseteq Owing(s, k)'
        BY <1>1, <1>4, <2>3, <3>3 DEF Owing, Verifying, LoginAt, MayUse
      <4>2. Spent(s, k) <= Spent(s, k)'
        BY <1>5, <2>3, <3>1 DEF Spent, FailureLimit
      <4> QED
        BY <1>1, <1>2, <1>6, <2>1, <4>1, <4>2, SettledKeeps
    <3> QED
      BY <3>2, <3>3
  <2> QED
    BY <2>2, <2>3
<1> QED
  BY <1>6, <1>7 DEF ThrottlingInv

LEMMA LockOutKeeps ==
  ASSUME ThrottlingInv, NEW l \in Logins, LockOut(l)
  PROVE  ThrottlingInv'
<1> PICK due : due = login[l].due
  OBVIOUS
<1>1. /\ ThrottlingShape /\ "redis" \in Stores /\ redisUp /\ login[l].pc = "counted"
      /\ due \in SUBSET LoginKeys
  BY DEF ThrottlingInv, ThrottlingShape, LockOut, LoginAt, Stores
<1>2. /\ lockedOut' = [lockedOut EXCEPT !["redis"] = @ \cup due]
      /\ login' = [login EXCEPT ![l] = NoLogin]
      /\ UNCHANGED <<redisUp, failures, guesses>>
  BY DEF LockOut
<1>3. /\ \A m \in Logins \ {l} : login'[m] = login[m]
      /\ login'[l] = NoLogin /\ NoLogin.due = {}
      /\ login' \in [Logins -> [pc : LoginPCs, keys : SUBSET LoginKeys,
                                process : Processes, due : SUBSET LoginKeys]]
  BY <1>1, <1>2, NoLoginType DEF ThrottlingShape
<1>4. ThrottlingShape'
  BY <1>1, <1>2, <1>3 DEF ThrottlingShape
<1>5. ASSUME NEW s \in Stores, NEW k \in LoginKeys PROVE GuessesOK(s, k)'
  <2>1. GuessesOK(s, k) /\ guesses'[s][k] = guesses[s][k] /\ Spent(s, k)' = Spent(s, k)
    BY <1>2 DEF ThrottlingInv, Spent, FailureLimit
  <2>2. lockedOut[s] \subseteq lockedOut'[s]
    BY <1>1, <1>2 DEF ThrottlingShape
  <2>3. k \notin lockedOut'[s] => Owing(s, k) \subseteq Owing(s, k)'
    BY <1>1, <1>2, <1>3 DEF ThrottlingShape, Owing, Verifying, LoginAt, MayUse
  <2>4. Spent(s, k) \in Int
    BY <1>1, LimitType DEF Spent, ThrottlingShape
  <2> QED
    BY <1>1, <1>2, <1>4, <2>1, <2>2, <2>3, <2>4, SettledKeeps
<1> QED
  BY <1>4, <1>5 DEF ThrottlingInv

LEMMA CountLocallyKeeps ==
  ASSUME ThrottlingInv, NEW l \in Logins, CountLocally(l)
  PROVE  ThrottlingInv'
<1> PICK p, keys, due : p = login[l].process /\ keys = login[l].keys /\ due = Reached(failures[p], keys)
  OBVIOUS
<1>1. /\ ThrottlingShape /\ p \in Processes /\ p \in Stores /\ p # "redis" /\ ~redisUp
      /\ keys \in SUBSET LoginKeys
      /\ due = {k \in keys : failures[p][k] + 1 >= FailureLimit(k)}
  BY DEF ThrottlingInv, ThrottlingShape, CountLocally, Stores, Reached
<1>2. /\ failures' = [failures EXCEPT ![p] = Bumped(@, keys)]
      /\ lockedOut' = [lockedOut EXCEPT ![p] = @ \cup due]
      /\ login' = [login EXCEPT ![l] = NoLogin]
      /\ UNCHANGED <<redisUp, guesses>>
  BY DEF CountLocally
<1>3. /\ \A m \in Logins \ {l} : login'[m] = login[m]
      /\ login'[l] = NoLogin /\ NoLogin.due = {}
      /\ login' \in [Logins -> [pc : LoginPCs, keys : SUBSET LoginKeys,
                                process : Processes, due : SUBSET LoginKeys]]
  BY <1>1, <1>2, NoLoginType DEF ThrottlingShape
<1>4. /\ \A s \in Stores \ {p} : failures'[s] = failures[s] /\ lockedOut'[s] = lockedOut[s]
      /\ \A k \in LoginKeys : failures'[p][k] =
           IF k \in keys /\ failures[p][k] < FailureLimit(k)
           THEN failures[p][k] + 1 ELSE failures[p][k]
      /\ lockedOut'[p] = lockedOut[p] \cup due
      /\ failures' \in [Stores -> [LoginKeys -> Nat]]
      /\ lockedOut' \in [Stores -> SUBSET LoginKeys]
  BY <1>1, <1>2 DEF ThrottlingShape, Bumped
<1>5. ThrottlingShape'
  BY <1>1, <1>2, <1>3, <1>4 DEF ThrottlingShape
<1>6. ASSUME NEW s \in Stores, NEW k \in LoginKeys PROVE GuessesOK(s, k)'
  <2>1. GuessesOK(s, k) /\ guesses'[s][k] = guesses[s][k] /\ lockedOut[s] \subseteq lockedOut'[s]
    BY <1>2, <1>4 DEF ThrottlingInv
  <2>2. failures[s][k] \in Nat /\ FailureLimit(k) \in Nat /\ FailureLimit(k) > 0
    BY <1>1, LimitType DEF ThrottlingShape
  <2>3. Owing(s, k) \ {l} \subseteq Owing(s, k)'
    BY <1>3 DEF Owing, Verifying, LoginAt, MayUse
  <2>4. CASE s = p /\ k \in keys \ due
    <3>1. Spent(s, k) + 1 <= Spent(s, k)'
      BY <1>1, <1>4, <2>2, <2>4 DEF Spent, FailureLimit
    <3> QED
      BY <1>1, <1>2, <1>5, <2>1, <2>3, <3>1, SettledKeeps
  <2>5. CASE s = p /\ k \in due
    BY <1>1, <1>2, <1>4, <1>5, <2>1, <2>5, SettledKeeps
  <2>6. CASE s = p /\ k \notin keys
    <3>1. l \notin Owing(s, k)
      BY <1>1, <2>6 DEF Owing, Verifying, LoginAt, MayUse
    <3>2. Spent(s, k) <= Spent(s, k)'
      BY <1>4, <2>2, <2>6 DEF Spent, FailureLimit
    <3> QED
      BY <1>1, <1>2, <1>5, <2>1, <2>3, <3>1, <3>2, SettledKeeps
  <2>7. CASE s \notin {p, "redis"}
    <3>1. l \notin Owing(s, k)
      BY <1>1, <2>7 DEF Owing, Verifying, LoginAt, MayUse
    <3>2. Spent(s, k) <= Spent(s, k)'
      BY <1>4, <2>2, <2>7 DEF Spent, FailureLimit
    <3> QED
      BY <1>1, <1>2, <1>5, <2>1, <2>3, <3>1, <3>2, SettledKeeps
  <2>8. CASE s = "redis"
    BY <1>1, <1>2, <2>1, <2>8 DEF GuessesOK, InUse, FailureLimit
  <2> QED
    BY <1>1, <2>4, <2>5, <2>6, <2>7, <2>8
<1> QED
  BY <1>5, <1>6 DEF ThrottlingInv

LEMMA SucceedKeeps ==
  ASSUME ThrottlingInv, NEW l \in Logins, Succeed(l)
  PROVE  ThrottlingInv'
<1> PICK st, keys : st = StoreOf(l) /\ keys = login[l].keys
  OBVIOUS
<1>1. /\ ThrottlingShape /\ st \in Stores /\ login[l].pc = "checking"
      /\ keys \in SUBSET LoginKeys /\ InUse(st)
  BY DEF ThrottlingInv, ThrottlingShape, Succeed, StoreOf, Stores, LoginAt, InUse
<1>2. /\ failures' = [failures EXCEPT ![st] = [k \in LoginKeys |-> IF k \in keys THEN 0 ELSE @[k]]]
      /\ lockedOut' = [lockedOut EXCEPT ![st] = @ \ keys]
      /\ guesses' = StartOver(st, keys, Logins \ {l})
      /\ login' = [login EXCEPT ![l] = NoLogin]
      /\ redisUp' = redisUp
  BY DEF Succeed
<1>3. /\ \A m \in Logins \ {l} : login'[m] = login[m]
      /\ login'[l] = NoLogin /\ NoLogin.due = {}
      /\ login' \in [Logins -> [pc : LoginPCs, keys : SUBSET LoginKeys,
                                process : Processes, due : SUBSET LoginKeys]]
  BY <1>1, <1>2, NoLoginType DEF ThrottlingShape
<1>4. /\ \A s \in Stores \ {st} : failures'[s] = failures[s] /\ lockedOut'[s] = lockedOut[s]
      /\ \A k \in LoginKeys : failures'[st][k] = IF k \in keys THEN 0 ELSE failures[st][k]
      /\ lockedOut'[st] = lockedOut[st] \ keys
      /\ failures' \in [Stores -> [LoginKeys -> Nat]]
      /\ lockedOut' \in [Stores -> SUBSET LoginKeys]
  BY <1>1, <1>2 DEF ThrottlingShape
<1>5. /\ \A s \in Stores, k \in LoginKeys : guesses'[s][k] =
           IF s = st /\ k \in keys THEN Cardinality(Verifying(st, k, Logins \ {l})) ELSE guesses[s][k]
      /\ guesses' \in [Stores -> [LoginKeys -> Nat]]
  <2> PICK L : L = Logins \ {l}
    OBVIOUS
  <2>1. L \in SUBSET Logins
    OBVIOUS
  <2>2. guesses' = StartOver(st, keys, L)
    BY <1>2
  <2> QED
    BY <1>1, <2>1, <2>2, StartOverType
<1>6. ThrottlingShape'
  BY ZenonT(60), <1>1, <1>2, <1>3, <1>4, <1>5 DEF ThrottlingShape
<1>7. ASSUME NEW s \in Stores, NEW k \in LoginKeys PROVE GuessesOK(s, k)'
  <2>1. CASE s = st /\ k \in keys
    <3> PICK L : L = Verifying(st, k, Logins \ {l})
      OBVIOUS
    <3>1. L \in SUBSET Logins /\ L \subseteq Owing(s, k)'
      BY <1>3, <2>1 DEF Owing, Verifying, LoginAt, MayUse
    <3>2. guesses'[s][k] = Cardinality(L) /\ InUse(s)'
      BY <1>1, <1>2, <1>5, <2>1 DEF InUse
    <3> QED
      BY <1>6, <3>1, <3>2, StartedOver
  <2>2. CASE ~(s = st /\ k \in keys)
    <3>1. GuessesOK(s, k) /\ guesses'[s][k] = guesses[s][k] /\ failures'[s][k] = failures[s][k]
      BY <1>4, <1>5, <2>2 DEF ThrottlingInv
    <3>2. Spent(s, k)' = Spent(s, k) /\ Spent(s, k) \in Int
      BY <1>1, <3>1, LimitType DEF Spent, FailureLimit, ThrottlingShape
    <3>3. CASE InUse(s)
      <4>1. l \notin Owing(s, k)
        BY <1>1, <2>2, <3>3 DEF Owing, Verifying, LoginAt, MayUse, InUse, StoreOf, ThrottlingShape
      <4>2. Owing(s, k) \subseteq Owing(s, k)'
        BY <1>3, <4>1 DEF Owing, Verifying, LoginAt, MayUse
      <4>3. k \in lockedOut[s] => k \in lockedOut'[s]
        BY <1>4, <2>2
      <4>4. Spent(s, k) <= Spent(s, k)'
        BY <3>2
      <4> QED
        BY <1>1, <1>2, <1>6, <3>1, <4>2, <4>3, <4>4, SettledKeeps
    <3>4. CASE ~InUse(s)
      BY <1>2, <3>1, <3>4 DEF GuessesOK, InUse, FailureLimit
    <3> QED
      BY <3>3, <3>4
  <2> QED
    BY <2>1, <2>2
<1> QED
  BY <1>6, <1>7 DEF ThrottlingInv

\* A counter or a lock ends.
LEMMA ExpiryKeeps ==
  ASSUME ThrottlingInv, NEW st \in Stores, NEW x \in LoginKeys, WindowEnds(st, x) \/ LockEnds(st, x)
  PROVE  ThrottlingInv'
<1>1. /\ ThrottlingShape /\ guesses' = StartOver(st, {x}, Logins)
      /\ UNCHANGED <<redisUp, login>>
  BY DEF ThrottlingInv, WindowEnds, LockEnds
<1>2. /\ \A s \in Stores, k \in LoginKeys : s # st \/ k # x =>
           failures'[s][k] = failures[s][k] /\ (k \in lockedOut'[s] <=> k \in lockedOut[s])
      /\ failures' \in [Stores -> [LoginKeys -> Nat]]
      /\ lockedOut' \in [Stores -> SUBSET LoginKeys]
  <2>1. CASE WindowEnds(st, x)
    <3>1. failures' = [failures EXCEPT ![st] = [failures[st] EXCEPT ![x] = 0]] /\ lockedOut' = lockedOut
      BY <2>1 DEF WindowEnds
    <3>2. [failures[st] EXCEPT ![x] = 0] \in [LoginKeys -> Nat]
      BY <1>1 DEF ThrottlingShape
    <3> QED
      BY <1>1, <3>1, <3>2 DEF ThrottlingShape
  <2>2. CASE LockEnds(st, x)
    <3>1. lockedOut' = [lockedOut EXCEPT ![st] = lockedOut[st] \ {x}] /\ failures' = failures
      BY <2>2 DEF LockEnds
    <3> QED
      BY <1>1, <3>1 DEF ThrottlingShape
  <2> QED
    BY <2>1, <2>2
<1>3. /\ \A s \in Stores, k \in LoginKeys : guesses'[s][k] =
           IF s = st /\ k = x /\ InUse(st) THEN Cardinality(Verifying(st, k, Logins))
           ELSE guesses[s][k]
      /\ guesses' \in [Stores -> [LoginKeys -> Nat]]
  BY <1>1, StartOverType
<1>4. ThrottlingShape'
  BY <1>1, <1>2, <1>3 DEF ThrottlingShape
<1>5. ASSUME NEW s \in Stores, NEW k \in LoginKeys PROVE GuessesOK(s, k)'
  <2>1. CASE s = st /\ k = x /\ InUse(st)
    <3> PICK L : L = Verifying(st, k, Logins)
      OBVIOUS
    <3>1. L \in SUBSET Logins /\ L \subseteq Owing(s, k)'
      BY <1>1, <2>1 DEF Owing, Verifying, LoginAt, MayUse
    <3>2. guesses'[s][k] = Cardinality(L) /\ InUse(s)'
      BY <1>1, <1>3, <2>1 DEF InUse
    <3> QED
      BY <1>4, <3>1, <3>2, StartedOver
  <2>2. CASE ~InUse(s)
    <3>1. GuessesOK(s, k) /\ guesses'[s][k] = guesses[s][k]
      BY <1>3, <2>2 DEF ThrottlingInv
    <3>2. ~InUse(s)'
      BY <1>1, <2>2 DEF InUse
    <3> QED
      BY <2>2, <3>1, <3>2 DEF GuessesOK, FailureLimit
  <2>3. CASE s # st \/ k # x
    <3>1. /\ GuessesOK(s, k) /\ guesses'[s][k] = guesses[s][k] /\ failures'[s][k] = failures[s][k]
          /\ (k \in lockedOut'[s] <=> k \in lockedOut[s])
      BY <1>2, <1>3, <2>3 DEF ThrottlingInv
    <3>2. Spent(s, k)' = Spent(s, k) /\ Spent(s, k) \in Int
      BY <1>1, <3>1, LimitType DEF Spent, FailureLimit, ThrottlingShape
    <3>3. Owing(s, k) \subseteq Owing(s, k)'
      BY <1>1 DEF Owing, Verifying, LoginAt, MayUse
    <3>4. Spent(s, k) <= Spent(s, k)'
      BY <3>2
    <3> QED
      BY <1>1, <1>4, <3>1, <3>3, <3>4, SettledKeeps
  <2> QED
    BY <2>1, <2>2, <2>3
<1> QED
  BY <1>4, <1>5 DEF ThrottlingInv

LEMMA SwitchKeeps ==
  ASSUME ThrottlingInv, RedisSwitches
  PROVE  ThrottlingInv'
<1>1. /\ ThrottlingShape /\ redisUp' = ~redisUp /\ UNCHANGED <<failures, lockedOut, login>>
      /\ guesses' = [s \in Stores |-> [k \in LoginKeys |->
                       IF InUse(s) THEN 0 ELSE Cardinality(Verifying(s, k, Logins))]]
  BY DEF ThrottlingInv, RedisSwitches, InProgress
<1>2. ASSUME NEW s, NEW k
      PROVE  /\ Verifying(s, k, Logins) \in SUBSET Logins
             /\ Cardinality(Verifying(s, k, Logins)) \in Nat
  <2>1. Verifying(s, k, Logins) \in SUBSET Logins
    BY DEF Verifying
  <2> QED
    BY <2>1, LoginsAreFinite
<1>3. ThrottlingShape'
  <2>1. guesses' \in [Stores -> [LoginKeys -> Nat]]
    BY <1>1, <1>2
  <2> QED
    BY <1>1, <2>1 DEF ThrottlingShape
<1>4. ASSUME NEW s \in Stores, NEW k \in LoginKeys PROVE GuessesOK(s, k)'
  <2> PICK L : L = Verifying(s, k, Logins)
    OBVIOUS
  <2>1. L \in SUBSET Logins /\ L \subseteq Owing(s, k)'
    BY <1>1, <1>2 DEF Owing, Verifying, LoginAt, MayUse
  <2>2. InUse(s)' <=> ~InUse(s)
    BY <1>1 DEF InUse, ThrottlingShape
  <2>3. guesses'[s][k] = IF InUse(s) THEN 0 ELSE Cardinality(L)
    BY <1>1
  <2> QED
    BY <1>3, <2>1, <2>2, <2>3, StartedOver
<1> QED
  BY <1>3, <1>4 DEF ThrottlingInv

LEMMA ThrottlingStepKeeps == ThrottlingInv /\ [ThrottlingNext]_throttleVars => ThrottlingInv'
<1> SUFFICES ASSUME ThrottlingInv, [ThrottlingNext]_throttleVars PROVE ThrottlingInv'
  OBVIOUS
<1>1. ASSUME NEW l \in Logins, ThrottledLogin(l) PROVE ThrottlingInv'
  BY <1>1, AttemptKeeps, CountFailureKeeps, LockOutKeeps, CountLocallyKeeps, SucceedKeeps
     DEF ThrottledLogin
<1>2. ASSUME NEW s \in Stores, NEW k \in LoginKeys, WindowEnds(s, k) \/ LockEnds(s, k)
      PROVE  ThrottlingInv'
  BY <1>2, ExpiryKeeps
<1>3. CASE RedisSwitches
  BY <1>3, SwitchKeeps
<1>4. CASE UNCHANGED throttleVars
  <2>1. ThrottlingShape'
    BY <1>4 DEF throttleVars, ThrottlingInv, ThrottlingShape
  <2>2. ASSUME NEW s \in Stores, NEW k \in LoginKeys PROVE GuessesOK(s, k)'
    <3>1. GuessesOK(s, k)
      BY DEF ThrottlingInv
    <3>2. /\ InUse(s)' = InUse(s) /\ Spent(s, k)' = Spent(s, k) /\ Owing(s, k)' = Owing(s, k)
          /\ guesses' = guesses /\ lockedOut' = lockedOut
      BY <1>4 DEF throttleVars, InUse, Spent, Owing, Verifying, LoginAt, MayUse, FailureLimit
    <3> QED
      BY <3>1, <3>2 DEF GuessesOK, FailureLimit
  <2> QED
    BY <2>1, <2>2 DEF ThrottlingInv
<1> QED
  BY <1>1, <1>2, <1>3, <1>4 DEF ThrottlingNext

\* However many logins overlap, from however many addresses and processes, and
\* whenever Redis goes away: the lock closes before the attempts let through
\* reach the limit and the logins in progress (assertAllowed, recordFailure).
THEOREM AttemptsStayBounded == ThrottlingSpec => []AttemptsAreBounded
<1>1. ThrottlingInv => AttemptsAreBounded
  BY DEF ThrottlingInv, GuessesOK, AttemptsAreBounded
<1> QED
  BY <1>1, ThrottlingInitially, ThrottlingStepKeeps, PTL DEF ThrottlingSpec

HIDE ThrottlingAssumption

----------------------------------------------------------------------------
(* The pages of who is not logged in *)
(* The lock lets one bootstrap count at a time, so that what it counted    *)
(* is true until it commits; an answer that says something was done says   *)
(* it of the submission its tab still waits for.                           *)

USE FormsAssumption

PostPCs == {"idle", "sent", "locked", "counted", "answered"}
Answers == {"none", "initialized", "available", "unavailable", "ok", "refused",
            "Platform already initialized"}
Phases == {"closed", "checking", "invalid", "blocked", "form", "done", "login"}
PostRow == [pc : PostPCs, of : Tabs \cup {NoTab}, ask : Kinds \cup {"none", "status", "check"},
        link : Links \cup {NoLink}, answer : Answers]
PageRow == [kind : Kinds \cup {"none"}, phase : Phases, link : Links \cup {NoLink}, busy : BOOLEAN]

FormsShape ==
  /\ platforms \in 0..1 /\ enabled \in BOOLEAN
  /\ pages \in [Tabs -> PageRow] /\ post \in [Posts -> PostRow]
  /\ carried \subseteq Tabs

Bootstrapping(p) == post[p].pc \in {"locked", "counted"}

\* One bootstrap at a time holds the lock, and what it counted still holds.
OneBootstrap ==
  /\ \A p, q \in Posts : Bootstrapping(p) /\ Bootstrapping(q) => p = q
  /\ \A p \in Posts : Bootstrapping(p) => post[p].ask = "setup"
  /\ \A p \in Posts : post[p].pc = "counted" => platforms = 0

\* What an answer may be taken to say: the platform is there, or what the tab
\* asked for was done.
Says(ask, answer) ==
  IF (ask = "status" /\ answer = "initialized") \/ (ask = "setup" /\ answer = "ok") THEN "there"
  ELSE IF ask \notin {"status", "check", "setup"} /\ answer = "ok" THEN "done" ELSE "nothing"

TrueOf(t, says) ==
  /\ says = "there" => platforms = 1
  /\ says = "done" => t \in carried

AnswersTrue ==
  \A p \in Posts : post[p].pc = "answered" =>
    post[p].of \in Tabs /\ TrueOf(post[p].of, Says(post[p].ask, post[p].answer))

PagesTrue ==
  \A t \in Tabs : /\ pages[t].phase = "login" => platforms = 1
                  /\ pages[t].phase = "done" => t \in carried

FormsInv == FormsShape /\ OneBootstrap /\ AnswersTrue /\ PagesTrue

LEMMA NoPostType == NoPost \in PostRow /\ NoPost.pc = "idle"
BY DEF NoPost, PostRow, PostPCs, Answers

LEMMA FormsInitially == FormsInit => FormsInv
<1> SUFFICES ASSUME FormsInit PROVE FormsInv
  OBVIOUS
<1>1. /\ platforms = 0 /\ enabled \in BOOLEAN /\ carried = {}
      /\ pages = [t \in Tabs |-> Closed] /\ post = [p \in Posts |-> NoPost]
  BY DEF FormsInit
<1>2. Closed \in PageRow /\ Closed.phase = "closed"
  BY DEF Closed, PageRow, Phases
<1> QED
  BY <1>1, <1>2, NoPostType
     DEF FormsInv, FormsShape, OneBootstrap, Bootstrapping, AnswersTrue, PagesTrue

----------------------------------------------------------------------------
(* Requests and answers *)

\* A request that goes on without the lock, or is forgotten.
Quieter(r, s) ==
  \/ s = r
  \/ s.pc \notin {"locked", "counted", "answered"}
  \/ s.pc = r.pc /\ s.ask = r.ask /\ r.pc # "answered"

LEMMA QuietKeeps ==
  ASSUME FormsInv, post' \in [Posts -> PostRow],
         \A q \in Posts : Quieter(post[q], post'[q]), UNCHANGED <<platforms, enabled>>,
         carried' \subseteq Tabs, \A q \in Posts : post'[q].pc = "answered" =>
           (post'[q].of \in carried => post'[q].of \in carried'),
         pages' \in [Tabs -> PageRow], PagesTrue'
  PROVE  FormsInv'
<1>1. FormsShape'
  BY DEF FormsInv, FormsShape
<1>2. OneBootstrap'
  BY DEF FormsInv, OneBootstrap, Bootstrapping, Quieter
<1>3. AnswersTrue'
  BY DEF FormsInv, AnswersTrue, Quieter, TrueOf
<1> QED
  BY <1>1, <1>2, <1>3 DEF FormsInv

\* What a tab no longer waits for.
LEMMA UnheardRows ==
  ASSUME post \in [Posts -> PostRow], NEW t \in Tabs
  PROVE  /\ Unheard(t) \in [Posts -> PostRow]
         /\ \A q \in Posts : Quieter(post[q], Unheard(t)[q])
         /\ \A q \in Posts : Unheard(t)[q].pc = "answered" => Unheard(t)[q].of # t
<1> SUFFICES ASSUME NEW q \in Posts
             PROVE  /\ Unheard(t)[q] \in PostRow /\ Quieter(post[q], Unheard(t)[q])
                    /\ Unheard(t)[q].pc = "answered" => Unheard(t)[q].of # t
  BY DEF Unheard
<1>1. PICK r \in PostRow : r = [post[q] EXCEPT !.of = NoTab]
  BY DEF PostRow
<1>2. r.pc = post[q].pc /\ r.ask = post[q].ask
  BY <1>1 DEF PostRow
<1>3. CASE post[q].of # t
  BY <1>3 DEF Unheard, Quieter
<1>4. CASE post[q].of = t /\ post[q].pc = "answered"
  BY <1>4, NoPostType DEF Unheard, Quieter
<1>5. CASE post[q].of = t /\ post[q].pc # "answered"
  <2>1. Unheard(t)[q] = r
    BY <1>1, <1>5 DEF Unheard
  <2> QED
    BY <1>2, <1>5, <2>1 DEF Quieter
<1> QED
  BY <1>3, <1>4, <1>5

\* The page of a tab that is told the truth, or that its request was lost.
LEMMA TellingIsTrue ==
  ASSUME FormsInv, NEW t \in Tabs, NEW ask \in Kinds \cup {"none", "status", "check"},
         NEW answer \in Answers \cup {"lost"}, Told(t, ask, answer), TrueOf(t, Says(ask, answer)),
         UNCHANGED <<platforms, carried>>
  PROVE  pages' \in [Tabs -> PageRow] /\ PagesTrue'
<1> PICK phase : phase = PhaseAfter(t, ask, answer)
  OBVIOUS
<1>0. TrueOf(t, Says(ask, answer)) /\ answer # "platform_already_initialized"
  BY DEF Answers
<1>1. /\ phase \in Phases /\ (phase = "login" => platforms = 1) /\ (phase = "done" => t \in carried)
  <2>1. CASE ask = "status"
    <3>1. phase \in {"login", "form", "blocked"} /\ (phase = "login" => answer = "initialized")
      BY <2>1 DEF PhaseAfter
    <3>2. answer = "initialized" => Says(ask, answer) = "there"
      BY <2>1 DEF Says
    <3> QED
      BY <1>0, <3>1, <3>2 DEF TrueOf, Phases
  <2>2. CASE ask = "check"
    BY <2>2 DEF PhaseAfter, Phases
  <2>3. CASE ask = "setup"
    <3>1. phase \in {"login", "form"} /\ (phase = "login" => answer = "ok")
      BY <1>0, <2>3 DEF PhaseAfter
    <3>2. answer = "ok" => Says(ask, answer) = "there"
      BY <2>3 DEF Says
    <3> QED
      BY <1>0, <3>1, <3>2 DEF TrueOf, Phases
  <2>4. CASE ask \notin {"status", "check", "setup"}
    BY <1>0, <2>4 DEF PhaseAfter, Phases, Says, TrueOf
  <2> QED
    BY <2>1, <2>2, <2>3, <2>4
<1> PICK l : l = IF ask = "reset" /\ answer = "ok" THEN NoLink ELSE pages[t].link
  OBVIOUS
<1>2. pages \in [Tabs -> PageRow] /\ l \in Links \cup {NoLink}
  BY DEF FormsInv, FormsShape, PageRow
<1>3. PICK r \in PageRow : r = [pages[t] EXCEPT !.phase = phase, !.busy = FALSE, !.link = l]
  BY ZenonT(60), <1>1, <1>2 DEF PageRow
<1>4. r.phase = phase
  BY <1>2, <1>3 DEF PageRow
<1>5. pages' = [pages EXCEPT ![t] = r]
  BY <1>2, <1>3 DEF Told
<1> HIDE DEF PageRow
<1> QED
  BY <1>1, <1>2, <1>4, <1>5 DEF FormsInv, PagesTrue

----------------------------------------------------------------------------
(* The steps *)

LEMMA OpenPageKeeps ==
  ASSUME FormsInv, NEW t \in Tabs, NEW k \in Kinds, NEW l \in Links \cup {NoLink}, OpenPage(t, k, l)
  PROVE  FormsInv'
<1>0. post \in [Posts -> PostRow] /\ pages \in [Tabs -> PageRow] /\ carried \subseteq Tabs
  BY DEF FormsInv, FormsShape
<1> PICK phase : phase = IF k = "setup" \/ (k = "signup" /\ l # NoLink) THEN "checking"
                         ELSE IF k = "signup" THEN "invalid" ELSE "form"
  OBVIOUS
<1> PICK row : row = [kind |-> k, phase |-> phase, link |-> l, busy |-> FALSE]
  OBVIOUS
<1>1. row \in PageRow /\ row.phase \in {"checking", "invalid", "form"}
  BY DEF PageRow, Phases
<1>2. pages' = [pages EXCEPT ![t] = row] /\ carried' = carried \ {t}
      /\ UNCHANGED <<platforms, enabled>>
  BY DEF OpenPage
<1>3. pages' \in [Tabs -> PageRow] /\ PagesTrue'
  <2> HIDE DEF PageRow
  <2> QED
    BY <1>0, <1>1, <1>2 DEF FormsInv, PagesTrue
<1>4. /\ post' \in [Posts -> PostRow] /\ \A q \in Posts : Quieter(post[q], post'[q])
      /\ \A q \in Posts : post'[q].pc = "answered" => post'[q].of # t
  <2>1. CASE post' = Unheard(t)
    BY <1>0, <2>1, UnheardRows
  <2>2. ASSUME NEW p \in Posts, NEW ask \in {"status", "check"}, post' = Sent(t, p, ask, l)
        PROVE  <1>4
    <3>1. PICK r \in PostRow : r = [NoPost EXCEPT !.pc = "sent", !.of = t, !.ask = ask, !.link = l]
      BY DEF NoPost, PostRow, PostPCs, Answers
    <3>2. r.pc = "sent"
      BY <3>1 DEF NoPost
    <3>3. post' = [q \in Posts |-> IF q = p THEN r ELSE Unheard(t)[q]]
      BY <2>2, <3>1 DEF Sent
    <3> HIDE DEF PostRow
    <3> QED
      BY <1>0, <3>2, <3>3, UnheardRows DEF Quieter
  <2>3. \/ post' = Unheard(t)
        \/ \E p \in Posts, ask \in {"status", "check"} : post' = Sent(t, p, ask, l)
    BY DEF OpenPage
  <2> QED
    BY <2>1, <2>2, <2>3
<1> QED
  BY <1>0, <1>2, <1>3, <1>4, QuietKeeps

LEMMA SubmitKeeps ==
  ASSUME FormsInv, NEW t \in Tabs, NEW p \in Posts, Submit(t, p)
  PROVE  FormsInv'
<1>0. /\ post \in [Posts -> PostRow] /\ pages \in [Tabs -> PageRow] /\ carried \subseteq Tabs
      /\ pages[t].phase = "form" /\ pages[t].kind \in Kinds \cup {"none"}
      /\ pages[t].link \in Links \cup {NoLink}
  BY DEF FormsInv, FormsShape, Submit, PageRow
<1>1. PICK r \in PageRow : r = [pages[t] EXCEPT !.busy = TRUE]
  BY <1>0 DEF PageRow
<1>2. r.phase = "form"
  BY <1>0, <1>1 DEF PageRow
<1>3. PICK s \in PostRow : s = [NoPost EXCEPT !.pc = "sent", !.of = t, !.ask = pages[t].kind,
                                          !.link = pages[t].link]
  BY <1>0 DEF NoPost, PostRow, PostPCs, Answers
<1>4. s.pc = "sent"
  BY <1>3 DEF NoPost
<1>5. /\ pages' = [pages EXCEPT ![t] = r]
      /\ post' = [q \in Posts |-> IF q = p THEN s ELSE Unheard(t)[q]]
      /\ UNCHANGED <<platforms, enabled, carried>>
  BY <1>0, <1>1, <1>3 DEF Submit, Sent
<1> HIDE DEF PageRow, PostRow
<1>6. pages' \in [Tabs -> PageRow] /\ PagesTrue'
  BY <1>0, <1>2, <1>5 DEF FormsInv, PagesTrue
<1>7. post' \in [Posts -> PostRow] /\ \A q \in Posts : Quieter(post[q], post'[q])
  BY <1>0, <1>4, <1>5, UnheardRows DEF Quieter
<1> QED
  BY <1>0, <1>5, <1>6, <1>7, QuietKeeps

LEMMA FormAnsweredKeeps ==
  ASSUME FormsInv, NEW p \in Posts, FormAnswered(p)
  PROVE  FormsInv'
<1>1. /\ post \in [Posts -> PostRow] /\ carried \subseteq Tabs /\ post[p].pc = "answered"
      /\ post[p].of \in Tabs /\ TrueOf(post[p].of, Says(post[p].ask, post[p].answer))
      /\ Told(post[p].of, post[p].ask, post[p].answer)
      /\ post' = [post EXCEPT ![p] = NoPost] /\ UNCHANGED <<platforms, enabled, carried>>
  BY DEF FormAnswered, FormsInv, FormsShape, AnswersTrue
<1>2. post[p].ask \in Kinds \cup {"none", "status", "check"} /\ post[p].answer \in Answers
  BY <1>1 DEF PostRow
<1>3. pages' \in [Tabs -> PageRow] /\ PagesTrue'
  BY <1>1, <1>2, TellingIsTrue
<1>4. post' \in [Posts -> PostRow] /\ \A q \in Posts : Quieter(post[q], post'[q])
  BY <1>1, NoPostType DEF Quieter
<1> QED
  BY <1>1, <1>3, <1>4, QuietKeeps

LEMMA LosePostKeeps ==
  ASSUME FormsInv, NEW p \in Posts, LosePost(p)
  PROVE  FormsInv'
<1>1. /\ post \in [Posts -> PostRow] /\ carried \subseteq Tabs
      /\ post[p].of # NoTab /\ Told(post[p].of, post[p].ask, "lost")
      /\ UNCHANGED <<platforms, enabled, carried>>
  BY DEF LosePost, FormsInv, FormsShape
<1>2. post[p].ask \in Kinds \cup {"none", "status", "check"} /\ post[p].of \in Tabs
  BY <1>1 DEF PostRow
<1>3. pages' \in [Tabs -> PageRow] /\ PagesTrue'
  <2>1. TrueOf(post[p].of, Says(post[p].ask, "lost"))
    BY DEF TrueOf, Says
  <2> QED
    BY <1>1, <1>2, <2>1, TellingIsTrue
<1>4. PICK r \in PostRow : r = [post[p] EXCEPT !.of = NoTab]
  BY <1>1 DEF PostRow
<1>5. r.pc = post[p].pc /\ r.ask = post[p].ask
  BY <1>1, <1>4 DEF PostRow
<1>6. \/ post' = [post EXCEPT ![p] = NoPost]
      \/ post[p].pc # "answered" /\ post' = [post EXCEPT ![p] = r]
  BY <1>4 DEF LosePost
<1>7. post' \in [Posts -> PostRow] /\ \A q \in Posts : Quieter(post[q], post'[q])
  <2> HIDE DEF PostRow
  <2> QED
    BY <1>1, <1>5, <1>6, NoPostType DEF Quieter
<1> QED
  BY <1>1, <1>3, <1>7, QuietKeeps

\* A handler answers, and what the answer says is true once it has.
LEMMA ReplyKeeps ==
  ASSUME FormsInv, NEW p \in Posts, NEW answer \in Answers, Reply(p, answer),
         post[p].pc \in {"sent", "locked", "counted"},
         platforms' \in 0..1, platforms <= platforms',
         \A q \in Posts \ {p} : post[q].pc # "counted" \/ platforms' = platforms,
         carried' \subseteq Tabs, carried \subseteq carried', enabled' = enabled, pages' = pages,
         Says(post[p].ask, answer) = "there" => platforms' = 1,
         Says(post[p].ask, answer) = "done" /\ post[p].of \in Tabs => post[p].of \in carried'
  PROVE  FormsInv'
<1>0. /\ post \in [Posts -> PostRow] /\ platforms \in 0..1
      /\ post' = [post EXCEPT ![p] = IF post[p].of = NoTab THEN NoPost
                                     ELSE [post[p] EXCEPT !.pc = "answered", !.answer = answer]]
  BY DEF FormsInv, FormsShape, Reply
<1>1. PICK r \in PostRow : r = [post[p] EXCEPT !.pc = "answered", !.answer = answer]
  BY <1>0 DEF PostRow, PostPCs
<1>2. /\ r.pc = "answered" /\ r.of = post[p].of /\ r.ask = post[p].ask /\ r.answer = answer
      /\ post[p].of \in Tabs \cup {NoTab}
  BY <1>0, <1>1 DEF PostRow
<1>3. PICK s \in PostRow : s = IF post[p].of = NoTab THEN NoPost ELSE r
  BY NoPostType
<1>4. post' = [post EXCEPT ![p] = s] /\ s.pc \in {"idle", "answered"}
  BY <1>0, <1>1, <1>2, <1>3, NoPostType
<1>5. FormsShape'
  <2> HIDE DEF PostRow
  <2> QED
    BY <1>0, <1>4 DEF FormsInv, FormsShape
<1>6. OneBootstrap'
  <2>1. \A q \in Posts : Bootstrapping(q)' => q # p /\ post'[q] = post[q]
    BY <1>0, <1>4 DEF Bootstrapping
  <2> QED
    BY <1>0, <2>1 DEF FormsInv, OneBootstrap, Bootstrapping
<1>7. PagesTrue'
  BY <1>0 DEF FormsInv, PagesTrue
<1>8. AnswersTrue'
  <2> SUFFICES ASSUME NEW q \in Posts, post'[q].pc = "answered"
               PROVE  /\ post'[q].of \in Tabs
                      /\ Says(post'[q].ask, post'[q].answer) = "there" => platforms' = 1
                      /\ Says(post'[q].ask, post'[q].answer) = "done" => post'[q].of \in carried'
    BY DEF AnswersTrue, TrueOf, Says
  <2>1. CASE q = p
    <3>1. post'[q] = r /\ post[p].of \in Tabs
      BY <1>0, <1>2, <1>3, <1>4, <2>1, NoPostType
    <3> QED
      BY <1>2, <3>1 DEF TrueOf, Says
  <2>2. CASE q # p
    <3>1. /\ post'[q] = post[q] /\ post[q].of \in Tabs
          /\ TrueOf(post[q].of, Says(post[q].ask, post[q].answer))
      BY <1>0, <1>4, <2>2 DEF FormsInv, AnswersTrue
    <3>2. Says(post'[q].ask, post'[q].answer) = Says(post[q].ask, post[q].answer)
      BY <3>1
    <3>3. Says(post[q].ask, post[q].answer) = "there" => platforms' = 1
      BY <1>0, <3>1 DEF TrueOf
    <3>4. Says(post[q].ask, post[q].answer) = "done" => post[q].of \in carried'
      BY <3>1 DEF TrueOf
    <3> QED
      BY <3>1, <3>2, <3>3, <3>4
  <2> QED
    BY <2>1, <2>2
<1> QED
  BY <1>5, <1>6, <1>7, <1>8 DEF FormsInv

LEMMA HandlerKeeps ==
  ASSUME FormsInv, NEW p \in Posts,
         \/ ServeCheck(p) \/ MakePlatform(p) \/ UseLink(p) \/ Recover(p) \/ Forget(p) \/ Refuse(p)
  PROVE  FormsInv'
<1>0. /\ post \in [Posts -> PostRow] /\ platforms \in 0..1 /\ carried \subseteq Tabs
      /\ post[p].ask \in Kinds \cup {"none", "status", "check"}
  BY DEF FormsInv, FormsShape, PostRow
<1>1. CASE ServeCheck(p)
  <2>1. PICK answer \in Answers : Reply(p, answer) /\ Says(post[p].ask, answer) # "done"
                                  /\ (Says(post[p].ask, answer) = "there" => platforms > 0)
    BY <1>1 DEF ServeCheck, Answers, Says
  <2> QED
    BY <1>0, <1>1, <2>1, ReplyKeeps DEF ServeCheck
<1>2. CASE MakePlatform(p)
  <2>1. /\ post[p].pc = "counted" /\ post[p].ask = "setup" /\ platforms = 0
        /\ \A q \in Posts \ {p} : post[q].pc # "counted"
    BY <1>2 DEF MakePlatform, FormsInv, OneBootstrap, Bootstrapping
  <2>2. Says(post[p].ask, "ok") = "there"
    BY <2>1 DEF Says
  <2>3. platforms' = 1 /\ carried \subseteq carried' /\ carried' \subseteq Tabs
    BY <1>0, <1>2, <2>1 DEF MakePlatform, Carry
  <2>4. /\ Reply(p, "ok") /\ "ok" \in Answers /\ platforms' \in 0..1 /\ platforms <= platforms'
        /\ UNCHANGED <<enabled, pages>>
    BY <1>2, <2>1, <2>3 DEF MakePlatform, Answers
  <2> QED
    BY <2>1, <2>2, <2>3, <2>4, ReplyKeeps
<1>3. CASE UseLink(p) \/ Recover(p) \/ Forget(p)
  <2>1. /\ post[p].pc = "sent" /\ UNCHANGED <<platforms, enabled, pages>>
        /\ post[p].ask \in {"signup", "reset", "recovery", "forgot"}
    BY <1>3 DEF UseLink, Recover, Forget
  <2>2. \/ Reply(p, "ok") /\ carried' = carried \cup ({post[p].of} \cap Tabs)
        \/ Reply(p, "refused") /\ carried' = carried
    BY <1>3 DEF UseLink, Recover, Forget, Carry
  <2>3. Says(post[p].ask, "ok") = "done" /\ Says(post[p].ask, "refused") = "nothing"
    BY <2>1 DEF Says
  <2>4. PICK answer \in {"ok", "refused"} :
           /\ Reply(p, answer)
           /\ answer = "ok" => carried' = carried \cup ({post[p].of} \cap Tabs)
           /\ answer = "refused" => carried' = carried
    BY <2>2
  <2>5. answer \in Answers /\ platforms' \in 0..1 /\ platforms <= platforms'
    <3>1. platforms' = platforms /\ platforms \in 0..1
      BY <1>0, <2>1
    <3>2. answer \in Answers
      BY <2>4 DEF Answers
    <3> QED
      BY <3>1, <3>2
  <2>6. carried' \subseteq Tabs /\ carried \subseteq carried'
    BY <1>0, <2>4
  <2>7. CASE answer = "ok"
    <3>1. post[p].of \in Tabs => post[p].of \in carried'
      BY <2>4, <2>7
    <3> QED
      BY <2>1, <2>3, <2>4, <2>5, <2>6, <2>7, <3>1, ReplyKeeps
  <2>8. CASE answer = "refused"
    BY <2>1, <2>3, <2>4, <2>5, <2>6, <2>8, ReplyKeeps
  <2> QED
    BY <2>4, <2>7, <2>8
<1>4. CASE Refuse(p)
  <2>1. Says(post[p].ask, "refused") = "nothing"
    BY DEF Says
  <2>2. /\ Reply(p, "refused") /\ "refused" \in Answers /\ platforms' \in 0..1
        /\ platforms <= platforms' /\ post[p].pc \in {"sent", "locked", "counted"}
        /\ UNCHANGED <<platforms, enabled, pages, carried>>
    BY <1>0, <1>4 DEF Refuse, Answers
  <2> QED
    BY <1>0, <2>1, <2>2, ReplyKeeps
<1> QED
  BY <1>1, <1>2, <1>3, <1>4

LEMMA LockKeeps ==
  ASSUME FormsInv, NEW p \in Posts, TakeLock(p) \/ CountUsers(p)
  PROVE  FormsInv'
<1>0. /\ post \in [Posts -> PostRow] /\ platforms \in 0..1 /\ carried \subseteq Tabs
      /\ UNCHANGED <<platforms, enabled, pages, carried>>
  BY DEF FormsInv, FormsShape, TakeLock, CountUsers
<1>1. ASSUME NEW pc \in {"locked", "counted"}, post' = [post EXCEPT ![p].pc = pc],
             post[p].ask = "setup", \A q \in Posts \ {p} : ~Bootstrapping(q),
             pc = "counted" => platforms = 0
      PROVE  FormsInv'
  <2>1. PICK r \in PostRow : r = [post[p] EXCEPT !.pc = pc]
    BY <1>0 DEF PostRow, PostPCs
  <2>2. r.pc = pc /\ r.ask = "setup"
    BY <1>0, <1>1, <2>1 DEF PostRow
  <2>3. post' = [post EXCEPT ![p] = r]
    BY <1>0, <1>1, <2>1
  <2> HIDE DEF PostRow
  <2>4. /\ post' \in [Posts -> PostRow] /\ post'[p] = r
        /\ \A q \in Posts \ {p} : post'[q] = post[q]
    BY <1>0, <2>1, <2>3
  <2>5. FormsShape'
    BY <1>0, <2>4 DEF FormsInv, FormsShape
  <2>6. OneBootstrap'
    BY <1>0, <1>1, <2>2, <2>4 DEF FormsInv, OneBootstrap, Bootstrapping
  <2>7. AnswersTrue'
    BY <1>0, <1>1, <2>2, <2>4 DEF FormsInv, AnswersTrue, TrueOf
  <2>8. PagesTrue'
    BY <1>0 DEF FormsInv, PagesTrue
  <2> QED
    BY <2>5, <2>6, <2>7, <2>8 DEF FormsInv
<1>2. CASE TakeLock(p)
  BY <1>1, <1>2 DEF TakeLock, LockHeld, Bootstrapping
<1>3. CASE CountUsers(p)
  <2>1. post[p].ask = "setup" /\ \A q \in Posts \ {p} : ~Bootstrapping(q)
    BY <1>3 DEF CountUsers, FormsInv, OneBootstrap, Bootstrapping
  <2>2. CASE platforms > 0
    <3>1. Says(post[p].ask, "Platform already initialized") = "nothing"
      BY <2>1 DEF Says
    <3>2. /\ Reply(p, "Platform already initialized") /\ post[p].pc = "locked"
          /\ "Platform already initialized" \in Answers
          /\ platforms' \in 0..1 /\ platforms <= platforms'
      <4>1. platforms' = platforms /\ platforms <= platforms
        BY <1>0
      <4> QED
        BY <1>0, <1>3, <2>2, <4>1 DEF CountUsers, Answers
    <3> QED
      BY <1>0, <3>1, <3>2, ReplyKeeps
  <2>3. CASE platforms = 0
    BY <1>1, <1>3, <2>1, <2>3 DEF CountUsers
  <2> QED
    BY <1>0, <2>2, <2>3
<1> QED
  BY <1>2, <1>3

LEMMA FormsStepKeeps == FormsInv /\ [FormsNext]_formVars => FormsInv'
<1> SUFFICES ASSUME FormsInv, [FormsNext]_formVars PROVE FormsInv'
  OBVIOUS
<1>1. ASSUME NEW t \in Tabs, NEW k \in Kinds, NEW l \in Links \cup {NoLink}, OpenPage(t, k, l)
      PROVE  FormsInv'
  BY <1>1, OpenPageKeeps
<1>2. ASSUME NEW t \in Tabs, NEW p \in Posts, Submit(t, p) PROVE FormsInv'
  BY <1>2, SubmitKeeps
<1>3. ASSUME NEW p \in Posts,
             \/ FormAnswered(p) \/ LosePost(p) \/ ServeCheck(p) \/ TakeLock(p) \/ CountUsers(p)
             \/ MakePlatform(p) \/ UseLink(p) \/ Recover(p) \/ Forget(p) \/ Refuse(p)
      PROVE  FormsInv'
  BY <1>3, FormAnsweredKeeps, LosePostKeeps, HandlerKeeps, LockKeeps
<1>4. CASE UNCHANGED <<platforms, enabled, pages, post, carried>>
  BY <1>4 DEF FormsInv, FormsShape, OneBootstrap, Bootstrapping, AnswersTrue, PagesTrue, TrueOf
<1> QED
  BY <1>1, <1>2, <1>3, <1>4 DEF FormsNext, formVars, IssueLink, EndLink

\* "Inicializar uma única vez" (setup/page.tsx:174), from any number of tabs and
\* with any answers lost; and no page says of its own submission that it was
\* done when it was not.
THEOREM FormsStayHonest == FormsSpec => []FormsAreHonest
<1>1. FormsInv => FormsAreHonest
  BY DEF FormsInv, FormsShape, PagesTrue, FormsAreHonest
<1> QED
  BY <1>1, FormsInitially, FormsStepKeeps, PTL DEF FormsSpec

HIDE FormsAssumption

----------------------------------------------------------------------------
(* The session of the phone *)

USE MobileAssumption


\* Only the refresh that is shared runs.
OneFlight == \A c \in Waiters : flight[c].pc # "none" => refreshing = c

InHand == {"sent", "granted", "store"}
Granted == {"granted", "store"}

\* No current token of the family of t is another than t.
AloneInFamily(t) == Kin(t) \subseteq {t}

\* What a refresh or a login carries is the only token of its family, and so is
\* what is stored, unless a refresh has its successor in hand. A login that is
\* answered has a family of its own.
TokensAlone ==
  /\ \A c \in Waiters :
       flight[c].pc \in InHand => flight[c].token # 0 /\ AloneInFamily(flight[c].token)
  /\ kept # 0 =>
       \A s \in Kin(kept) :
         s = kept \/ \E c \in Waiters : flight[c].pc \in Granted /\ flight[c].token = s
  /\ sign.pc = "in" =>
       /\ sign.token # 0 /\ AloneInFamily(sign.token)
       /\ kept # 0 => server.family[kept] # server.family[sign.token]
       /\ \A c \in Waiters : flight[c].pc \in InHand =>
            server.family[flight[c].token] # server.family[sign.token]

Issued == 1..server.issued

ServerRow == [issued : 0..MaxTokens, family : [Tokens -> 0..MaxTokens], current : SUBSET Tokens]

\* A family is named after a token that was issued.
MobileShape ==
  /\ server \in ServerRow
  /\ server.issued \in 0..MaxTokens
  /\ server.current \subseteq Issued
  /\ server.family \in [Tokens -> 0..MaxTokens]
  /\ \A t \in Issued : server.family[t] \in Issued
  /\ kept \in 0..server.issued
  /\ flight \in [Waiters -> [pc : FlightPCs, token : 0..server.issued]]
  /\ sign \in [pc : {"idle", "in", "clear", "logout"}, token : 0..server.issued]
  /\ lost \in BOOLEAN /\ replayed \in BOOLEAN

MobileInv == MobileShape /\ (~lost => ~replayed /\ OneFlight /\ TokensAlone)

LEMMA MobileInitially == MobileInit => MobileInv
<1> SUFFICES ASSUME MobileInit PROVE MobileInv
  OBVIOUS
<1>1. /\ server.issued = 0 /\ server.current = {} /\ server.family \in [Tokens -> 0..MaxTokens]
      /\ server \in ServerRow
  BY DEF MobileInit, ServerRow
<1>2. MobileShape
  <2>1. /\ kept = 0 /\ lost = FALSE /\ replayed = FALSE
        /\ flight \in [Waiters -> [pc : FlightPCs, token : 0..server.issued]]
        /\ sign \in [pc : {"idle", "in", "clear", "logout"}, token : 0..server.issued]
    BY <1>1 DEF MobileInit, FlightPCs, NoFlight
  <2>2. /\ server.issued \in 0..MaxTokens /\ kept \in 0..server.issued
        /\ Issued = {} /\ server.current \subseteq Issued
    BY <1>1, <2>1 DEF Issued
  <2> QED
    BY <1>1, <2>1, <2>2 DEF MobileShape
<1>3. OneFlight /\ TokensAlone
  BY DEF MobileInit, OneFlight, TokensAlone, NoFlight, InHand, Granted
<1> QED
  BY <1>2, <1>3 DEF MobileInit, MobileInv

ServerShrinks ==
  /\ server'.issued = server.issued /\ server'.family = server.family
  /\ server'.current \subseteq server.current /\ server' \in ServerRow

\* Tokens end, what is stored is forgotten, and no login is answered.
LEMMA ForgettingKeeps ==
  ASSUME MobileInv, ServerShrinks, UNCHANGED <<flight, refreshing, lost, replayed>>,
         kept' \in {kept, 0},
         sign' = sign \/ sign' \in [pc : {"idle", "clear", "logout"}, token : 0..server.issued]
  PROVE  MobileInv'
<1>1. MobileShape'
  BY DEF MobileInv, MobileShape, ServerShrinks, Issued
<1>2. ~lost => OneFlight' /\ TokensAlone'
  BY DEF MobileInv, MobileShape, ServerShrinks, OneFlight, TokensAlone, AloneInFamily, Kin, Issued
<1> QED
  BY <1>1, <1>2 DEF MobileInv

\* A refresh goes on without a token it may use, or an answer is lost with it.
LEMMA FlightGoesOn ==
  ASSUME MobileInv, NEW c \in Waiters, NEW pc \in FlightPCs \ {"none"}, FlightGoto(c, pc),
         flight[c].pc # "none", UNCHANGED <<kept, refreshing, sign>>, ServerShrinks,
         lost' \in BOOLEAN, lost => lost', replayed' \in BOOLEAN, ~lost' => replayed' = replayed,
         \/ lost'
         \/ flight[c].pc = "granted" /\ pc = "store"
         \/ flight[c].pc \notin Granted /\ pc \notin InHand
  PROVE  MobileInv'
<1>1. /\ flight' = [flight EXCEPT ![c].pc = pc]
      /\ \A d \in Waiters \ {c} : flight'[d] = flight[d]
      /\ flight'[c].pc = pc /\ flight'[c].token = flight[c].token
      /\ flight' \in [Waiters -> [pc : FlightPCs, token : 0..server.issued]]
  BY DEF FlightGoto, MobileInv, MobileShape
<1>2. MobileShape'
  BY <1>1 DEF MobileInv, MobileShape, Issued, ServerShrinks
<1>3. ASSUME ~lost' PROVE ~lost /\ OneFlight' /\ TokensAlone'
  <2>1. ~lost /\ OneFlight /\ TokensAlone
    BY <1>3 DEF MobileInv
  <2>2. /\ \A d \in Waiters : flight'[d].token = flight[d].token
        /\ \A d \in Waiters : flight'[d].pc \in InHand => flight[d].pc \in InHand
        /\ \A d \in Waiters : flight[d].pc \in Granted => flight'[d].pc \in Granted
    BY <1>1, <1>3 DEF InHand, Granted
  <2>3. OneFlight'
    BY <1>1, <2>1 DEF OneFlight
  <2>4. TokensAlone'
    BY <2>1, <2>2 DEF TokensAlone, AloneInFamily, Kin, ServerShrinks
  <2> QED
    BY <2>1, <2>3, <2>4
<1> QED
  BY <1>2, <1>3 DEF MobileInv

----------------------------------------------------------------------------

\* A token is issued, in the family f or in one of its own.
LEMMA IssueMakes ==
  ASSUME MobileShape, NEW f \in {0} \cup Issued, NEW ended \in SUBSET Tokens, Issue(f, ended)
  PROVE  LET n == server.issued + 1
         IN  /\ server' \in ServerRow /\ n \in Tokens /\ n \notin Issued /\ server'.issued = n
             /\ server'.current = (server.current \ ended) \cup {n}
             /\ server'.family \in [Tokens -> 0..MaxTokens]
             /\ server'.family[n] = IF f = 0 THEN n ELSE f
             /\ \A x \in Issued : server'.family[x] = server.family[x]
             /\ Issued' = Issued \cup {n}
             /\ \A x \in Issued' : server'.family[x] \in Issued'
<1> DEFINE n == server.issued + 1
<1>1. /\ n \in Tokens /\ n \notin Issued /\ Issued \subseteq Tokens
      /\ server.issued \in Nat /\ n \in Nat
  BY DEF MobileShape, Issue, Tokens, Issued
<1>2. server' = [issued |-> n,
                 family |-> [server.family EXCEPT ![n] = IF f = 0 THEN n ELSE f],
                 current |-> (server.current \ ended) \cup {n}]
  BY DEF Issue
<1>3. /\ server'.issued = n /\ server'.current = (server.current \ ended) \cup {n}
      /\ server'.family = [server.family EXCEPT ![n] = IF f = 0 THEN n ELSE f]
  BY <1>2
<1> HIDE DEF n
<1>4. /\ server'.family[n] = IF f = 0 THEN n ELSE f
      /\ \A x \in Issued : server'.family[x] = server.family[x]
  BY <1>1, <1>3 DEF MobileShape
<1>5. Issued' = Issued \cup {n}
  BY <1>1, <1>3 DEF Issued, n
<1>6. \A x \in Issued' : server'.family[x] \in Issued'
  BY <1>4, <1>5 DEF MobileShape
<1>7. server'.family \in [Tokens -> 0..MaxTokens]
  <2>1. (IF f = 0 THEN n ELSE f) \in 0..MaxTokens
    BY <1>1 DEF Tokens
  <2> QED
    BY <1>1, <1>3, <2>1 DEF MobileShape
<1>8. server' \in ServerRow
  <2>1. server.current \subseteq Tokens
    BY <1>1 DEF MobileShape
  <2>2. server'.current \in SUBSET Tokens
    BY <1>1, <1>3, <2>1
  <2>3. n \in 0..MaxTokens
    BY <1>1 DEF Tokens
  <2> QED
    BY <1>2, <1>3, <1>7, <2>2, <2>3 DEF ServerRow
<1> QED
  BY <1>1, <1>3, <1>4, <1>5, <1>6, <1>7, <1>8 DEF n

\* What is issued with the shared refresh replaces the token the refresh carried.
LEMMA RotationKeeps ==
  ASSUME MobileInv, NEW c \in Waiters, ServeRefresh(c), flight[c].token \in server.current
  PROVE  MobileInv'
<1> DEFINE t == flight[c].token
           n == server.issued + 1
<1>0. /\ MobileShape /\ t \in Issued /\ server.family[t] \in Issued /\ t \in Tokens
      /\ flight[c].pc = "sent" /\ 0 \notin Issued
  BY DEF MobileInv, MobileShape, ServeRefresh, FlightAt, Issued, Tokens
<1>1. /\ Issue(server.family[t], {t})
      /\ flight' = [flight EXCEPT ![c] = [pc |-> "granted", token |-> n]]
      /\ UNCHANGED <<kept, refreshing, sign, lost, replayed>>
  BY DEF ServeRefresh
<1>2. /\ server' \in ServerRow /\ n \in Tokens /\ n \notin Issued /\ server'.issued = n
      /\ server'.current = (server.current \ {t}) \cup {n}
      /\ server'.family \in [Tokens -> 0..MaxTokens]
      /\ server'.family[n] = server.family[t]
      /\ \A x \in Issued : server'.family[x] = server.family[x]
      /\ Issued' = Issued \cup {n}
      /\ \A x \in Issued' : server'.family[x] \in Issued'
  <2>1. server.family[t] \in {0} \cup Issued /\ {t} \in SUBSET Tokens /\ server.family[t] # 0
    BY <1>0
  <2> HIDE DEF t
  <2> QED
    BY <1>0, <1>1, <2>1, IssueMakes
<1>3. /\ \A d \in Waiters \ {c} : flight'[d] = flight[d]
      /\ flight'[c].pc = "granted" /\ flight'[c].token = n
  BY <1>0, <1>1 DEF MobileShape
<1>4. MobileShape'
  <2>1. server.issued \in Nat /\ n \in 0..MaxTokens
    BY <1>0, <1>2 DEF MobileShape, Tokens
  <2>1a. /\ server'.issued \in 0..MaxTokens /\ 0..server.issued \subseteq 0..server'.issued
         /\ n \in 0..server'.issued
    BY <1>2, <2>1
  <2>2. flight' \in [Waiters -> [pc : FlightPCs, token : 0..server'.issued]]
    BY <1>0, <1>1, <2>1a DEF MobileShape, FlightPCs
  <2>3. server'.current \subseteq Issued'
    BY <1>0, <1>2 DEF MobileShape
  <2> HIDE DEF n
  <2> QED
    BY <1>0, <1>1, <1>2, <2>1a, <2>2, <2>3 DEF MobileShape
<1>5. ASSUME ~lost PROVE OneFlight' /\ TokensAlone'
  <2>1. OneFlight /\ TokensAlone /\ refreshing = c
    BY <1>0, <1>5 DEF MobileInv, OneFlight
  <2>2. \A d \in Waiters \ {c} : flight[d].pc = "none" /\ flight'[d].pc = "none"
    BY <1>3, <2>1 DEF OneFlight
  <2>3. /\ t # 0 /\ \A s \in server.current : server.family[s] = server.family[t] => s = t
        /\ server.current \subseteq Issued
    BY <1>0, <2>1 DEF TokensAlone, AloneInFamily, Kin, InHand, MobileShape
  <2>4. \A s \in server'.current : s = n \/ (s \in server.current /\ s # t /\ s \in Issued)
    BY <1>0, <1>2 DEF MobileShape
  <2> HIDE DEF n, t
  <2>5. OneFlight'
    BY <1>1, <2>1, <2>2 DEF OneFlight
  <2>6. \A d \in Waiters : flight'[d].pc \in InHand =>
          /\ flight'[d].token # 0
          /\ \A s \in server'.current :
               server'.family[s] = server'.family[flight'[d].token] => s = flight'[d].token
    <3>1. \A s \in server'.current : server'.family[s] = server'.family[n] => s = n
      BY <1>2, <2>3, <2>4
    <3>2. \A d \in Waiters : flight'[d].pc \in InHand => d = c
      BY <2>2 DEF InHand
    <3> QED
      BY <1>2, <1>3, <3>1, <3>2 DEF Tokens
  <2>7. kept # 0 =>
          \A s \in server'.current : server'.family[s] = server'.family[kept] =>
            s = kept \/ \E d \in Waiters : flight'[d].pc \in Granted /\ flight'[d].token = s
    <3> SUFFICES ASSUME kept # 0, NEW s \in server'.current,
                        server'.family[s] = server'.family[kept], s # n
                 PROVE  s = kept
      BY <1>3 DEF Granted
    <3>1. kept \in Issued /\ s \in server.current /\ s \in Issued
      BY <1>0, <2>4 DEF MobileShape, Issued
    <3>2. server.family[s] = server.family[kept]
      BY <1>2, <3>1
    <3> QED
      BY <1>0, <2>1, <2>2, <3>1, <3>2 DEF TokensAlone, Kin, Granted
  <2>8. sign.pc = "in" =>
          /\ sign.token # 0
          /\ \A s \in server'.current :
               server'.family[s] = server'.family[sign.token] => s = sign.token
          /\ kept # 0 => server'.family[kept] # server'.family[sign.token]
          /\ \A d \in Waiters : flight'[d].pc \in InHand =>
               server'.family[flight'[d].token] # server'.family[sign.token]
    <3> SUFFICES ASSUME sign.pc = "in"
                 PROVE  /\ sign.token # 0
                        /\ \A s \in server'.current :
                             server'.family[s] = server'.family[sign.token] => s = sign.token
                        /\ kept # 0 => server'.family[kept] # server'.family[sign.token]
                        /\ \A d \in Waiters : flight'[d].pc \in InHand =>
                             server'.family[flight'[d].token] # server'.family[sign.token]
      OBVIOUS
    <3>1. /\ sign.token # 0 /\ sign.token \in Issued
          /\ server.family[t] # server.family[sign.token]
          /\ \A s \in server.current :
               server.family[s] = server.family[sign.token] => s = sign.token
          /\ kept # 0 => kept \in Issued /\ server.family[kept] # server.family[sign.token]
      BY <1>0, <2>1 DEF TokensAlone, AloneInFamily, Kin, InHand, MobileShape, Issued, t
    <3>2. server'.family[sign.token] = server.family[sign.token]
      BY <1>2, <3>1
    <3>3. \A s \in server'.current :
            server'.family[s] = server'.family[sign.token] => s = sign.token
      BY <1>2, <2>4, <3>1, <3>2
    <3>4. kept # 0 => server'.family[kept] # server'.family[sign.token]
      BY <1>2, <3>1, <3>2
    <3>5. \A d \in Waiters : flight'[d].pc \in InHand =>
            server'.family[flight'[d].token] # server'.family[sign.token]
      BY <1>2, <1>3, <2>2, <3>1, <3>2 DEF InHand
    <3> QED
      BY <3>1, <3>3, <3>4, <3>5
  <2> QED
    BY <1>1, <2>5, <2>6, <2>7, <2>8 DEF TokensAlone, AloneInFamily, Kin
<1> QED
  BY <1>1, <1>4, <1>5 DEF MobileInv

\* A rejected token was alone in its family: nothing is left that it could end.
LEMMA RejectionKeeps ==
  ASSUME MobileInv, NEW c \in Waiters, ServeRefresh(c), flight[c].token \notin server.current
  PROVE  MobileInv'
<1>1. /\ flight[c].pc = "sent" /\ FlightGoto(c, "rejected")
      /\ replayed' = (replayed \/ Kin(flight[c].token) # {})
      /\ server' = [server EXCEPT !.current = @ \ Kin(flight[c].token)]
      /\ UNCHANGED <<kept, refreshing, sign, lost>>
  BY DEF ServeRefresh, FlightAt
<1>2. ServerShrinks
  BY <1>1 DEF ServerShrinks, ServerRow, MobileInv, MobileShape
<1>3. ~lost => Kin(flight[c].token) = {}
  BY <1>1 DEF MobileInv, TokensAlone, AloneInFamily, Kin, InHand
<1>4. lost' = lost /\ lost \in BOOLEAN /\ replayed' \in BOOLEAN /\ (~lost' => replayed' = replayed)
  BY <1>1, <1>3 DEF MobileInv, MobileShape
<1> QED
  BY <1>1, <1>2, <1>4, FlightGoesOn DEF FlightPCs, Granted, InHand

----------------------------------------------------------------------------

\* The shared refresh settles: what it stored is alone in its family.
LEMMA SettlingKeeps ==
  ASSUME MobileInv, NEW c \in Waiters, flight' = [flight EXCEPT ![c] = NoFlight],
         refreshing' = Released(c, "true"), flight[c].pc # "none",
         UNCHANGED <<sign, server, lost, replayed>>,
         \/ flight[c].pc \notin Granted /\ kept' \in {kept, 0}
         \/ flight[c].pc = "store" /\ kept' = flight[c].token
  PROVE  MobileInv'
<1>1. /\ \A d \in Waiters \ {c} : flight'[d] = flight[d]
      /\ flight'[c].pc = "none"
      /\ flight' \in [Waiters -> [pc : FlightPCs, token : 0..server.issued]]
  BY DEF MobileInv, MobileShape, NoFlight, FlightPCs
<1>2. MobileShape'
  BY <1>1 DEF MobileInv, MobileShape, Issued
<1>3. ASSUME ~lost PROVE OneFlight' /\ TokensAlone'
  <2>1. OneFlight /\ TokensAlone /\ refreshing = c
    BY <1>3 DEF MobileInv, OneFlight
  <2>2. \A d \in Waiters : flight'[d].pc = "none" /\ (d # c => flight[d].pc = "none")
    BY <1>1, <2>1 DEF OneFlight
  <2>3. kept' # 0 => Kin(kept') \subseteq {kept'}
    <3>1. CASE flight[c].pc \notin Granted /\ kept' \in {kept, 0}
      BY <2>1, <2>2, <3>1 DEF TokensAlone, Granted
    <3>2. CASE flight[c].pc = "store" /\ kept' = flight[c].token
      BY <2>1, <3>2 DEF TokensAlone, AloneInFamily, InHand
    <3> QED
      BY <3>1, <3>2
  <2>4. sign.pc = "in" /\ kept' # 0 => server.family[kept'] # server.family[sign.token]
    BY <2>1 DEF TokensAlone, InHand
  <2>5. OneFlight'
    BY <2>2 DEF OneFlight
  <2> QED
    BY <2>1, <2>2, <2>3, <2>4, <2>5 DEF TokensAlone, AloneInFamily, Kin, InHand, Granted
<1> QED
  BY <1>2, <1>3 DEF MobileInv

\* The refresh reads the stored token, which is then alone in its family.
LEMMA ReadingKeeps ==
  ASSUME MobileInv, NEW c \in Waiters, FlightAt(c, "read"), kept # 0,
         flight' = [flight EXCEPT ![c] = [pc |-> "sent", token |-> kept]],
         UNCHANGED <<kept, refreshing, sign, server, lost, replayed>>
  PROVE  MobileInv'
<1>1. /\ \A d \in Waiters \ {c} : flight'[d] = flight[d]
      /\ flight'[c].pc = "sent" /\ flight'[c].token = kept /\ flight[c].pc = "read"
      /\ flight' \in [Waiters -> [pc : FlightPCs, token : 0..server.issued]]
  BY DEF MobileInv, MobileShape, FlightPCs, FlightAt
<1>2. MobileShape'
  BY <1>1 DEF MobileInv, MobileShape, Issued
<1>3. ASSUME ~lost PROVE OneFlight' /\ TokensAlone'
  <2>1. OneFlight /\ TokensAlone /\ refreshing = c
    BY <1>1, <1>3 DEF MobileInv, OneFlight
  <2>2. \A d \in Waiters \ {c} : flight'[d].pc = "none" /\ flight[d].pc = "none"
    BY <1>1, <2>1 DEF OneFlight
  <2>3. Kin(kept) \subseteq {kept}
    BY <1>1, <2>1, <2>2 DEF TokensAlone, Granted
  <2>4. OneFlight'
    BY <2>1, <2>2 DEF OneFlight
  <2> QED
    BY <1>1, <2>1, <2>2, <2>3, <2>4 DEF TokensAlone, AloneInFamily, Kin, InHand, Granted
<1> QED
  BY <1>2, <1>3 DEF MobileInv

\* A refresh starts only when none is shared.
LEMMA JoiningKeeps ==
  ASSUME MobileInv, NEW c \in Waiters, JoinRefresh(c),
         UNCHANGED <<kept, sign, server, lost, replayed>>
  PROVE  MobileInv'
<1>1. CASE refreshing = Nobody
  <2>1. refreshing' = c /\ flight' = [flight EXCEPT ![c] = [pc |-> "read", token |-> 0]]
    BY <1>1 DEF JoinRefresh, OwnFlight
  <2>2. /\ \A d \in Waiters \ {c} : flight'[d] = flight[d]
        /\ flight'[c].pc = "read"
        /\ flight' \in [Waiters -> [pc : FlightPCs, token : 0..server.issued]]
    BY <2>1 DEF MobileInv, MobileShape, FlightPCs
  <2>3. MobileShape'
    BY <2>2 DEF MobileInv, MobileShape, Issued
  <2>4. ASSUME ~lost PROVE OneFlight' /\ TokensAlone'
    <3>1. TokensAlone /\ \A d \in Waiters : flight[d].pc = "none"
      BY <1>1, <2>4 DEF MobileInv, OneFlight, Waiters
    <3>2. OneFlight'
      BY <2>1, <2>2, <3>1 DEF OneFlight
    <3> QED
      BY <2>2, <3>1, <3>2 DEF TokensAlone, AloneInFamily, Kin, InHand, Granted
  <2> QED
    BY <2>3, <2>4 DEF MobileInv
<1>2. CASE refreshing # Nobody
  BY <1>2, ForgettingKeeps DEF JoinRefresh, ServerShrinks, MobileInv, MobileShape
<1> QED
  BY <1>1, <1>2

\* The token of a login begins a family.
LEMMA SigningKeeps ==
  ASSUME MobileInv, SignIn
  PROVE  MobileInv'
<1> PICK n : n = server.issued + 1
  OBVIOUS
<1>1. /\ MobileShape /\ sign' = [pc |-> "in", token |-> n] /\ Issue(0, {})
      /\ UNCHANGED <<kept, refreshing, flight, lost, replayed>>
  BY DEF MobileInv, SignIn
<1>2. /\ server' \in ServerRow /\ n \in Tokens /\ n \notin Issued /\ server'.issued = n
      /\ server'.current = server.current \cup {n}
      /\ server'.family \in [Tokens -> 0..MaxTokens]
      /\ server'.family[n] = n
      /\ \A x \in Issued : server'.family[x] = server.family[x]
      /\ Issued' = Issued \cup {n}
      /\ \A x \in Issued' : server'.family[x] \in Issued'
  BY <1>1, IssueMakes
<1>3. MobileShape'
  <2>1. server.issued \in Nat /\ n \in 0..MaxTokens
    BY <1>1, <1>2 DEF MobileShape, Tokens
  <2>2. /\ server'.issued \in 0..MaxTokens /\ 0..server.issued \subseteq 0..server'.issued
        /\ n \in 0..server'.issued
    BY <1>2, <2>1
  <2>3. /\ flight' \in [Waiters -> [pc : FlightPCs, token : 0..server'.issued]]
        /\ kept' \in 0..server'.issued
    BY <1>1, <2>2 DEF MobileShape
  <2>4. sign' \in [pc : {"idle", "in", "clear", "logout"}, token : 0..server'.issued]
    BY <1>1, <2>2
  <2>5. server'.current \subseteq Issued'
    BY <1>1, <1>2 DEF MobileShape
  <2> QED
    BY <1>1, <1>2, <2>2, <2>3, <2>4, <2>5 DEF MobileShape
<1>4. ASSUME ~lost PROVE OneFlight' /\ TokensAlone'
  <2>1. OneFlight /\ TokensAlone
    BY <1>4 DEF MobileInv
  <2>2. /\ sign'.pc = "in" /\ sign'.token = n /\ n # 0
        /\ \A s \in server'.current : s = n \/ s \in server.current
        /\ \A s \in server.current : s \in Issued /\ server'.family[s] = server.family[s]
        /\ \A s \in Issued : server'.family[s] # n
    BY <1>1, <1>2 DEF MobileShape, Tokens
  <2>3. /\ kept # 0 => kept \in Issued
        /\ \A d \in Waiters : flight[d].token # 0 => flight[d].token \in Issued
    BY <1>1 DEF MobileShape, Issued
  <2>4. OneFlight'
    BY <1>1, <2>1 DEF OneFlight
  <2>5. \A x \in Issued : \A s \in server'.current :
          server'.family[s] = server'.family[x] => s \in Kin(x)
    BY <1>2, <2>2 DEF Kin
  <2>6. \A d \in Waiters : flight[d].pc \in InHand =>
          /\ flight[d].token # 0
          /\ \A s \in server'.current :
               server'.family[s] = server'.family[flight[d].token] => s = flight[d].token
          /\ server'.family[flight[d].token] # n
    BY <2>1, <2>2, <2>3, <2>5 DEF TokensAlone, AloneInFamily
  <2>7. kept # 0 =>
          /\ \A s \in server'.current : server'.family[s] = server'.family[kept] =>
               s = kept \/ \E d \in Waiters : flight[d].pc \in Granted /\ flight[d].token = s
          /\ server'.family[kept] # n
    BY <2>1, <2>2, <2>3, <2>5 DEF TokensAlone
  <2>8. \A s \in server'.current : server'.family[s] = n => s = n
    BY <2>2
  <2> QED
    BY <1>1, <1>2, <2>2, <2>4, <2>6, <2>7, <2>8 DEF TokensAlone, AloneInFamily, Kin
<1> QED
  BY <1>1, <1>3, <1>4 DEF MobileInv

\* The answered login stores a token that is alone in its family.
LEMMA AnsweringKeeps ==
  ASSUME MobileInv, SignedIn
  PROVE  MobileInv'
<1>1. /\ sign.pc = "in" /\ kept' = sign.token /\ sign' = [pc |-> "idle", token |-> 0]
      /\ UNCHANGED <<flight, refreshing, server, lost, replayed>>
  BY DEF SignedIn
<1>2. MobileShape'
  BY <1>1 DEF MobileInv, MobileShape, Issued
<1>3. ~lost => OneFlight' /\ TokensAlone'
  BY <1>1 DEF MobileInv, OneFlight, TokensAlone, AloneInFamily, Kin
<1> QED
  BY <1>1, <1>2, <1>3 DEF MobileInv

\* A killed application had no successor in hand, or lost it.
LEMMA KillKeeps ==
  ASSUME MobileInv, Kill
  PROVE  MobileInv'
<1>1. /\ flight' = [c \in Waiters |-> NoFlight] /\ refreshing' = Nobody
      /\ lost' = (lost \/ \E c \in Waiters : flight[c].pc \in InHand)
      /\ sign' = [pc |-> "idle", token |-> 0]
      /\ UNCHANGED <<kept, server, replayed>>
  BY DEF Kill, InHand
<1>2. /\ flight' \in [Waiters -> [pc : FlightPCs, token : 0..server.issued]]
      /\ \A c \in Waiters : flight'[c].pc = "none"
      /\ sign' \in [pc : {"idle", "in", "clear", "logout"}, token : 0..server.issued]
      /\ sign'.pc = "idle"
  BY <1>1 DEF NoFlight, FlightPCs, MobileInv, MobileShape
<1>3. MobileShape'
  BY <1>1, <1>2 DEF MobileInv, MobileShape, Issued
<1>4. ASSUME ~lost' PROVE ~replayed /\ OneFlight' /\ TokensAlone'
  BY ZenonT(60), <1>1, <1>2, <1>4 DEF MobileInv, OneFlight, TokensAlone, AloneInFamily, Kin, InHand, Granted
<1> QED
  BY <1>1, <1>3, <1>4 DEF MobileInv

----------------------------------------------------------------------------

LEMMA RefreshStepKeeps ==
  ASSUME MobileInv, NEW c \in Waiters, StepOfRefresh(c) \/ LoseAnswer(c)
  PROVE  MobileInv'
<1>1. CASE ReadToken(c)
  <2>1. CASE kept = 0
    BY <1>1, <2>1, SettlingKeeps DEF ReadToken, Settle, Released, FlightAt, Granted
  <2>2. CASE kept # 0
    BY <1>1, <2>2, ReadingKeeps DEF ReadToken
  <2> QED
    BY <2>1, <2>2
<1>2. CASE ServeRefresh(c)
  BY <1>2, RotationKeeps, RejectionKeeps
<1>3. CASE RememberAccess(c)
  BY <1>3, FlightGoesOn DEF RememberAccess, FlightAt, FlightPCs, ServerShrinks, MobileInv, MobileShape
<1>4. CASE StoreToken(c)
  BY <1>4, SettlingKeeps DEF StoreToken, Settle, Released, FlightAt, Granted
<1>5. CASE ForgetAccess(c)
  BY <1>5, FlightGoesOn
     DEF ForgetAccess, FlightAt, FlightPCs, ServerShrinks, MobileInv, MobileShape, Granted, InHand
<1>6. CASE RemoveToken(c)
  BY <1>6, SettlingKeeps DEF RemoveToken, Settle, Released, FlightAt, Granted
<1>7. CASE LoseAnswer(c)
  <2>1. lost' \in BOOLEAN /\ (lost => lost') /\ (flight[c].pc \in Granted => lost')
    BY <1>7 DEF LoseAnswer, FlightAt, Granted, MobileInv, MobileShape
  <2> QED
    BY <1>7, <2>1, FlightGoesOn
       DEF LoseAnswer, FlightPCs, ServerShrinks, MobileInv, MobileShape, InHand
<1>8. CASE RefreshFails(c)
  BY <1>8, SettlingKeeps DEF RefreshFails, Settle, Released, FlightAt, Granted
<1> QED
  BY <1>1, <1>2, <1>3, <1>4, <1>5, <1>6, <1>7, <1>8 DEF StepOfRefresh

LEMMA MobileStepKeeps == MobileInv /\ [MobileNext]_mobileVars => MobileInv'
<1> SUFFICES ASSUME MobileInv, [MobileNext]_mobileVars PROVE MobileInv'
  OBVIOUS
<1>1. ASSUME NEW c \in Waiters, StepOfRefresh(c) \/ LoseAnswer(c) PROVE MobileInv'
  BY <1>1, RefreshStepKeeps
<1>2. ASSUME NEW c \in Callers, Call(c) \/ AnswerCall(c) \/ AnswerAgain(c) PROVE MobileInv'
  <2>1. CASE UNCHANGED <<refreshing, flight>>
    BY <1>2, <2>1, ForgettingKeeps DEF Call, AnswerCall, AnswerAgain, ServerShrinks, MobileInv, MobileShape
  <2>2. CASE ~UNCHANGED <<refreshing, flight>>
    BY <1>2, <2>2, JoiningKeeps DEF Call, AnswerCall, AnswerAgain, Waiters
  <2> QED
    BY <2>1, <2>2
<1>3. ASSUME NEW t \in Tokens, EndSession(t) PROVE MobileInv'
  BY <1>3, ForgettingKeeps DEF EndSession, ServerShrinks, ServerRow, MobileInv, MobileShape
<1>4. CASE AccessExpires \/ SignOut \/ ClearSession \/ SignedOut
  BY <1>4, ForgettingKeeps
     DEF AccessExpires, SignOut, ClearSession, SignedOut, ServerShrinks, ServerRow, MobileInv,
         MobileShape
<1>5. CASE Restore
  BY <1>5, ForgettingKeeps, JoiningKeeps DEF Restore, ServerShrinks, Waiters, MobileInv, MobileShape
<1>6. CASE SignIn \/ SignedIn \/ Kill
  BY <1>6, SigningKeeps, AnsweringKeeps, KillKeeps
<1>7. CASE UNCHANGED mobileVars
  BY <1>7, ForgettingKeeps DEF mobileVars, ServerShrinks, MobileInv, MobileShape
<1> QED
  BY <1>1, <1>2, <1>3, <1>4, <1>5, <1>6, <1>7 DEF MobileNext

\* "a token is single-use, so concurrent 401s must share one refresh call"
\* (api.ts:63): with any number of calls, sign-ins and kills the application
\* never sends a refresh token that was used, unless an answer was lost.
THEOREM TokensAreUsedOnce == MobileSpec => []NeverReplays
<1>1. MobileInv => NeverReplays
  BY DEF MobileInv, NeverReplays
<1> QED
  BY <1>1, MobileInitially, MobileStepKeeps, PTL DEF MobileSpec

----------------------------------------------------------------------------
(* The guards *)
(* An entry of the present window is found again as long as it was not     *)
(* forgotten, there is one of each caller, and its count is at least what  *)
(* it let through. Entries are never of a later window.                    *)

Entry == [caller : Clients, window : Nat, count : Nat]

LimitsShape ==
  /\ window \in Nat /\ counters \in [Clients -> Nat]
  /\ fallback \in [Instances -> Seq(Entry)]
  /\ guarded \in [Instances \cup {"redis"} -> [Clients -> Nat]]
  /\ evicted \in [Instances -> SUBSET Clients]

RedisCounts ==
  \A c \in Clients : guarded["redis"][c] <= counters[c] /\ guarded["redis"][c] <= LimitMax

\* What the entries of f say in window w of a process that let g through and
\* forgot E.
EntriesCount(f, g, E, w) ==
  /\ \A n \in DOMAIN f : f[n].window <= w
  /\ \A m, n \in DOMAIN f :
       f[m].window = w /\ f[n].window = w /\ f[m].caller = f[n].caller => m = n
  /\ \A c \in Clients \ E :
       /\ g[c] <= LimitMax
       /\ g[c] = 0 \/ \E n \in DOMAIN f : f[n].window = w /\ f[n].caller = c
       /\ \A n \in DOMAIN f : f[n].window = w /\ f[n].caller = c => g[c] <= f[n].count

MapsCount == \A i \in Instances : EntriesCount(fallback[i], guarded[i], evicted[i], window)

LimitsInv == LimitsShape /\ RedisCounts /\ MapsCount

USE LimitsAssumption

LEMMA LimitsInitially == LimitsInit => LimitsInv
<1> SUFFICES ASSUME LimitsInit PROVE LimitsInv
  OBVIOUS
<1>1. LimitsShape /\ RedisCounts
  BY DEF LimitsInit, LimitsShape, RedisCounts
<1>2. \A i \in Instances : DOMAIN fallback[i] = {} /\ \A c \in Clients : guarded[i][c] = 0
  BY DEF LimitsInit
<1>3. MapsCount
  BY <1>2 DEF MapsCount, EntriesCount
<1> QED
  BY <1>1, <1>3 DEF LimitsInv

\* A count lets through no more than it counts.
LEMMA BumpCounts ==
  ASSUME NEW k \in Nat, NEW g \in Nat, g <= k, g <= LimitMax
  PROVE  /\ Bump(k) \in Nat
         /\ (IF Passes(Bump(k)) THEN Bump(g) ELSE g) \in Nat
         /\ (IF Passes(Bump(k)) THEN Bump(g) ELSE g) <= Bump(k)
         /\ (IF Passes(Bump(k)) THEN Bump(g) ELSE g) <= LimitMax
BY DEF Bump, Passes

LEMMA RedisKeeps ==
  ASSUME LimitsInv, NEW c \in Clients, CountInRedis(c)
  PROVE  LimitsInv'
<1>0. LimitsShape /\ RedisCounts /\ MapsCount /\ UNCHANGED <<window, fallback, evicted>>
  BY DEF LimitsInv, CountInRedis
<1>1. PICK k \in Nat, g \in Nat : k = counters[c] /\ g = guarded["redis"][c]
  BY <1>0 DEF LimitsShape
<1>2. g <= k /\ g <= LimitMax
  BY <1>0, <1>1 DEF RedisCounts
<1>3. PICK kk \in Nat, gg \in Nat :
        /\ kk = Bump(k) /\ gg = IF Passes(Bump(k)) THEN Bump(g) ELSE g
        /\ gg <= kk /\ gg <= LimitMax
  BY <1>2, BumpCounts
<1>4. counters' = [counters EXCEPT ![c] = kk]
  BY <1>0, <1>1, <1>3 DEF LimitsShape, CountInRedis
<1>5. counters'[c] = kk
  BY <1>0, <1>4 DEF LimitsShape
<1>6. guarded' = [guarded EXCEPT !["redis"][c] = gg]
  BY <1>0, <1>1, <1>3, <1>5 DEF LimitsShape, CountInRedis, LetThrough
<1>7. guarded' \in [Instances \cup {"redis"} -> [Clients -> Nat]]
  BY <1>0, <1>6 DEF LimitsShape
<1>8. /\ \A d \in Clients : guarded'["redis"][d] = IF d = c THEN gg ELSE guarded["redis"][d]
      /\ \A i \in Instances : guarded'[i] = guarded[i]
  BY <1>0, <1>6 DEF LimitsShape
<1>9. LimitsShape'
  BY <1>0, <1>4, <1>7 DEF LimitsShape
<1>10. RedisCounts'
  BY <1>0, <1>3, <1>4, <1>8 DEF LimitsShape, RedisCounts
<1>11. MapsCount'
  BY <1>0, <1>8 DEF MapsCount, EntriesCount
<1> QED
  BY <1>9, <1>10, <1>11 DEF LimitsInv

\* What is left after a trim is the end of what was there.
LEMMA TrimmedIsASuffix ==
  ASSUME NEW f \in Seq(Entry), NEW n \in 0..Len(f)
  PROVE  /\ Trimmed(f, n) \in Seq(Entry)
         /\ \E k \in 0..Len(f) : /\ Len(Trimmed(f, n)) = Len(f) - k
                                 /\ \A j \in 1..(Len(f) - k) : Trimmed(f, n)[j] = f[j + k]
<1> DEFINE left == SubSeq(f, n + 1, Len(f))
<1>1. Len(f) \in Nat /\ n \in Nat /\ n <= Len(f)
  OBVIOUS
<1>2. /\ left \in Seq(Entry) /\ Len(left) = Len(f) - n
      /\ \A j \in 1..(Len(f) - n) : left[j] = f[j + n]
  BY <1>1
<1>3. CASE Len(f) < MapSize
  <2>1. Trimmed(f, n) = f
    BY <1>3 DEF Trimmed
  <2> QED
    BY <1>1, <2>1
<1>4. CASE Len(f) >= MapSize /\ Len(left) < MapSize
  <2>1. Trimmed(f, n) = left
    BY <1>1, <1>4 DEF Trimmed
  <2> QED
    BY <1>1, <1>2, <2>1
<1>5. CASE Len(f) >= MapSize /\ Len(left) >= MapSize
  <2> DEFINE k == Len(left) - MapSize + 1
             last == SubSeq(left, k + 1, Len(left))
  <2>1. k \in 0..Len(left) /\ n + k \in 0..Len(f)
    BY SMTT(30), <1>1, <1>2, <1>5
  <2>2. Trimmed(f, n) = last
    <3>1. k + 1 = Len(left) - MapSize + 2
      BY <1>1, <1>2
    <3>2. ~(Len(f) < MapSize) /\ ~(Len(left) < MapSize)
      BY <1>1, <1>2, <1>5
    <3>3. Trimmed(f, n) = SubSeq(left, Len(left) - MapSize + 2, Len(left))
      BY <3>2, ZenonT(20) DEF Trimmed
    <3> QED
      BY <3>1, <3>3
  <2> HIDE DEF left
  <2>3. /\ last \in Seq(Entry) /\ Len(last) = Len(left) - k
        /\ \A j \in 1..(Len(left) - k) : last[j] = left[j + k]
    BY <1>2, <2>1
  <2> HIDE DEF k, last
  <2>4. Len(last) = Len(f) - (n + k)
    BY <1>1, <1>2, <2>1, <2>3
  <2>5. ASSUME NEW j \in 1..(Len(f) - (n + k)) PROVE last[j] = f[j + (n + k)]
    <3>1. j \in 1..(Len(left) - k) /\ j + k \in 1..(Len(f) - n) /\ (j + k) + n = j + (n + k)
      BY <1>1, <1>2, <2>1
    <3> QED
      BY <1>2, <2>3, <3>1
  <2> QED
    BY <2>1, <2>2, <2>3, <2>4, <2>5
<1>6. \/ Len(f) < MapSize
      \/ Len(f) >= MapSize /\ Len(left) < MapSize
      \/ Len(f) >= MapSize /\ Len(left) >= MapSize
  BY <1>1, <1>2
<1> QED
  BY <1>3, <1>4, <1>5, <1>6

\* The entries and what was let through after c was counted in the n-th entry,
\* and after it got an entry of its own, where the entries of F were forgotten.
CountsAgain(f, g, n, c, kk, e, h, q) ==
  /\ kk = Bump(f[n].count) /\ e = [f[n] EXCEPT !.count = kk]
  /\ h = [f EXCEPT ![n] = e]
  /\ q = [g EXCEPT ![c] = IF Passes(kk) THEN Bump(g[c]) ELSE g[c]]

CountsFirst(f, g, n, c, w, F, t, e, h, q) ==
  /\ \A m \in DOMAIN f : ~(f[m].window = w /\ f[m].caller = c)
  /\ t = Trimmed(f, n)
  /\ \A d \in Clients \ F : \A m \in DOMAIN f :
       f[m].window = w /\ f[m].caller = d => \E j \in DOMAIN t : t[j] = f[m]
  /\ e = [caller |-> c, window |-> w, count |-> 1]
  /\ h = Append(t, e)
  /\ q = [g EXCEPT ![c] = Bump(g[c])]

\* A caller is counted in its entry.
LEMMA CountedAgain ==
  ASSUME NEW f \in Seq(Entry), NEW g \in [Clients -> Nat], NEW E, NEW w \in Nat,
         NEW n \in DOMAIN f, NEW c \in Clients, NEW kk \in Nat, NEW e \in Entry, NEW h, NEW q,
         EntriesCount(f, g, E, w), f[n].window = w, f[n].caller = c,
         CountsAgain(f, g, n, c, kk, e, h, q)
  PROVE  h \in Seq(Entry) /\ q \in [Clients -> Nat] /\ EntriesCount(h, q, E, w)
<1> USE DEF CountsAgain
<1>0. f[n] \in Entry
  OBVIOUS
<1>1. f[n] \in Entry /\ f[n].count \in Nat
  BY <1>0 DEF Entry
<1>2. e.caller = c /\ e.window = w /\ e.count = kk
  BY <1>1 DEF Entry
<1>3. h \in Seq(Entry)
  OBVIOUS
<1>4. /\ DOMAIN h = DOMAIN f
      /\ \A m \in DOMAIN f : h[m] = IF m = n THEN e ELSE f[m]
  OBVIOUS
<1>5. PICK gg \in Nat : gg = IF Passes(kk) THEN Bump(g[c]) ELSE g[c]
  BY DEF Bump
<1>6. q \in [Clients -> Nat] /\ \A d \in Clients : q[d] = IF d = c THEN gg ELSE g[d]
  BY <1>5
<1>7. c \notin E => gg <= kk /\ gg <= LimitMax
  <2>1. c \notin E => g[c] <= f[n].count /\ g[c] <= LimitMax
    BY DEF EntriesCount
  <2> QED
    BY <1>1, <1>5, <2>1, BumpCounts
<1>8. /\ \A m \in DOMAIN h : /\ h[m].window = f[m].window /\ h[m].caller = f[m].caller
                             /\ m # n => h[m].count = f[m].count
      /\ h[n].count = kk
  BY <1>2, <1>4
<1>9. /\ \A m \in DOMAIN h : h[m].window <= w
      /\ \A m, p \in DOMAIN h :
           h[m].window = w /\ h[p].window = w /\ h[m].caller = h[p].caller => m = p
  BY SMTT(30), <1>4, <1>8 DEF EntriesCount
<1>10. ASSUME NEW d \in Clients \ E
       PROVE  /\ q[d] <= LimitMax
              /\ q[d] = 0 \/ \E m \in DOMAIN h : h[m].window = w /\ h[m].caller = d
              /\ \A m \in DOMAIN h : h[m].window = w /\ h[m].caller = d => q[d] <= h[m].count
  <2>1. CASE d = c
    <3>1. \A m \in DOMAIN h : h[m].window = w /\ h[m].caller = c => m = n
      BY <1>2, <1>4, <1>8, <1>9
    <3>2. q[d] = gg /\ gg <= kk /\ gg <= LimitMax
      BY <1>6, <1>7, <2>1
    <3>3. n \in DOMAIN h /\ h[n].window = w /\ h[n].caller = d
      BY <1>4, <1>8, <2>1
    <3> QED
      BY <2>1, <3>1, <3>2, <3>3, <1>8
  <2>2. CASE d # c
    <3>1. q[d] = g[d]
      BY <1>6, <2>2
    <3>2. \A m \in DOMAIN h : h[m].caller = d => h[m].count = f[m].count
      BY <1>4, <1>8, <2>2
    <3>3. /\ g[d] <= LimitMax
          /\ g[d] = 0 \/ \E m \in DOMAIN f : f[m].window = w /\ f[m].caller = d
          /\ \A m \in DOMAIN f : f[m].window = w /\ f[m].caller = d => g[d] <= f[m].count
      BY DEF EntriesCount
    <3> QED
      BY <1>4, <1>8, <3>1, <3>2, <3>3
  <2> QED
    BY <2>1, <2>2
<1> QED
  BY <1>3, <1>6, <1>9, <1>10 DEF EntriesCount

\* A caller without an entry gets one, behind what was left of the others.
LEMMA CountedFirst ==
  ASSUME NEW f \in Seq(Entry), NEW g \in [Clients -> Nat], NEW E, NEW w \in Nat,
         NEW n \in 0..Len(f), NEW c \in Clients, NEW F, NEW t \in Seq(Entry), NEW e \in Entry,
         NEW h, NEW q, EntriesCount(f, g, E, w), CountsFirst(f, g, n, c, w, F, t, e, h, q)
  PROVE  h \in Seq(Entry) /\ q \in [Clients -> Nat] /\ EntriesCount(h, q, E \cup F, w)
<1> USE DEF CountsFirst
<1>0. \E k \in 0..Len(f) : /\ Len(Trimmed(f, n)) = Len(f) - k
                            /\ \A j \in 1..(Len(f) - k) : Trimmed(f, n)[j] = f[j + k]
  BY TrimmedIsASuffix
<1>1. PICK k \in 0..Len(f) : Len(t) = Len(f) - k /\ \A j \in 1..(Len(f) - k) : t[j] = f[j + k]
  BY <1>0
<1>2. PICK last \in Nat : last = Len(t)
  OBVIOUS
<1>3. /\ h \in Seq(Entry) /\ DOMAIN h = 1..(last + 1) /\ h[last + 1] = e
      /\ \A j \in 1..last : h[j] = t[j]
      /\ DOMAIN t = 1..last
  BY <1>2
<1>4. \A j \in 1..last : j + k \in DOMAIN f /\ h[j] = f[j + k]
  BY <1>1, <1>2, <1>3
<1>5. e.caller = c /\ e.window = w /\ e.count = 1
  OBVIOUS
<1>6. q \in [Clients -> Nat] /\ \A d \in Clients : q[d] = IF d = c THEN Bump(g[c]) ELSE g[d]
  BY DEF Bump
<1>7. c \notin E => q[c] = 1
  <2>1. c \notin E => g[c] = 0
    BY DEF EntriesCount
  <2>2. Bump(0) = 1
    BY DEF Bump, Passes
  <2> QED
    BY <1>6, <2>1, <2>2
<1>8. \A m \in DOMAIN h : m = last + 1 \/ m \in 1..last
  BY <1>3
<1>a. \A d \in Clients \ F : \A m \in DOMAIN f :
        f[m].window = w /\ f[m].caller = d => \E j \in DOMAIN t : t[j] = f[m]
  OBVIOUS
<1>b. \A m \in DOMAIN f : ~(f[m].window = w /\ f[m].caller = c)
  OBVIOUS
<1> HIDE DEF CountsFirst
<1>9. \A m \in 1..last : h[m].window <= w /\ ~(h[m].window = w /\ h[m].caller = c)
  <2>1. \A m \in DOMAIN f : f[m].window <= w /\ ~(f[m].window = w /\ f[m].caller = c)
    BY <1>b DEF EntriesCount
  <2> QED
    BY <1>4, <2>1
<1>10. \A m \in DOMAIN h : h[m].window <= w
  BY <1>3, <1>5, <1>8, <1>9
<1>11. ASSUME NEW m \in DOMAIN h, NEW p \in DOMAIN h,
              h[m].window = w, h[p].window = w, h[m].caller = h[p].caller
       PROVE  m = p
  <2>1. CASE m \in 1..last /\ p \in 1..last
    <3>0. /\ m + k \in DOMAIN f /\ h[m] = f[m + k] /\ p + k \in DOMAIN f /\ h[p] = f[p + k]
          /\ m \in Nat /\ p \in Nat /\ k \in Nat
      BY SMTT(30), <1>1, <1>4, <2>1
    <3>1. \A x, y \in DOMAIN f :
            f[x].window = w /\ f[y].window = w /\ f[x].caller = f[y].caller => x = y
      BY DEF EntriesCount
    <3>2. m + k = p + k
      BY <1>11, <3>0, <3>1
    <3> QED
      BY <3>0, <3>2
  <2>2. CASE m = last + 1 \/ p = last + 1
    BY <1>3, <1>5, <1>8, <1>9, <1>11, <2>2
  <2> QED
    BY <1>8, <2>1, <2>2
<1>12. ASSUME NEW d \in Clients \ (E \cup F)
       PROVE  /\ q[d] <= LimitMax
              /\ q[d] = 0 \/ \E m \in DOMAIN h : h[m].window = w /\ h[m].caller = d
              /\ \A m \in DOMAIN h : h[m].window = w /\ h[m].caller = d => q[d] <= h[m].count
  <2>1. last + 1 \in DOMAIN h
    BY <1>3
  <2>2. CASE d = c
    <3>1. \A m \in DOMAIN h : h[m].window = w /\ h[m].caller = c => m = last + 1
      BY <1>8, <1>9
    <3>2. q[d] = 1 /\ h[last + 1].count = 1
      BY <1>3, <1>5, <1>7, <2>2
    <3>3. h[last + 1].window = w /\ h[last + 1].caller = d
      BY <1>3, <1>5, <2>2
    <3>4. \A m \in DOMAIN h : h[m].window = w /\ h[m].caller = d => q[d] <= h[m].count
      BY <2>2, <3>1, <3>2
    <3>5. q[d] <= LimitMax
      BY <3>2
    <3> QED
      BY <2>1, <3>3, <3>4, <3>5
  <2>3. CASE d # c
    <3>1. q[d] = g[d] /\ q[d] <= LimitMax
      BY <1>6, <2>3 DEF EntriesCount
    <3>2. q[d] = 0 \/ \E m \in DOMAIN h : h[m].window = w /\ h[m].caller = d
      <4>1. SUFFICES ASSUME q[d] # 0
                     PROVE  \E m \in DOMAIN h : h[m].window = w /\ h[m].caller = d
        OBVIOUS
      <4>2. PICK m \in DOMAIN f : f[m].window = w /\ f[m].caller = d
        BY <3>1, <4>1 DEF EntriesCount
      <4>3. PICK j \in DOMAIN t : t[j] = f[m]
        BY <1>a, <4>2
      <4>4. j \in DOMAIN h /\ h[j] = t[j]
        BY <1>3
      <4> QED
        BY <4>2, <4>3, <4>4
    <3>3. ASSUME NEW m \in DOMAIN h, h[m].window = w, h[m].caller = d
          PROVE  q[d] <= h[m].count
      <4>1. m \in 1..last
        BY <1>3, <1>5, <1>8, <2>3, <3>3
      <4>2. m + k \in DOMAIN f /\ h[m] = f[m + k]
        BY <1>4, <4>1
      <4>3. g[d] <= f[m + k].count
        BY <3>3, <4>2 DEF EntriesCount
      <4> QED
        BY <3>1, <4>2, <4>3
    <3> QED
      BY <3>1, <3>2, <3>3
  <2> QED
    BY <2>2, <2>3
<1>13. \A m, p \in DOMAIN h :
         h[m].window = w /\ h[p].window = w /\ h[m].caller = h[p].caller => m = p
  BY <1>11
<1> QED
  BY <1>3, <1>6, <1>10, <1>12, <1>13 DEF EntriesCount

\* One process changes its map, and Redis may have counted as well.
LEMMA MapKeeps ==
  ASSUME LimitsInv, NEW i \in Instances, NEW h \in Seq(Entry), NEW q \in [Clients -> Nat],
         NEW E \in SUBSET Clients, EntriesCount(h, q, E, window),
         fallback' = [fallback EXCEPT ![i] = h], guarded' = [guarded EXCEPT ![i] = q],
         evicted' = [evicted EXCEPT ![i] = E], window' = window,
         counters' \in [Clients -> Nat], \A d \in Clients : counters[d] <= counters'[d]
  PROVE  LimitsInv'
<1>0. LimitsShape /\ RedisCounts /\ MapsCount
  BY DEF LimitsInv
<1>1. LimitsShape'
  BY <1>0 DEF LimitsShape
<1>2. /\ \A j \in Instances :
           /\ fallback'[j] = IF j = i THEN h ELSE fallback[j]
           /\ guarded'[j] = IF j = i THEN q ELSE guarded[j]
           /\ evicted'[j] = IF j = i THEN E ELSE evicted[j]
      /\ guarded'["redis"] = guarded["redis"]
  BY <1>0 DEF LimitsShape
<1>3. RedisCounts'
  <2> SUFFICES ASSUME NEW d \in Clients
               PROVE  guarded'["redis"][d] <= counters'[d] /\ guarded'["redis"][d] <= LimitMax
    BY DEF RedisCounts
  <2>1. guarded["redis"] \in [Clients -> Nat]
    BY <1>0 DEF LimitsShape
  <2>2. guarded["redis"][d] \in Nat /\ counters[d] \in Nat /\ counters'[d] \in Nat
    BY <1>0, <2>1 DEF LimitsShape
  <2> QED
    BY <1>0, <1>2, <2>2 DEF RedisCounts
<1>4. ASSUME NEW j \in Instances
      PROVE  EntriesCount(fallback'[j], guarded'[j], evicted'[j], window')
  BY <1>0, <1>2 DEF MapsCount
<1>5. MapsCount'
  BY <1>4 DEF MapsCount
<1> QED
  BY <1>1, <1>3, <1>5 DEF LimitsInv

LEMMA LocalKeeps ==
  ASSUME LimitsInv, NEW i \in Instances, NEW c \in Clients, CountLocal(i, c)
  PROVE  LimitsInv'
<1>0. LimitsShape /\ window' = window
  BY DEF LimitsInv, CountLocal
<1>1. counters' \in [Clients -> Nat] /\ \A d \in Clients : counters[d] <= counters'[d]
  <2>1. CASE counters' = counters
    BY <1>0, <2>1 DEF LimitsShape
  <2>2. CASE counters[c] = 0 /\ counters' = [counters EXCEPT ![c] = 1]
    BY <1>0, <2>2 DEF LimitsShape
  <2> QED
    BY <2>1, <2>2 DEF CountLocal
<1>2. PICK f \in Seq(Entry), g \in [Clients -> Nat], E \in SUBSET Clients, w \in Nat :
        f = fallback[i] /\ g = guarded[i] /\ E = evicted[i] /\ w = window
  BY <1>0 DEF LimitsShape
<1>3. EntriesCount(f, g, E, w)
  BY <1>2 DEF LimitsInv, MapsCount
<1>4. Known(i, c) = {n \in DOMAIN f : f[n].caller = c /\ f[n].window = w}
  BY <1>2 DEF Known
<1>5. CASE Known(i, c) # {}
  <2>1. PICK n \in Known(i, c) :
          /\ fallback' = [fallback EXCEPT ![i][n].count = Bump(@)]
          /\ LetThrough(i, c, fallback'[i][n].count)
          /\ UNCHANGED evicted
    BY <1>5 DEF CountLocal
  <2>2. n \in DOMAIN f /\ f[n].window = w /\ f[n].caller = c /\ f[n] \in Entry
    BY <1>2, <1>4
  <2>3. PICK kk \in Nat : kk = Bump(f[n].count)
    BY <2>2 DEF Bump, Entry
  <2>4. PICK e \in Entry : e = [f[n] EXCEPT !.count = kk]
    BY <2>2, <2>3 DEF Entry
  <2>5. e.count = kk
    BY <2>2, <2>4 DEF Entry
  <2>a. PICK h : h = [f EXCEPT ![n] = e]
    OBVIOUS
  <2>b. PICK q : q = [g EXCEPT ![c] = IF Passes(kk) THEN Bump(g[c]) ELSE g[c]]
    OBVIOUS
  <2>6. h \in Seq(Entry) /\ q \in [Clients -> Nat] /\ EntriesCount(h, q, E, w)
    <3>1. CountsAgain(f, g, n, c, kk, e, h, q)
      BY <2>3, <2>4, <2>a, <2>b DEF CountsAgain
    <3> QED
      BY <1>3, <2>2, <3>1, CountedAgain
  <2>7. fallback' = [fallback EXCEPT ![i] = h]
    <3>1. fallback' = [fallback EXCEPT ![i] = [f EXCEPT ![n] = [f[n] EXCEPT !.count = kk]]]
      BY <1>2, <2>1, <2>3
    <3> QED
      BY <2>4, <2>a, <3>1
  <2>8. fallback'[i] = h /\ h[n] = e
    BY <1>0, <2>2, <2>7, <2>a DEF LimitsShape
  <2>9. guarded' = [guarded EXCEPT ![i] = q]
    <3>1. fallback'[i][n].count = kk
      BY <2>5, <2>8
    <3>2. guarded' = [guarded EXCEPT ![i][c] = IF Passes(kk) THEN Bump(@) ELSE @]
      BY <2>1, <3>1 DEF LetThrough
    <3> QED
      BY <1>2, <2>b, <3>2
  <2>10. evicted' = [evicted EXCEPT ![i] = E]
    BY <1>0, <1>2, <2>1 DEF LimitsShape
  <2> QED
    BY <1>0, <1>1, <1>2, <2>6, <2>7, <2>9, <2>10, MapKeeps
<1>6. CASE Known(i, c) = {}
  <2>1. PICK n \in MayExpire(f) :
          /\ fallback' = [fallback EXCEPT ![i] =
               Append(Trimmed(f, n), [caller |-> c, window |-> w, count |-> 1])]
          /\ LetThrough(i, c, 1)
          /\ evicted' = [evicted EXCEPT ![i] = @ \cup {e.caller : e \in
               {e \in Range(f) : e.window = w} \ Range(Trimmed(f, n))}]
    BY <1>2, <1>6 DEF CountLocal
  <2>2. n \in 0..Len(f)
    BY DEF MayExpire
  <2>3. PICK t \in Seq(Entry) : t = Trimmed(f, n)
    BY <2>2, TrimmedIsASuffix
  <2> DEFINE gone == {e \in Range(f) : e.window = w} \ Range(t)
             F == {e.caller : e \in gone}
  <2>a. PICK a : a = [caller |-> c, window |-> w, count |-> 1]
    OBVIOUS
  <2>b. PICK h : h = Append(t, a)
    OBVIOUS
  <2>c. PICK q : q = [g EXCEPT ![c] = Bump(g[c])]
    OBVIOUS
  <2>4. F \in SUBSET Clients
    <3>1. \A e \in Range(f) : e \in Entry
      BY DEF Range
    <3> QED
      BY <3>1 DEF Entry
  <2>5. ASSUME NEW d \in Clients \ F, NEW m \in DOMAIN f, f[m].window = w, f[m].caller = d
        PROVE  \E j \in DOMAIN t : t[j] = f[m]
    <3>1. f[m] \in Range(f) /\ f[m] \notin gone
      BY <2>5 DEF Range
    <3>2. f[m] \in Range(t)
      BY <2>5, <3>1
    <3> QED
      BY <3>2 DEF Range
  <2>6. a \in Entry
    BY <2>a DEF Entry
  <2>7. /\ fallback' = [fallback EXCEPT ![i] = h]
        /\ evicted' = [evicted EXCEPT ![i] = E \cup F]
    BY <1>2, <2>1, <2>3, <2>a, <2>b
  <2>8. guarded' = [guarded EXCEPT ![i] = q]
    <3>1. Passes(1)
      BY DEF Passes
    <3>2. guarded' = [guarded EXCEPT ![i][c] = Bump(@)]
      BY <2>1, <3>1 DEF LetThrough
    <3> QED
      BY <1>2, <2>c, <3>2
  <2> HIDE DEF gone, F
  <2>9. \A m \in DOMAIN f : ~(f[m].window = w /\ f[m].caller = c)
    BY <1>4, <1>6
  <2>10. h \in Seq(Entry) /\ q \in [Clients -> Nat] /\ EntriesCount(h, q, E \cup F, w)
    <3>1. CountsFirst(f, g, n, c, w, F, t, a, h, q)
      BY <2>3, <2>5, <2>9, <2>a, <2>b, <2>c DEF CountsFirst
    <3> QED
      BY <1>3, <2>2, <2>6, <3>1, CountedFirst, ZenonT(60)
  <2>11. E \cup F \in SUBSET Clients
    BY <2>4
  <2> QED
    BY <1>0, <1>1, <1>2, <2>7, <2>8, <2>10, <2>11, MapKeeps
<1> QED
  BY <1>5, <1>6

LEMMA WindowsKeep ==
  ASSUME LimitsInv, NextWindow \/ \E i \in Instances : RestartInstance(i)
  PROVE  LimitsInv'
<1>0. LimitsShape /\ RedisCounts /\ MapsCount
  BY DEF LimitsInv
<1>1. CASE NextWindow
  <2>1. /\ window' = window + 1 /\ fallback' = fallback
        /\ counters' = [c \in Clients |-> 0] /\ evicted' = [i \in Instances |-> {}]
        /\ guarded' = [s \in Instances \cup {"redis"} |-> [c \in Clients |-> 0]]
    BY <1>0, <1>1 DEF NextWindow, LimitsShape
  <2>2. LimitsShape' /\ RedisCounts'
    BY <1>0, <2>1 DEF LimitsShape, RedisCounts
  <2>3. ASSUME NEW i \in Instances
        PROVE  /\ \A n \in DOMAIN fallback[i] :
                    fallback[i][n].window <= window' /\ fallback[i][n].window # window'
               /\ \A c \in Clients : guarded'[i][c] = 0
    <3>1. PICK f \in Seq(Entry) : f = fallback[i]
      BY <1>0 DEF LimitsShape
    <3>a. window \in Nat /\ \A n \in DOMAIN f : f[n] \in Entry
      BY <1>0, <3>1 DEF LimitsShape
    <3>2. window \in Nat /\ \A n \in DOMAIN f : f[n].window \in Nat
      BY <3>a DEF Entry
    <3>3. \A n \in DOMAIN f : f[n].window <= window
      BY <1>0, <3>1 DEF MapsCount, EntriesCount
    <3> QED
      BY <2>1, <3>1, <3>2, <3>3
  <2>4. MapsCount'
    BY <2>1, <2>3 DEF MapsCount, EntriesCount
  <2> QED
    BY <2>2, <2>4 DEF LimitsInv
<1>2. ASSUME NEW i \in Instances, RestartInstance(i) PROVE LimitsInv'
  <2>1. LimitsShape' /\ RedisCounts'
    BY <1>0, <1>2 DEF LimitsShape, RedisCounts, RestartInstance
  <2>2. /\ DOMAIN fallback'[i] = {} /\ evicted'[i] = Clients /\ guarded' = guarded
        /\ window' = window
        /\ \A j \in Instances : j # i => fallback'[j] = fallback[j] /\ evicted'[j] = evicted[j]
    BY <1>0, <1>2 DEF LimitsShape, RestartInstance
  <2>3. MapsCount'
    BY <1>0, <2>2 DEF MapsCount, EntriesCount
  <2> QED
    BY <2>1, <2>3 DEF LimitsInv
<1> QED
  BY <1>1, <1>2

LEMMA LimitsStepKeeps == LimitsInv /\ [LimitsNext]_limitVars => LimitsInv'
<1> SUFFICES ASSUME LimitsInv, [LimitsNext]_limitVars PROVE LimitsInv'
  OBVIOUS
<1>1. CASE UNCHANGED limitVars
  BY <1>1 DEF limitVars, LimitsInv, LimitsShape, RedisCounts, MapsCount, EntriesCount
<1> QED
  BY <1>1, RedisKeeps, LocalKeeps, WindowsKeep DEF LimitsNext

\* For any number of callers, processes and windows, and whatever room the maps
\* have: no store lets more than LimitMax requests of a caller and a window
\* through, but for a process that forgot the caller (pre-auth-rate-limit.guard.ts,
\* rate-limit.guard.ts).
THEOREM LimitsAreKept == LimitsSpec => []LimitHolds
<1>1. LimitsInv => LimitHolds
  BY DEF LimitsInv, RedisCounts, MapsCount, EntriesCount, LimitHolds
<1> QED
  BY <1>1, LimitsInitially, LimitsStepKeeps, PTL DEF LimitsSpec

HIDE LimitsAssumption

----------------------------------------------------------------------------
(* The session of a tab *)
(* Whoever has logged in is on the way to the application, or there: each  *)
(* stop on that way waits for a refresh that carries the cookie of the     *)
(* browser, for the branding, or for a navigation. A refresh from before   *)
(* the login may still fail, but then nothing else is under way, and the   *)
(* login page it leads back to starts one with the new cookie.             *)

Cookie == [family : Nat, newest : BOOLEAN]
TabRow == [page : {"blank", "login", "app"}, going : {"none", "login", "app"},
           token : {"none", "good", "expired"}, shell : {"off", "waiting", "loading", "ready", "failed"},
           verified : BOOLEAN, checking : BOOLEAN]
FetchRow == [pc : {"idle", "sent", "waiting", "again"}, good : BOOLEAN]

WebShape ==
  /\ cookie \in Cookie /\ logins \in Nat
  /\ rotation \in [pc : {"none", "sent", "granted", "failed"}, cookie : Cookie]
  /\ leaving \in [pc : {"idle", "sent"}, cookie : Cookie]
  /\ tab \in TabRow /\ fetch \in [Fetches -> FetchRow]
  /\ waiters \subseteq Parts /\ ("guard" \in waiters => "shell" \in waiters)
  /\ form \in {"idle", "sent", "done"} /\ signed \in BOOLEAN

\* The refresh was sent before the login.
Earlier(t, w, f) ==
  /\ \A r \in Fetches : f[r].pc = "idle"
  /\ \/ t.page = "login" /\ t.going = "app" /\ w \subseteq {"login"}
     \/ t.page = "app" /\ t.going = "none" /\ t.shell = "waiting" /\ "shell" \in w

\* What is still to come before the application is in view.
OnTheWay(t, w, f, r) ==
  \/ t.page = "login" /\ t.going = "app"
  \/ t.page = "login" /\ t.going = "none" /\ "login" \in w /\ r.pc \in {"sent", "granted"}
  \/ t.page = "app" /\ t.going = "login" /\ "login" \notin w
  \/ /\ t.page = "app"
     /\ \/ t.shell = "waiting" /\ "shell" \in w /\ r.pc # "none"
        \/ t.shell = "loading" /\ f["branding"].pc # "idle"
        \/ t.shell = "ready"
     /\ t.checking => "guard" \in w /\ r.pc # "none"

ComingIn(t, w, f, r, c) ==
  /\ \A q \in Fetches : f[q].pc = "again" => f[q].good
  /\ r.pc = "failed" \/ (r.pc = "sent" /\ r.cookie # c) => Earlier(t, w, f)
  /\ OnTheWay(t, w, f, r)

WebInv ==
  /\ WebShape
  /\ signed => leaving.pc = "idle" /\ ComingIn(tab, waiters, fetch, rotation, cookie)

\* The tab after a step, field by field.
LEMMA ArrivedTab ==
  ASSUME tab \in TabRow, NEW a \in {"login", "app"}, Arrive(a)
  PROVE  /\ tab' \in TabRow
         /\ tab.page = a => tab'.page = a /\ tab'.going = "none" /\ tab'.shell = tab.shell
                            /\ tab'.checking = tab.checking
         /\ tab.page # a /\ a = "login" => tab'.page = "login" /\ tab'.going = "none"
         /\ tab.page # a /\ a = "app" => /\ tab'.page = "app" /\ tab'.going = "none"
                                         /\ tab'.shell = "waiting" /\ tab'.checking = ~Trusts
<1>1. CASE tab.page = a
  <2>1. tab' = [tab EXCEPT !.going = "none"]
    BY <1>1 DEF Arrive
  <2> QED
    BY <1>1, <2>1 DEF TabRow
<1>2. CASE tab.page # a /\ a = "login"
  <2>1. tab' = [tab EXCEPT !.page = "login", !.going = "none", !.shell = "off", !.checking = FALSE]
    BY <1>2 DEF Arrive
  <2> QED
    BY <1>2, <2>1 DEF TabRow
<1>3. CASE tab.page # a /\ a = "app"
  <2>1. tab' = [tab EXCEPT !.page = "app", !.going = "none", !.shell = "waiting",
                           !.verified = Trusts, !.checking = ~Trusts]
    BY <1>3 DEF Arrive
  <2>2. Trusts \in BOOLEAN
    BY DEF Trusts, TabRow
  <2> QED
    BY <1>3, <2>1, <2>2 DEF TabRow
<1> QED
  BY <1>1, <1>2, <1>3

LEMMA JoinedRotation ==
  ASSUME WebShape
  PROVE  /\ Joined \in [pc : {"none", "sent", "granted", "failed"}, cookie : Cookie]
         /\ Joined.pc # "none"
         /\ rotation.pc # "none" => Joined = rotation
         /\ rotation.pc = "none" => Joined.pc = "sent" /\ Joined.cookie = cookie
<1>1. CASE rotation.pc = "none"
  BY <1>1 DEF Joined, WebShape
<1>2. CASE rotation.pc # "none"
  BY <1>2 DEF Joined, WebShape
<1> QED
  BY <1>1, <1>2

LEMMA WebInitially == WebInit => WebInv
<1> SUFFICES ASSUME WebInit PROVE WebInv
  OBVIOUS
<1>1. cookie \in Cookie /\ logins \in Nat /\ NoCookie \in Cookie
  <2>1. NoCookie \in Cookie /\ Newest(1) \in Cookie
    BY DEF NoCookie, Newest, Cookie
  <2>2. (cookie = NoCookie /\ logins = 0) \/ (cookie = Newest(1) /\ logins = 1)
    BY DEF WebInit
  <2>3. CASE cookie = NoCookie /\ logins = 0
    BY <2>1, <2>3
  <2>4. CASE cookie = Newest(1) /\ logins = 1
    BY <2>1, <2>4
  <2> QED
    BY <2>1, <2>2, <2>3, <2>4
<1>2. /\ rotation \in [pc : {"none", "sent", "granted", "failed"}, cookie : Cookie]
      /\ leaving \in [pc : {"idle", "sent"}, cookie : Cookie]
  BY <1>1 DEF WebInit, NoRotation, NoLeave
<1>3. tab \in TabRow
  BY DEF WebInit, FreshTab, TabRow
<1>4. fetch \in [Fetches -> FetchRow]
  BY DEF WebInit, NoRequest, FetchRow
<1> QED
  BY <1>1, <1>2, <1>3, <1>4 DEF WebInit, WebInv, WebShape

----------------------------------------------------------------------------
(* Navigation *)

LEMMA ArriveKeeps ==
  ASSUME WebInv, NEW a \in {"login", "app"}, Arrive(a)
  PROVE  WebInv'
<1>0. WebShape /\ tab \in TabRow /\ tab.going = a
      /\ UNCHANGED <<cookie, logins, fetch, leaving, signed>>
  BY DEF WebInv, WebShape, Arrive
<1>1. CASE tab.page = a
  <2>1. UNCHANGED <<rotation, waiters, form>>
    BY <1>1 DEF Arrive
  <2>2. WebShape'
    BY <1>0, <2>1, ArrivedTab DEF WebShape
  <2>3. ASSUME signed PROVE ComingIn(tab, waiters, fetch, rotation, cookie)'
    <3>1. ComingIn(tab, waiters, fetch, rotation, cookie)
      BY <2>3 DEF WebInv
    <3>2. tab.page = "app" /\ tab.going = "app"
      BY <1>0, <1>1, <3>1 DEF ComingIn, OnTheWay
    <3>3. tab'.page = "app" /\ tab'.shell = tab.shell /\ tab'.checking = tab.checking
      BY <1>0, <1>1, <3>2, ArrivedTab
    <3> QED
      BY <1>0, <2>1, <3>1, <3>2, <3>3 DEF ComingIn, OnTheWay, Earlier
  <2> QED
    BY <1>0, <2>2, <2>3 DEF WebInv
<1>2. CASE tab.page # a /\ a = "login"
  <2>1. /\ waiters' = (waiters \ {"guard"}) \cup {"login"} /\ rotation' = Joined
        /\ form' \in {form, "idle"}
    BY <1>2 DEF Arrive
  <2>2. WebShape'
    BY <1>0, <2>1, ArrivedTab, JoinedRotation DEF WebShape, Parts
  <2>3. ASSUME signed PROVE ComingIn(tab, waiters, fetch, rotation, cookie)'
    <3>1. ComingIn(tab, waiters, fetch, rotation, cookie)
      BY <2>3 DEF WebInv
    <3>2. ~(rotation.pc = "failed") /\ (rotation.pc = "sent" => rotation.cookie = cookie)
      BY <1>0, <1>2, <3>1 DEF ComingIn, Earlier
    <3>3. /\ rotation'.pc \in {"sent", "granted"}
          /\ rotation'.pc = "sent" => rotation'.cookie = cookie
      BY <1>0, <2>1, <3>2, JoinedRotation DEF WebShape
    <3>4. tab'.page = "login" /\ tab'.going = "none" /\ "login" \in waiters'
      BY <1>0, <1>2, <2>1, ArrivedTab
    <3> QED
      BY <1>0, <3>1, <3>3, <3>4 DEF ComingIn, OnTheWay
  <2> QED
    BY <1>0, <2>2, <2>3 DEF WebInv
<1>3. CASE tab.page # a /\ a = "app"
  <2>1. /\ waiters' = waiters \cup {"shell"} \cup (IF Trusts THEN {} ELSE {"guard"})
        /\ rotation' = Joined /\ form' = form
    BY <1>3 DEF Arrive
  <2>2. WebShape'
    BY <1>0, <2>1, ArrivedTab, JoinedRotation DEF WebShape, Parts
  <2>3. ASSUME signed PROVE ComingIn(tab, waiters, fetch, rotation, cookie)'
    <3>1. ComingIn(tab, waiters, fetch, rotation, cookie)
      BY <2>3 DEF WebInv
    <3>2. /\ tab'.page = "app" /\ tab'.going = "none" /\ tab'.shell = "waiting"
          /\ tab'.checking = ~Trusts /\ "shell" \in waiters' /\ rotation'.pc # "none"
      BY <1>0, <1>3, <2>1, ArrivedTab, JoinedRotation
    <3>3. tab'.checking => "guard" \in waiters'
      BY <2>1, <3>2
    <3>4. rotation'.pc = "failed" \/ (rotation'.pc = "sent" /\ rotation'.cookie # cookie) =>
            rotation' = rotation
      BY <1>0, <2>1, JoinedRotation
    <3>5. rotation'.pc = "failed" \/ (rotation'.pc = "sent" /\ rotation'.cookie # cookie) =>
            \A r \in Fetches : fetch[r].pc = "idle"
      BY <3>1, <3>4 DEF ComingIn, Earlier
    <3> QED
      BY <1>0, <3>1, <3>2, <3>3, <3>5 DEF ComingIn, OnTheWay, Earlier
  <2> QED
    BY <1>0, <2>2, <2>3 DEF WebInv
<1> QED
  BY <1>1, <1>2, <1>3

----------------------------------------------------------------------------
(* The refresh *)

LEMMA RotateKeeps ==
  ASSUME WebInv, Rotate
  PROVE  WebInv'
<1>0. WebShape /\ rotation.pc = "sent" /\ rotation.cookie \in Cookie
      /\ UNCHANGED <<logins, tab, waiters, fetch, form>>
  BY DEF WebInv, WebShape, Rotate
<1>1. \A c \in Cookie, f \in Nat : Aged(c, f) \in Cookie
  BY DEF Aged, Cookie
<1>2. CASE rotation.cookie.newest /\ rotation.cookie.family \in alive
  <2>1. /\ rotation' = [pc |-> "granted", cookie |-> rotation.cookie]
        /\ cookie' = Aged(cookie, rotation.cookie.family)
        /\ leaving' = [leaving EXCEPT !.cookie = Aged(@, rotation.cookie.family)]
        /\ signed' = signed
    BY <1>2 DEF Rotate
  <2>2. rotation.cookie.family \in Nat /\ leaving.cookie \in Cookie /\ cookie \in Cookie
    BY <1>0 DEF WebShape, Cookie
  <2>3. /\ cookie' \in Cookie /\ leaving'.pc = leaving.pc
        /\ leaving' \in [pc : {"idle", "sent"}, cookie : Cookie]
    BY <1>0, <1>1, <2>1, <2>2 DEF WebShape
  <2>4. WebShape' /\ rotation'.pc = "granted"
    BY <1>0, <2>1, <2>3 DEF WebShape
  <2> QED
    BY <1>0, <2>1, <2>3, <2>4 DEF WebInv, ComingIn, OnTheWay
<1>3. CASE ~(rotation.cookie.newest /\ rotation.cookie.family \in alive)
  <2>1. /\ rotation' = [pc |-> "failed", cookie |-> NoCookie]
        /\ signed' = (signed /\ cookie.family # rotation.cookie.family)
        /\ UNCHANGED <<cookie, leaving>>
    BY <1>3 DEF Rotate
  <2>2. WebShape'
    BY <1>0, <2>1 DEF WebShape, NoCookie, Cookie
  <2>3. ASSUME signed' PROVE ComingIn(tab, waiters, fetch, rotation, cookie)'
    <3>1. ComingIn(tab, waiters, fetch, rotation, cookie) /\ rotation.cookie # cookie
      BY <2>1, <2>3 DEF WebInv
    <3>2. Earlier(tab, waiters, fetch) /\ rotation'.pc = "failed"
      BY <1>0, <2>1, <3>1 DEF ComingIn
    <3> QED
      BY <1>0, <2>1, <3>1, <3>2 DEF ComingIn, OnTheWay, Earlier
  <2> QED
    BY <2>1, <2>2, <2>3 DEF WebInv
<1> QED
  BY <1>2, <1>3

LEMMA GrantedKeeps ==
  ASSUME WebInv, RefreshGranted
  PROVE  WebInv'
<1>0. /\ WebShape /\ tab \in TabRow /\ fetch \in [Fetches -> FetchRow]
      /\ rotation.pc = "granted" /\ cookie' = rotation.cookie
      /\ rotation' = NoRotation /\ waiters' = {} /\ UNCHANGED <<logins, form, leaving, signed>>
  BY DEF WebInv, WebShape, RefreshGranted
<1>1. PICK u \in TabRow : u = [tab EXCEPT
         !.token = "good",
         !.verified = @ \/ "guard" \in waiters,
         !.checking = @ /\ "guard" \notin waiters,
         !.shell = IF "shell" \in waiters /\ @ = "waiting" THEN "loading" ELSE @,
         !.going = IF "login" \in waiters THEN "app" ELSE @]
  <2>1. /\ (tab.verified \/ "guard" \in waiters) \in BOOLEAN
        /\ (tab.checking /\ "guard" \notin waiters) \in BOOLEAN
    OBVIOUS
  <2>2. PICK v \in BOOLEAN, k \in BOOLEAN :
          /\ v = (tab.verified \/ "guard" \in waiters)
          /\ k = (tab.checking /\ "guard" \notin waiters)
    BY <2>1
  <2>3. [tab EXCEPT !.token = "good", !.verified = v, !.checking = k,
           !.shell = IF "shell" \in waiters /\ @ = "waiting" THEN "loading" ELSE @,
           !.going = IF "login" \in waiters THEN "app" ELSE @] \in TabRow
    BY <1>0 DEF TabRow
  <2> QED
    BY <2>2, <2>3
<1>2. /\ tab' = u /\ u.page = tab.page
      /\ u.checking = (tab.checking /\ "guard" \notin waiters)
      /\ u.shell = IF "shell" \in waiters /\ tab.shell = "waiting" THEN "loading" ELSE tab.shell
      /\ u.going = IF "login" \in waiters THEN "app" ELSE tab.going
  BY <1>0, <1>1 DEF RefreshGranted, TabRow
<1>3. fetch' = [r \in Fetches |->
         IF r \in Waiting THEN [pc |-> "again", good |-> TRUE]
         ELSE IF r = "branding" /\ "shell" \in waiters THEN [pc |-> "sent", good |-> TRUE]
         ELSE fetch[r]]
  BY DEF RefreshGranted
<1>4. /\ fetch' \in [Fetches -> FetchRow]
      /\ (\A q \in Fetches : fetch[q].pc = "again" => fetch[q].good) =>
           \A q \in Fetches : fetch'[q].pc = "again" => fetch'[q].good
      /\ "shell" \in waiters => fetch'["branding"].pc # "idle"
      /\ fetch["branding"].pc # "idle" => fetch'["branding"].pc # "idle"
  BY <1>0, <1>3 DEF FetchRow, Fetches
<1>5. rotation'.pc = "none" /\ rotation' \in [pc : {"none", "sent", "granted", "failed"}, cookie : Cookie]
  BY <1>0 DEF NoRotation, NoCookie, Cookie
<1>6. WebShape'
  BY <1>0, <1>2, <1>4, <1>5 DEF WebShape
<1>7. ASSUME signed PROVE ComingIn(tab, waiters, fetch, rotation, cookie)'
  <2>1. ComingIn(tab, waiters, fetch, rotation, cookie)
    BY <1>7 DEF WebInv
  <2>2. /\ tab'.page = tab.page /\ waiters' = {}
        /\ "login" \notin waiters => tab'.going = tab.going
    BY <1>0, <1>2
  <2>3. OnTheWay(tab, waiters, fetch, rotation)
    BY <2>1 DEF ComingIn
  <2>4. OnTheWay(tab, waiters, fetch, rotation)'
    <3>1. CASE tab.page = "login"
      <4>1. tab'.going = "app"
        BY <1>2, <2>3, <3>1 DEF OnTheWay
      <4> QED
        BY <2>2, <3>1, <4>1 DEF OnTheWay
    <3>2. CASE tab.page = "app" /\ tab.going = "login" /\ "login" \notin waiters
      BY <1>0, <2>2, <3>2 DEF OnTheWay
    <3>3. CASE /\ tab.page = "app"
               /\ \/ tab.shell = "waiting" /\ "shell" \in waiters /\ rotation.pc # "none"
                  \/ tab.shell = "loading" /\ fetch["branding"].pc # "idle"
                  \/ tab.shell = "ready"
               /\ tab.checking => "guard" \in waiters /\ rotation.pc # "none"
      <4>1. ~tab'.checking
        BY <1>2, <3>3
      <4>2. tab'.shell = "ready" \/ (tab'.shell = "loading" /\ fetch'["branding"].pc # "idle")
        BY <1>2, <1>4, <3>3
      <4> QED
        BY <2>2, <3>3, <4>1, <4>2 DEF OnTheWay
    <3> QED
      BY <2>3, <3>1, <3>2, <3>3 DEF OnTheWay
  <2> QED
    BY <1>4, <1>5, <2>1, <2>4 DEF ComingIn
<1> QED
  BY <1>0, <1>6, <1>7 DEF WebInv

LEMMA FailedKeeps ==
  ASSUME WebInv, RefreshFailed
  PROVE  WebInv'
<1>0. /\ WebShape /\ tab \in TabRow /\ fetch \in [Fetches -> FetchRow]
      /\ rotation.pc = "failed"
      /\ rotation' = NoRotation /\ waiters' = {}
      /\ UNCHANGED <<cookie, logins, form, leaving, signed>>
  BY DEF WebInv, WebShape, RefreshFailed
<1>1. PICK u \in TabRow : u = [tab EXCEPT
         !.token = "none",
         !.verified = @ /\ ~("guard" \in waiters \/ Waiting # {}),
         !.shell = IF \/ @ = "waiting" /\ "shell" \in waiters
                      \/ @ = "loading" /\ "branding" \in Waiting
                   THEN "failed" ELSE @,
         !.going = IF Leaves(waiters) \/ Waiting # {} THEN "login" ELSE @]
  BY <1>0 DEF TabRow
<1>2. /\ tab' = u /\ u.page = tab.page
      /\ u.going = IF Leaves(waiters) \/ Waiting # {} THEN "login" ELSE tab.going
  BY <1>0, <1>1 DEF RefreshFailed, TabRow
<1>3. fetch' = [r \in Fetches |-> IF r \in Waiting THEN NoRequest ELSE fetch[r]]
  BY DEF RefreshFailed
<1>4. fetch' \in [Fetches -> FetchRow]
  BY <1>0, <1>3 DEF FetchRow, NoRequest
<1>5. rotation'.pc = "none" /\ rotation' \in [pc : {"none", "sent", "granted", "failed"}, cookie : Cookie]
  BY <1>0 DEF NoRotation, NoCookie, Cookie
<1>6. WebShape'
  BY <1>0, <1>2, <1>4, <1>5 DEF WebShape
<1>7. ASSUME signed PROVE ComingIn(tab, waiters, fetch, rotation, cookie)'
  <2>1. Earlier(tab, waiters, fetch)
    BY <1>0, <1>7 DEF WebInv, ComingIn
  <2>2. Waiting = {} /\ fetch' = fetch
    BY <1>0, <1>3, <2>1 DEF Waiting, Earlier
  <2>3. \A q \in Fetches : fetch'[q].pc # "again"
    BY <2>1, <2>2 DEF Earlier
  <2>4. CASE tab.page = "login" /\ tab.going = "app" /\ waiters \subseteq {"login"}
    BY <1>2, <1>5, <2>2, <2>3, <2>4 DEF ComingIn, OnTheWay, Leaves
  <2>5. CASE tab.page = "app" /\ "shell" \in waiters
    <3>1. tab'.page = "app" /\ tab'.going = "login" /\ waiters' = {}
      BY <1>0, <1>2, <2>5 DEF Leaves
    <3> QED
      BY <1>5, <2>3, <3>1 DEF ComingIn, OnTheWay
  <2> QED
    BY <2>1, <2>4, <2>5 DEF Earlier
<1> QED
  BY <1>0, <1>6, <1>7 DEF WebInv

----------------------------------------------------------------------------
(* Requests *)

LEMMA EndedTab ==
  ASSUME tab \in TabRow, NEW r \in Fetches, NEW ok \in BOOLEAN
  PROVE  /\ Ended(r, ok) \in TabRow
         /\ Ended(r, ok).page = tab.page /\ Ended(r, ok).checking = tab.checking
         /\ ok => Ended(r, ok).going = tab.going
         /\ ok => Ended(r, ok).shell = IF r = "branding" /\ tab.shell = "loading" THEN "ready"
                                       ELSE tab.shell
BY DEF Ended, TabRow

LEMMA RequestsKeep ==
  ASSUME WebInv, NEW r \in Fetches, Answered(r) \/ Unauthorized(r) \/ LoseRequest(r)
  PROVE  WebInv'
<1>0. /\ WebShape /\ tab \in TabRow /\ fetch \in [Fetches -> FetchRow]
      /\ UNCHANGED <<cookie, logins, waiters, form, leaving>>
  BY DEF WebInv, WebShape, Answered, Unauthorized, LoseRequest
<1>1. NoRequest \in FetchRow /\ NoRequest.pc = "idle"
  BY DEF NoRequest, FetchRow
<1>2. CASE Answered(r)
  <2>1. /\ fetch' = [fetch EXCEPT ![r] = NoRequest] /\ tab' = Ended(r, TRUE)
        /\ UNCHANGED <<rotation, signed>> /\ fetch[r].pc # "idle"
    BY <1>2 DEF Answered
  <2>2. /\ fetch' \in [Fetches -> FetchRow]
        /\ \A q \in Fetches : fetch'[q] = IF q = r THEN NoRequest ELSE fetch[q]
    BY <1>0, <1>1, <2>1
  <2>3. /\ tab' \in TabRow /\ tab'.page = tab.page /\ tab'.checking = tab.checking
        /\ tab'.going = tab.going
        /\ tab'.shell = IF r = "branding" /\ tab.shell = "loading" THEN "ready" ELSE tab.shell
    BY <1>0, <2>1, EndedTab
  <2>4. WebShape'
    BY <1>0, <2>1, <2>2, <2>3 DEF WebShape
  <2>5. ASSUME signed PROVE ComingIn(tab, waiters, fetch, rotation, cookie)'
    <3>1. ComingIn(tab, waiters, fetch, rotation, cookie)
      BY <2>5 DEF WebInv
    <3>2. OnTheWay(tab, waiters, fetch, rotation)'
      BY <1>0, <2>1, <2>2, <2>3, <3>1 DEF ComingIn, OnTheWay, Fetches
    <3>3. ~Earlier(tab, waiters, fetch)
      BY <2>1 DEF Earlier
    <3> QED
      BY <1>0, <1>1, <2>1, <2>2, <3>1, <3>2, <3>3 DEF ComingIn
  <2> QED
    BY <1>0, <2>1, <2>4, <2>5 DEF WebInv
<1>3. CASE Unauthorized(r) /\ fetch[r].pc = "sent"
  <2>1. /\ fetch' = [fetch EXCEPT ![r].pc = "waiting"] /\ rotation' = Joined
        /\ UNCHANGED <<tab, signed>>
    BY <1>3 DEF Unauthorized
  <2>2. PICK x \in FetchRow : x = [fetch[r] EXCEPT !.pc = "waiting"]
    BY <1>0 DEF FetchRow
  <2>3. x.pc = "waiting" /\ fetch' = [fetch EXCEPT ![r] = x]
    BY <1>0, <2>1, <2>2 DEF FetchRow
  <2>4. fetch' \in [Fetches -> FetchRow] /\ \A q \in Fetches : fetch'[q] = IF q = r THEN x ELSE fetch[q]
    BY <1>0, <2>3
  <2>5. WebShape'
    BY <1>0, <2>1, <2>4, JoinedRotation DEF WebShape
  <2>6. ASSUME signed PROVE ComingIn(tab, waiters, fetch, rotation, cookie)'
    <3>1. ComingIn(tab, waiters, fetch, rotation, cookie) /\ ~Earlier(tab, waiters, fetch)
      BY <1>3, <2>6 DEF WebInv, Earlier
    <3>2. /\ rotation'.pc # "none" /\ rotation'.pc # "failed"
          /\ rotation'.pc = "sent" => rotation'.cookie = cookie
          /\ rotation.pc \in {"sent", "granted"} => rotation' = rotation
      BY <1>0, <2>1, <3>1, JoinedRotation DEF ComingIn
    <3>3. OnTheWay(tab, waiters, fetch, rotation)'
      BY <1>0, <2>1, <2>3, <2>4, <3>1, <3>2 DEF ComingIn, OnTheWay, Fetches
    <3> QED
      BY <1>0, <2>3, <2>4, <3>1, <3>2, <3>3 DEF ComingIn
  <2> QED
    BY <1>0, <2>1, <2>5, <2>6 DEF WebInv
<1>4. CASE Unauthorized(r) /\ fetch[r].pc = "again"
  <2>1. /\ fetch' = [fetch EXCEPT ![r] = NoRequest] /\ ~fetch[r].good
        /\ tab' = [Ended(r, FALSE) EXCEPT !.token = "none", !.verified = FALSE, !.going = "login"]
        /\ UNCHANGED <<rotation, signed>>
    BY <1>4 DEF Unauthorized
  <2>2. ~signed
    BY <1>4, <2>1 DEF WebInv, ComingIn
  <2>3. PICK e \in TabRow : e = Ended(r, FALSE)
    BY <1>0, EndedTab
  <2>4. tab' \in TabRow
    BY <2>1, <2>3 DEF TabRow
  <2>5. fetch' \in [Fetches -> FetchRow]
    BY <1>0, <1>1, <2>1
  <2> QED
    BY <1>0, <2>1, <2>2, <2>4, <2>5 DEF WebInv, WebShape
<1>5. CASE LoseRequest(r)
  <2>1. /\ fetch' = [fetch EXCEPT ![r] = NoRequest] /\ tab' = Ended(r, FALSE)
        /\ rotation' = rotation /\ signed' = FALSE
    BY <1>5 DEF LoseRequest, Lose
  <2>2. fetch' \in [Fetches -> FetchRow] /\ tab' \in TabRow
    BY <1>0, <1>1, <2>1, EndedTab
  <2> QED
    BY <1>0, <2>1, <2>2 DEF WebInv, WebShape
<1>6. Unauthorized(r) => fetch[r].pc \in {"sent", "again"}
  BY DEF Unauthorized
<1> QED
  BY <1>2, <1>3, <1>4, <1>5, <1>6

LEMMA CallKeeps ==
  ASSUME WebInv, CallApi
  PROVE  WebInv'
<1>0. /\ WebShape /\ tab.page = "app" /\ tab.shell = "ready" /\ "screen" \in Fetches
      /\ fetch \in [Fetches -> FetchRow]
      /\ UNCHANGED <<cookie, logins, tab, rotation, waiters, form, leaving, signed>>
  BY DEF WebInv, WebShape, CallApi, Fetches
<1>1. PICK b \in BOOLEAN : b = (tab.token = "good")
  <2>1. (tab.token = "good") \in BOOLEAN
    OBVIOUS
  <2> QED
    BY <2>1
<1>2. PICK x \in FetchRow : x = [pc |-> "sent", good |-> b] /\ x.pc = "sent"
  <2>1. [pc |-> "sent", good |-> b] \in FetchRow
    BY DEF FetchRow
  <2> QED
    BY <2>1
<1>3. fetch' = [fetch EXCEPT !["screen"] = x]
  BY <1>1, <1>2 DEF CallApi
<1>4. /\ fetch' \in [Fetches -> FetchRow]
      /\ \A q \in Fetches : fetch'[q] = IF q = "screen" THEN x ELSE fetch[q]
  BY <1>0, <1>3
<1>5. WebShape'
  BY <1>0, <1>4 DEF WebShape
<1>6. ~Earlier(tab, waiters, fetch)
  BY <1>0 DEF Earlier
<1>7. ComingIn(tab, waiters, fetch, rotation, cookie) =>
        ComingIn(tab, waiters, fetch, rotation, cookie)'
  BY <1>0, <1>2, <1>4, <1>6 DEF ComingIn, OnTheWay
<1> QED
  BY <1>0, <1>5, <1>7 DEF WebInv

----------------------------------------------------------------------------
(* Logging in and out, and around the tab *)

LEMMA LoginKeeps ==
  ASSUME WebInv, LoginAnswered
  PROVE  WebInv'
<1>0. /\ WebShape /\ tab \in TabRow /\ logins' = logins + 1 /\ cookie' = Newest(logins + 1)
      /\ form' = "done" /\ signed' = (tab.page = "login" /\ ~LeftBehind)
      /\ UNCHANGED <<rotation, waiters, fetch, leaving>>
  BY DEF WebInv, WebShape, LoginAnswered
<1>1. PICK u \in TabRow : u = [tab EXCEPT !.token = "good", !.going = "app"]
  BY <1>0 DEF TabRow
<1>2. tab' = u /\ u.page = tab.page /\ u.going = "app"
  BY <1>0, <1>1 DEF LoginAnswered, TabRow
<1>3. WebShape'
  BY <1>0, <1>2 DEF WebShape, Newest, Cookie
<1>4. ASSUME signed' PROVE leaving.pc = "idle" /\ ComingIn(tab, waiters, fetch, rotation, cookie)'
  <2>1. /\ tab.page = "login" /\ leaving.pc = "idle" /\ "shell" \notin waiters
        /\ \A r \in Fetches : fetch[r].pc = "idle"
    BY <1>0, <1>4 DEF LeftBehind
  <2>2. waiters \subseteq {"login"}
    BY <1>0, <2>1 DEF WebShape, Parts
  <2> QED
    BY <1>0, <1>2, <2>1, <2>2 DEF ComingIn, OnTheWay, Earlier
<1> QED
  BY <1>0, <1>3, <1>4 DEF WebInv

LEMMA TokenKeeps ==
  ASSUME WebInv, TokenExpires
  PROVE  WebInv'
<1>0. /\ WebShape /\ tab \in TabRow /\ fetch \in [Fetches -> FetchRow]
      /\ fetch' = [r \in Fetches |-> [fetch[r] EXCEPT !.good = FALSE]]
      /\ signed' = (signed /\ \A r \in Fetches : fetch[r].pc # "again")
      /\ UNCHANGED <<cookie, logins, rotation, waiters, form, leaving>>
  BY DEF WebInv, WebShape, TokenExpires
<1>1. PICK u \in TabRow : u = [tab EXCEPT !.token = "expired"]
  BY <1>0 DEF TabRow
<1>2. /\ tab' = u /\ u.page = tab.page /\ u.going = tab.going /\ u.shell = tab.shell
      /\ u.checking = tab.checking
  BY <1>0, <1>1 DEF TokenExpires, TabRow
<1>3. fetch' \in [Fetches -> FetchRow] /\ \A r \in Fetches : fetch'[r].pc = fetch[r].pc
  BY <1>0 DEF FetchRow
<1>4. WebShape'
  BY <1>0, <1>2, <1>3 DEF WebShape
<1>5. ASSUME signed' PROVE leaving.pc = "idle" /\ ComingIn(tab, waiters, fetch, rotation, cookie)'
  BY <1>0, <1>2, <1>3, <1>5 DEF WebInv, ComingIn, OnTheWay, Earlier, Fetches
<1> QED
  BY <1>0, <1>4, <1>5 DEF WebInv

\* What ends the promise that the user sees the application.
LEMMA LossesKeep ==
  ASSUME WebInv,
         \/ LoseRefresh \/ LogOut \/ LoseLogOut \/ Reload
         \/ \E f \in Families : RevokeLogin(f)
  PROVE  WebInv'
<1>0. WebShape /\ NoCookie \in Cookie
  BY DEF WebInv, NoCookie, Cookie
<1>1. signed' = FALSE
  BY DEF LoseRefresh, LogOut, LoseLogOut, Reload, RevokeLogin, Lose
<1>2. CASE LoseRefresh
  BY <1>0, <1>1, <1>2 DEF LoseRefresh, WebInv, WebShape
<1>3. CASE LogOut
  BY <1>0, <1>1, <1>3 DEF LogOut, WebInv, WebShape
<1>4. CASE LoseLogOut
  <2>1. tab' \in TabRow
    BY <1>0, <1>4 DEF LoseLogOut, WebShape, TabRow
  <2>2. leaving' \in [pc : {"idle", "sent"}, cookie : Cookie]
    BY <1>0, <1>4 DEF LoseLogOut, NoLeave
  <2> QED
    BY <1>0, <1>1, <1>4, <2>1, <2>2 DEF LoseLogOut, WebInv, WebShape
<1>5. CASE Reload
  <2>1. tab' \in TabRow
    BY <1>0, <1>5 DEF Reload, FreshTab, WebShape, TabRow
  <2>2. /\ leaving' \in [pc : {"idle", "sent"}, cookie : Cookie]
        /\ rotation' \in [pc : {"none", "sent", "granted", "failed"}, cookie : Cookie]
        /\ fetch' \in [Fetches -> FetchRow]
    BY <1>0, <1>5 DEF Reload, NoLeave, NoRotation, NoRequest, FetchRow
  <2> QED
    BY <1>0, <1>1, <1>5, <2>1, <2>2 DEF Reload, WebInv, WebShape
<1>6. CASE \E f \in Families : RevokeLogin(f)
  BY <1>0, <1>1, <1>6 DEF RevokeLogin, WebInv, WebShape
<1> QED
  BY <1>2, <1>3, <1>4, <1>5, <1>6

LEMMA LogOutAnsweredKeeps ==
  ASSUME WebInv, LogOutAnswered
  PROVE  WebInv'
<1>0. /\ WebShape /\ tab \in TabRow /\ leaving.pc = "sent"
      /\ cookie' = NoCookie /\ leaving' = NoLeave
      /\ tab' = [tab EXCEPT !.token = "none", !.going = "login"]
      /\ UNCHANGED <<logins, rotation, waiters, fetch, form, signed>>
  BY DEF WebInv, WebShape, LogOutAnswered
<1>1. ~signed
  BY <1>0 DEF WebInv
<1>2. tab' \in TabRow
  BY <1>0 DEF TabRow
<1> QED
  BY <1>0, <1>1, <1>2 DEF WebInv, WebShape, NoLeave, NoCookie, Cookie

LEMMA FormKeeps ==
  ASSUME WebInv, SubmitLogin \/ LoginRefused \/ UNCHANGED webVars
  PROVE  WebInv'
<1>1. /\ UNCHANGED <<cookie, logins, rotation, leaving, tab, fetch, waiters, signed>>
      /\ form' \in {"sent", "idle", form}
  BY DEF SubmitLogin, LoginRefused, webVars
<1> QED
  BY <1>1 DEF WebInv, WebShape, ComingIn, OnTheWay, Earlier

LEMMA WebStepKeeps == WebInv /\ [WebNext]_webVars => WebInv'
<1> SUFFICES ASSUME WebInv, [WebNext]_webVars PROVE WebInv'
  OBVIOUS
<1> QED
  BY ArriveKeeps, RotateKeeps, GrantedKeeps, FailedKeeps, RequestsKeep, CallKeeps, LoginKeeps,
     TokenKeeps, LossesKeep, LogOutAnsweredKeeps, FormKeeps DEF WebNext

\* Whatever was under way when the user logged in, and however often the access
\* token expires afterwards: who is logged in and has nothing left to wait for
\* sees the application (login/page.tsx, app-shell.tsx, auth-runtime-guard.tsx).
THEOREM LoginsStick == WebSpec => []LoginSticks
<1>1. WebInv => LoginSticks
  <2> SUFFICES ASSUME WebInv, signed, Settled PROVE InView
    BY DEF LoginSticks
  <2>1. OnTheWay(tab, waiters, fetch, rotation) /\ "branding" \in Fetches
    BY DEF WebInv, ComingIn, Fetches
  <2> QED
    BY <2>1 DEF OnTheWay, Settled, InView
<1> QED
  BY <1>1, WebInitially, WebStepKeeps, PTL DEF WebSpec
=============================================================================
