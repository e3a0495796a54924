------------------------------- MODULE Billing -------------------------------
(***************************************************************************)
(* The subscription of one tenant: BillingService of                       *)
(* apps/api/src/modules/billing/billing.service.ts over the tables         *)
(* Subscription and ExternalEventReceipt, and what it sees of Stripe:      *)
(* subscriptions that begin at a checkout, change and end there, and       *)
(* events that Stripe delivers in any order and again until the API has    *)
(* answered. Two deliveries may be handled at the same time, and the API   *)
(* may die in the middle of one.                                           *)
(***************************************************************************)
EXTENDS Naturals, Sequences

CONSTANTS
  Plans,                    \* plans of the catalogue, one Stripe price each
  Handlers,                 \* calls of webhook that run at the same time
  MaxEvents,                \* bound: events Stripe ever emits
  MaxCheckouts,             \* bound: subscriptions that ever begin at Stripe
  NoPlan                    \* no row, no plan

ASSUME BillingAssumption ==
  /\ MaxEvents \in Nat
  /\ MaxCheckouts \in Nat
  /\ NoPlan \notin Plans

VARIABLES
  checkout,                 \* plans of the checkouts begun, oldest first
  stripe,                   \* the subscriptions at Stripe, by checkout
  events,                   \* the events Stripe emitted
  answered,                 \* events the API answered with success
  receipts,                 \* rows of ExternalEventReceipt
  sub,                      \* the tenant's row of Subscription
  hook                      \* the calls of webhook: their event and statement

billingVars == <<checkout, stripe, events, answered, receipts, sub, hook>>

EventIds == 1..MaxEvents
Checkouts == 1..MaxCheckouts

\* Statuses the code tells apart.
Entitled == {"active", "trialing"}
Statuses == Entitled \cup {"incomplete", "past_due", "canceled"}
Types == {"created", "updated", "deleted", "payment_failed"}

\* What an event carries: the subscription, the plan of its price, the plan in
\* the metadata, which the checkout wrote, and the status at the time.
\* The price may be of no active plan, and an invoice may not name the tenant.
Prices == Plans \cup {NoPlan}
Event == [type : Types, id : Checkouts, plan : Prices, meta : Plans, status : Statuses,
          tenant : BOOLEAN]

NoRow == [id |-> 0, plan |-> NoPlan, status |-> "canceled"]
NoHook == [pc |-> "idle", event |-> 0]
AtStripe == [plan : Prices, status : Statuses]

BillingInit ==
  /\ checkout = <<>>
  /\ stripe = <<>>
  /\ events = <<>>
  /\ answered = {}
  /\ receipts = {}
  /\ sub = NoRow
  /\ hook = [h \in Handlers |-> NoHook]

----------------------------------------------------------------------------
(* checkout, and the subscriptions at Stripe *)

HasRow == sub.id # 0

\* A checkout is refused while Stripe manages a subscription of the tenant. It
\* writes nothing to the row. Stripe opens the subscription when it is paid.
Checkout(p) ==
  /\ Len(checkout) < MaxCheckouts
  /\ ~(HasRow /\ sub.status \in Entitled \cup {"past_due"})
  /\ checkout' = Append(checkout, p)
  /\ UNCHANGED <<stripe, events, answered, receipts, sub, hook>>

Emit(type, k, s, tenant) ==
  /\ Len(events) < MaxEvents
  /\ events' = Append(events, [type |-> type, id |-> k, plan |-> s.plan,
                               meta |-> checkout[k], status |-> s.status,
                               tenant |-> tenant])

\* Stripe's side: the customer pays, changes the plan in the portal, a payment
\* fails or comes in, the subscription ends.
Begin ==
  /\ Len(stripe) < Len(checkout)
  /\ LET k == Len(stripe) + 1 IN
       \E status \in {"active", "incomplete"} :
         LET s == [plan |-> checkout[k], status |-> status] IN
           /\ stripe' = Append(stripe, s)
           /\ Emit("created", k, s, TRUE)
  /\ UNCHANGED <<checkout, answered, receipts, sub, hook>>

Change(k) ==
  /\ k <= Len(stripe) /\ stripe[k].status # "canceled"
  /\ \E s \in [plan : Prices, status : {"active", "past_due"}] :
       /\ s # stripe[k]
       /\ stripe' = [stripe EXCEPT ![k] = s]
       /\ Emit("updated", k, s, TRUE)
  /\ UNCHANGED <<checkout, answered, receipts, sub, hook>>

PaymentFails(k) ==
  /\ k <= Len(stripe) /\ stripe[k].status = "active"
  /\ \E tenant \in BOOLEAN : Emit("payment_failed", k, stripe[k], tenant)
  /\ UNCHANGED <<checkout, stripe, answered, receipts, sub, hook>>

End(k) ==
  /\ k <= Len(stripe) /\ stripe[k].status # "canceled"
  /\ stripe' = [stripe EXCEPT ![k].status = "canceled"]
  /\ Emit("deleted", k, [stripe[k] EXCEPT !.status = "canceled"], TRUE)
  /\ UNCHANGED <<checkout, answered, receipts, sub, hook>>

----------------------------------------------------------------------------
(* webhook *)

\* reserveEvent: the insert fails when the receipt exists.
Unreceived(n) == n \notin receipts

\* Stripe delivers an event it has no answer for; the receipt is written first.
ReceiveEvent(h, n) ==
  /\ hook[h].pc = "idle"
  /\ n <= Len(events) /\ n \notin answered
  /\ IF Unreceived(n)
     THEN /\ receipts' = receipts \cup {n}
          /\ hook' = [hook EXCEPT ![h] = [pc |-> "apply", event |-> n]]
          /\ UNCHANGED answered
     ELSE /\ answered' = answered \cup {n}
          /\ UNCHANGED <<receipts, hook>>
  /\ UNCHANGED <<checkout, stripe, events, sub>>

\* A variant that trusts the plan in the metadata.
RowOfMetadata(e) == [id |-> e.id, plan |-> e.meta, status |-> e.status]

\* The plan is the one of the price Stripe attached.
RowOf(e) == [id |-> e.id, plan |-> e.plan, status |-> e.status]

\* updateMany: without a row there is nothing to update.
Marked(status) == IF HasRow THEN [sub EXCEPT !.status = status] ELSE sub

Apply(h) ==
  /\ hook[h].pc = "apply"
  /\ LET e == events[hook[h].event] IN
       sub' = CASE ~e.tenant -> sub
                [] e.tenant /\ e.type \in {"created", "updated"} ->
                     IF e.plan = NoPlan THEN sub ELSE RowOf(e)
                [] e.tenant /\ e.type = "deleted" -> Marked("canceled")
                [] e.tenant /\ e.type = "payment_failed" -> Marked("past_due")
  /\ hook' = [hook EXCEPT ![h] = NoHook]
  /\ answered' = answered \cup {hook[h].event}
  /\ UNCHANGED <<checkout, stripe, events, receipts>>

\* The database fails or the process dies after the receipt: Stripe gets no
\* answer and delivers the event again.
Drop(h) ==
  /\ hook[h].pc = "apply"
  /\ hook' = [hook EXCEPT ![h] = NoHook]
  /\ UNCHANGED <<checkout, stripe, events, answered, receipts, sub>>

BillingNext ==
  \/ \E p \in Plans : Checkout(p)
  \/ Begin
  \/ \E k \in Checkouts : Change(k) \/ PaymentFails(k) \/ End(k)
  \/ \E h \in Handlers, n \in EventIds : ReceiveEvent(h, n)
  \/ \E h \in Handlers : Apply(h) \/ Drop(h)

BillingSpec == BillingInit /\ [][BillingNext]_billingVars

----------------------------------------------------------------------------
(* Properties *)

BillingTypeOK ==
  /\ checkout \in Seq(Plans) /\ Len(checkout) <= MaxCheckouts
  /\ stripe \in Seq(AtStripe) /\ Len(stripe) <= Len(checkout)
  /\ events \in Seq(Event) /\ Len(events) <= MaxEvents
  /\ answered \subseteq 1..Len(events)
  /\ receipts \subseteq 1..Len(events)
  /\ sub \in {NoRow} \cup [id : Checkouts, plan : Plans, status : Statuses]
  /\ hook \in [Handlers -> [pc : {"idle", "apply"}, event : 0..Len(events)]]

\* "starting checkout must never grant local entitlements ... only after a
\* signed Stripe subscription webhook proves which price/status Stripe actually
\* created" (billing.service.ts:61): while the row entitles the tenant to a
\* plan, an event of that very subscription said that price and that status,
\* whatever was bought at the checkout, retried, reordered or lost.
EntitlementProven ==
  sub.status \in Entitled =>
    \E n \in receipts :
      /\ events[n].type \in {"created", "updated"}
      /\ <<events[n].id, events[n].plan, events[n].status>> = <<sub.id, sub.plan, sub.status>>
=============================================================================
