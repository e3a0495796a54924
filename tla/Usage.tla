-------------------------------- MODULE Usage --------------------------------
(***************************************************************************)
(* The monthly quota of one tenant for one key: UsageService of            *)
(* apps/api/src/modules/usage/usage.service.ts. assertAndIncrement is a    *)
(* READ COMMITTED transaction whose statements interleave with those of    *)
(* other calls, with the webhooks that rewrite the subscription, and with  *)
(* the turn of the month; only the advisory lock of its first statement    *)
(* keeps two calls for the same bucket apart.                              *)
(***************************************************************************)
EXTENDS Naturals

CONSTANTS
  Calls,                    \* calls of assertAndIncrement
  Amounts,                  \* what a call may ask for
  Limits,                   \* limits a plan may set for the key
  Unlimited,                \* a plan without a limit, or no subscription
  Months                    \* bound: how often the month turns, plus one

ASSUME UsageAssumption ==
  /\ Amounts \subseteq Nat \ {0}
  /\ Limits \subseteq Nat
  /\ Unlimited \notin Nat
  /\ Months \in Nat \ {0}

VARIABLES
  quota,                    \* what the subscription says: entitled, and the limit
  counter,                  \* the rows of UsageCounter, 0 when there is none
  month,                    \* the current month
  use                       \* the calls: bucket, amount, what was read, statement

usageVars == <<quota, counter, month, use>>

Periods == 1..Months
Quota == [entitled : BOOLEAN, limit : Limits \cup {Unlimited}]
UsePCs == {"idle", "lock", "subscription", "count", "write", "granted", "refused"}
NoUse == [pc |-> "idle", period |-> 0, amount |-> 0, limit |-> Unlimited]

UsageInit ==
  /\ quota = [entitled |-> TRUE, limit |-> Unlimited]
  /\ counter = [p \in Periods |-> 0]
  /\ month = 1
  /\ use = [u \in Calls |-> NoUse]

UseAt(u, pcs) == use[u].pc \in pcs
UseGoto(u, pc) == use' = [use EXCEPT ![u].pc = pc]
UseEnds(u, pc) == use' = [use EXCEPT ![u] = [NoUse EXCEPT !.pc = pc]]

\* The transactions that hold the lock of the bucket: until they end.
InBucket == {"subscription", "count", "write"}

NoLock(u) == TRUE

BucketFree(u) ==
  \A v \in Calls \ {u} : UseAt(v, InBucket) => use[v].period # use[u].period

WithinLimit(limit, next) == limit = Unlimited \/ next <= limit

----------------------------------------------------------------------------

\* A webhook of Stripe rewrites the row, or the plan is edited.
SubscriptionChanges ==
  /\ \E q \in Quota : q # quota /\ quota' = q
  /\ UNCHANGED <<counter, month, use>>

TurnMonth ==
  /\ month < Months
  /\ month' = month + 1
  /\ UNCHANGED <<quota, counter, use>>

\* The period is computed before the transaction.
Ask(u, amount) ==
  /\ UseAt(u, {"idle"})
  /\ use' = [use EXCEPT ![u] = [NoUse EXCEPT !.pc = "lock", !.period = month, !.amount = amount]]
  /\ UNCHANGED <<quota, counter, month>>

LockBucket(u) ==
  /\ UseAt(u, {"lock"})
  /\ BucketFree(u)
  /\ UseGoto(u, "subscription")
  /\ UNCHANGED <<quota, counter, month>>

ReadSubscription(u) ==
  /\ UseAt(u, {"subscription"})
  /\ IF quota.entitled
     THEN use' = [use EXCEPT ![u].pc = "count", ![u].limit = quota.limit]
     ELSE UseEnds(u, "refused")
  /\ UNCHANGED <<quota, counter, month>>

ReadCounter(u) ==
  /\ UseAt(u, {"count"})
  /\ IF WithinLimit(use[u].limit, counter[use[u].period] + use[u].amount)
     THEN UseGoto(u, "write")
     ELSE UseEnds(u, "refused")
  /\ UNCHANGED <<quota, counter, month>>

\* The upsert and the commit, which releases the lock.
Increment(u) ==
  /\ UseAt(u, {"write"})
  /\ counter' = [counter EXCEPT ![use[u].period] = @ + use[u].amount]
  /\ UseEnds(u, "granted")
  /\ UNCHANGED <<quota, month>>

\* The transaction times out or its connection is lost.
UseAborts(u) ==
  /\ UseAt(u, {"lock"} \cup InBucket)
  /\ UseEnds(u, "refused")
  /\ UNCHANGED <<quota, counter, month>>

Spend(u) ==
  \/ LockBucket(u) \/ ReadSubscription(u) \/ ReadCounter(u)
  \/ Increment(u) \/ UseAborts(u)

UsageNext ==
  \/ SubscriptionChanges
  \/ TurnMonth
  \/ \E u \in Calls : Spend(u) \/ \E a \in Amounts : Ask(u, a)

UsageSpec == UsageInit /\ [][UsageNext]_usageVars

----------------------------------------------------------------------------
(* Properties *)

UsageTypeOK ==
  /\ quota \in Quota
  /\ counter \in [Periods -> Nat]
  /\ month \in Periods
  /\ use \in [Calls -> [pc : UsePCs, period : Periods \cup {0},
                        amount : Amounts \cup {0}, limit : Limits \cup {Unlimited}]]

\* "This closes the check-then-increment race that can otherwise overshoot a
\* quota under high concurrency" (usage.service.ts:31): whatever calls run at
\* once, an increment never takes a bucket past the limit its call read.
NeverOvershoots ==
  [][\A p \in Periods : counter'[p] # counter[p] =>
       \E u \in Calls :
         /\ UseAt(u, {"write"}) /\ use[u].period = p
         /\ WithinLimit(use[u].limit, counter'[p])]_usageVars
=============================================================================
