--------------------------- MODULE WorkspaceProofs ---------------------------
(***************************************************************************)
(* The work of a logged-in user: the quota is never overshot, what is      *)
(* stored of a prospecting was paid for, a tenant inherits one feature and *)
(* one brand, an agent the user did not touch keeps its state through a    *)
(* run, a company is stored once unless it was asked for again, a          *)
(* conversation ends with the last of its messages, the screens of leads   *)
(* and of deals catch up with what is stored, a text stays with the        *)
(* conversation it is for, and older messages come before newer ones.      *)
(***************************************************************************)
EXTENDS Tenants, Prospecting, AgentPage, LeadFinder, Conversations, LeadScreen, DealBoard,
        InboxPage, ThreadScreen, SequenceTheorems, FiniteSetTheorems, WellFoundedInduction, TLAPS

----------------------------------------------------------------------------
(* Numbers, folds and sums *)
(* A theorem about a fold of the community modules needs the recursive     *)
(* function under it to exist; the library's induction takes an operator   *)
(* as a parameter, so that it is done here over sets of numbers.           *)

\* Induction over the numbers, for a set of them.
LEMMA NumbersByInduction ==
  ASSUME NEW S, 0 \in S, \A n \in Nat : n \in S => n + 1 \in S
  PROVE  \A n \in Nat : n \in S
<1> DEFINE R == OpToRel(<, Nat)
<1> DEFINE T == Nat \ S
<1> SUFFICES ASSUME T # {} PROVE FALSE
  OBVIOUS
<1>1. PICK z \in T : \A y \in T : ~ (<<y, z>> \in R)
  <2>1. IsWellFoundedOn(R, Nat)
    BY NatLessThanWellFounded
  <2>2. T \subseteq Nat
    OBVIOUS
  <2> HIDE DEF R, T
  <2> QED
    BY <2>1, <2>2, WFMin, Zenon
<1>2. z \in Nat /\ z # 0 /\ z \notin S
  OBVIOUS
<1>3. z - 1 \in Nat /\ z - 1 < z /\ (z - 1) + 1 = z
  BY <1>2
<1>4. z - 1 \in T
  BY <1>2, <1>3
<1>5. <<z - 1, z>> \in R
  BY <1>2, <1>3 DEF OpToRel
<1> QED
  BY <1>1, <1>4, <1>5

\* What a fold says of the parts of D: pick names the element that comes last.
IsFold(it, D, base, step, pick) ==
  \A s \in SUBSET D : it[s] = IF s = {} THEN base ELSE step[<<it[s \ {pick[s]}], pick[s]>>]

\* A fold over a finite set, whatever picks the next element, exists: it is made
\* from the smaller sets to the larger ones.
LEMMA FoldExists ==
  ASSUME NEW D, IsFiniteSet(D), NEW V, NEW base \in V, NEW step \in [V \X D -> V],
         NEW pick, \A s \in SUBSET D : s # {} => pick[s] \in s
  PROVE  \E it \in [SUBSET D -> V] : IsFold(it, D, base, step, pick)
<1> DEFINE Next(it, s) == IF s = {} THEN base ELSE step[<<it[s \ {pick[s]}], pick[s]>>]
<1> DEFINE FoldTo(it, n) == \A s \in SUBSET D : Cardinality(s) <= n => it[s] = Next(it, s)
<1> DEFINE S == {n \in Nat : \E it \in [SUBSET D -> V] : FoldTo(it, n)}
<1>1. ASSUME NEW s \in SUBSET D
      PROVE  /\ Cardinality(s) \in Nat /\ (Cardinality(s) = 0 <=> s = {})
             /\ s # {} => /\ s \ {pick[s]} \in SUBSET D /\ pick[s] \in D
                          /\ Cardinality(s \ {pick[s]}) = Cardinality(s) - 1
  <2>1. IsFiniteSet(s)
    BY FS_Subset
  <2>2. Cardinality(s) \in Nat /\ (Cardinality(s) = 0 <=> s = {})
    BY <2>1, FS_CardinalityType, FS_EmptySet
  <2>3. ASSUME s # {} PROVE Cardinality(s \ {pick[s]}) = Cardinality(s) - 1 /\ pick[s] \in s
    BY <2>1, <2>3, FS_RemoveElement
  <2> QED
    BY <2>2, <2>3
<1>2. ASSUME NEW it \in [SUBSET D -> V], NEW s \in SUBSET D PROVE Next(it, s) \in V
  BY <1>1
<1> HIDE DEF FoldTo
<1>3. 0 \in S
  <2> DEFINE it == [s \in SUBSET D |-> base]
  <2>1. it \in [SUBSET D -> V]
    OBVIOUS
  <2>2. ASSUME NEW s \in SUBSET D, Cardinality(s) <= 0 PROVE s = {}
    <3>1. Cardinality(s) \in Nat /\ (Cardinality(s) = 0 <=> s = {})
      BY <1>1, Zenon
    <3> QED
      BY <2>2, <3>1
  <2>3. FoldTo(it, 0)
    BY <2>2 DEF FoldTo
  <2> HIDE DEF it
  <2> QED
    BY <2>1, <2>3
<1>4. ASSUME NEW n \in Nat, n \in S PROVE n + 1 \in S
  <2>1. PICK f \in [SUBSET D -> V] : FoldTo(f, n)
    BY <1>4
  <2> DEFINE it == [s \in SUBSET D |-> Next(f, s)]
  <2>2. it \in [SUBSET D -> V]
    <3> HIDE DEF Next
    <3> QED
      BY <1>2
  <2>3. ASSUME NEW s \in SUBSET D, Cardinality(s) <= n PROVE it[s] = f[s]
    BY <2>1, <2>3 DEF FoldTo
  <2>4. ASSUME NEW s \in SUBSET D, Cardinality(s) <= n + 1 PROVE it[s] = Next(it, s)
    <3>1. CASE s = {}
      BY <3>1
    <3>2. CASE s # {}
      <4>1. s \ {pick[s]} \in SUBSET D /\ Cardinality(s \ {pick[s]}) <= n
        BY <1>1, <2>4, <3>2
      <4>2. it[s \ {pick[s]}] = f[s \ {pick[s]}]
        BY <2>3, <4>1
      <4>3. it[s] = step[<<f[s \ {pick[s]}], pick[s]>>]
        BY <3>2
      <4> QED
        BY <3>2, <4>2, <4>3
    <3> QED
      BY <3>1, <3>2
  <2>5. FoldTo(it, n + 1)
    <3> HIDE DEF it, Next
    <3> QED
      BY <2>4 DEF FoldTo
  <2> HIDE DEF it
  <2> QED
    BY <2>2, <2>5, n + 1 \in Nat, Zenon
<1> HIDE DEF S
<1>5. Cardinality(D) \in S
  BY <1>1, <1>3, <1>4, NumbersByInduction
<1>6. PICK it \in [SUBSET D -> V] : FoldTo(it, Cardinality(D))
  BY <1>5 DEF S
<1>7. \A s \in SUBSET D : Cardinality(s) <= Cardinality(D)
  BY FS_Subset
<1> QED
  BY <1>6, <1>7 DEF FoldTo, IsFold

\* The sum of a function over its domain.
Total(f) == FoldFunction(+, 0, f)

Some(s) == CHOOSE x \in s : TRUE

\* What a sum over a function says of its parts.
IsSum(it, D, f) ==
  \A s \in SUBSET D :
    /\ it[s] \in Nat
    /\ s = {} => it[s] = 0
    /\ s # {} => it[s] = f[Some(s)] + it[s \ {Some(s)}]

\* The sum is the recursive function of the community modules: there is one.
LEMMA TotalIsSum ==
  ASSUME NEW D, IsFiniteSet(D), NEW f \in [D -> Nat]
  PROVE  \E it : Total(f) = it[D] /\ IsSum(it, D, f)
<1> DEFINE Fold(it) == it = [s \in SUBSET DOMAIN f |->
             IF s = {} THEN 0 ELSE f[CHOOSE x \in s : TRUE] + it[s \ {CHOOSE x \in s : TRUE}]]
<1> DEFINE IT == CHOOSE it : Fold(it)
<1>1. Total(f) = IT[DOMAIN f]
  BY DEF Total, FoldFunction, FoldFunctionOnSet, MapThenFoldSet
<1> DEFINE pick == [s \in SUBSET D |-> CHOOSE x \in s : TRUE]
<1>2. \A s \in SUBSET D : s # {} => pick[s] \in s
  OBVIOUS
<1>3. \E it : Fold(it)
  <2> DEFINE step == [p \in Nat \X D |-> f[p[2]] + p[1]]
  <2>1. step \in [Nat \X D -> Nat]
    OBVIOUS
  <2>2. \A v \in Nat, x \in D : step[<<v, x>>] = f[x] + v
    OBVIOUS
  <2> HIDE DEF step, pick
  <2>3. PICK it \in [SUBSET D -> Nat] : IsFold(it, D, 0, step, pick)
    BY <1>2, <2>1, FoldExists
  <2>4. ASSUME NEW s \in SUBSET D
        PROVE  it[s] = IF s = {} THEN 0 ELSE f[pick[s]] + it[s \ {pick[s]}]
    <3>1. CASE s = {}
      BY <2>3, <3>1 DEF IsFold
    <3>2. CASE s # {}
      <4>1. pick[s] \in D /\ it[s \ {pick[s]}] \in Nat
        BY <1>2, <3>2
      <4>2. it[s] = step[<<it[s \ {pick[s]}], pick[s]>>]
        BY <2>3, <3>2 DEF IsFold
      <4> QED
        BY <2>2, <3>2, <4>1, <4>2
    <3> QED
      BY <3>1, <3>2
  <2>5. it = [s \in SUBSET D |-> IF s = {} THEN 0
                                 ELSE f[CHOOSE x \in s : TRUE] + it[s \ {CHOOSE x \in s : TRUE}]]
    BY <2>4 DEF pick
  <2> QED
    BY <2>5
<1> HIDE DEF pick
<1>4. Fold(IT)
  <2> HIDE DEF Fold
  <2> QED
    BY <1>3, Zenon
<1> HIDE DEF IT
<1>5. ASSUME NEW s \in SUBSET D
      PROVE  IT[s] = IF s = {} THEN 0 ELSE f[pick[s]] + IT[s \ {pick[s]}]
  BY <1>4 DEF pick
<1> HIDE DEF Fold
<1> DEFINE S == {n \in Nat : \A s \in SUBSET D : Cardinality(s) = n => IT[s] \in Nat}
<1>6. ASSUME NEW s \in SUBSET D
      PROVE  /\ Cardinality(s) \in Nat /\ (Cardinality(s) = 0 <=> s = {})
             /\ s # {} => Cardinality(s \ {pick[s]}) = Cardinality(s) - 1
  <2>1. IsFiniteSet(s)
    BY FS_Subset
  <2>2. Cardinality(s) \in Nat /\ (Cardinality(s) = 0 <=> s = {})
    BY <2>1, FS_CardinalityType, FS_EmptySet
  <2>3. ASSUME s # {} PROVE Cardinality(s \ {pick[s]}) = Cardinality(s) - 1
    BY <1>2, <2>1, <2>3, FS_RemoveElement
  <2> QED
    BY <2>2, <2>3
<1>7. 0 \in S
  BY <1>5, <1>6
<1>8. ASSUME NEW n \in Nat, n \in S PROVE n + 1 \in S
  <2>1. ASSUME NEW s \in SUBSET D, Cardinality(s) = n + 1 PROVE IT[s] \in Nat
    <3>1. s # {}
      BY <1>6, <2>1
    <3>2. Cardinality(s \ {pick[s]}) = n /\ s \ {pick[s]} \in SUBSET D /\ pick[s] \in D
      BY <1>2, <1>6, <2>1, <3>1
    <3>3. IT[s \ {pick[s]}] \in Nat
      BY <1>8, <3>2
    <3> QED
      BY <1>5, <3>1, <3>2, <3>3
  <2> QED
    BY <2>1, n + 1 \in Nat, Zenon
<1>9. \A n \in Nat : n \in S
  <2> HIDE DEF S
  <2> QED
    BY <1>7, <1>8, NumbersByInduction
<1>10. \A s \in SUBSET D : IT[s] \in Nat
  BY <1>6, <1>9
<1>11. IsSum(IT, D, f)
  <2>1. \A s \in SUBSET D : pick[s] = Some(s)
    BY DEF pick, Some
  <2> QED
    BY <1>5, <1>10, <2>1 DEF IsSum
<1> QED
  BY <1>1, <1>11

\* An element less in a part of a finite set.
LEMMA CardinalityOfPart ==
  ASSUME NEW D, IsFiniteSet(D), NEW s \in SUBSET D
  PROVE  /\ Cardinality(s) \in Nat /\ (Cardinality(s) = 0 <=> s = {})
         /\ s # {} => Some(s) \in s /\ Cardinality(s \ {Some(s)}) = Cardinality(s) - 1
<1>1. IsFiniteSet(s)
  BY FS_Subset
<1>2. Cardinality(s) \in Nat /\ (Cardinality(s) = 0 <=> s = {})
  BY <1>1, FS_CardinalityType, FS_EmptySet
<1>3. ASSUME s # {} PROVE Some(s) \in s
  BY <1>3 DEF Some
<1>4. ASSUME s # {} PROVE Cardinality(s \ {Some(s)}) = Cardinality(s) - 1
  BY <1>1, <1>3, <1>4, FS_RemoveElement
<1> QED
  BY <1>2, <1>3, <1>4

\* Who adds d to one element adds d to the sum.
LEMMA TotalGrows ==
  ASSUME NEW D, IsFiniteSet(D), NEW f \in [D -> Nat], NEW b \in D, NEW d \in Nat,
         NEW g, g = [f EXCEPT ![b] = @ + d]
  PROVE  Total(g) = Total(f) + d /\ Total(f) \in Nat
<1>1. PICK x : Total(f) = x[D] /\ IsSum(x, D, f)
  BY TotalIsSum
<1>2. g \in [D -> Nat]
  OBVIOUS
<1>3. PICK y : Total(g) = y[D] /\ IsSum(y, D, g)
  BY <1>2, TotalIsSum
<1> DEFINE Grown(s) == y[s] = IF b \in s THEN x[s] + d ELSE x[s]
<1> DEFINE S == {n \in Nat : \A s \in SUBSET D : Cardinality(s) = n => Grown(s)}
<1>4. ASSUME NEW s \in SUBSET D
      PROVE  /\ Cardinality(s) \in Nat /\ (Cardinality(s) = 0 <=> s = {})
             /\ s # {} => Some(s) \in s /\ Cardinality(s \ {Some(s)}) = Cardinality(s) - 1
  BY CardinalityOfPart
<1>5. 0 \in S
  BY <1>1, <1>3, <1>4 DEF IsSum
<1>6. ASSUME NEW n \in Nat, n \in S PROVE n + 1 \in S
  <2>1. ASSUME NEW s \in SUBSET D, Cardinality(s) = n + 1 PROVE Grown(s)
    <3>1. s # {}
      <4>1. Cardinality(s) = 0 <=> s = {}
        BY <1>4
      <4> QED
        BY <2>1, <4>1
    <3> DEFINE e == Some(s)
               r == s \ {e}
    <3>2. Cardinality(r) = n /\ r \in SUBSET D /\ e \in s /\ e \in D /\ e \notin r
      BY <1>4, <2>1, <3>1
    <3>3. x[s] = f[e] + x[r] /\ x[r] \in Nat /\ f[e] \in Nat
      BY <1>1, <3>1, <3>2 DEF IsSum
    <3>4. y[s] = g[e] + y[r]
      BY <1>3, <3>1 DEF IsSum
    <3>5. Grown(r)
      BY <1>6, <3>2
    <3>6. g[e] = IF e = b THEN f[e] + d ELSE f[e]
      BY <3>2
    <3>7. b \in s <=> (e = b \/ b \in r)
      BY <3>2
    <3> HIDE DEF e, r
    <3> QED
      BY <3>2, <3>3, <3>4, <3>5, <3>6, <3>7
  <2> QED
    BY <2>1, n + 1 \in Nat, Zenon
<1> HIDE DEF S
<1>7. Cardinality(D) \in S
  BY <1>4, <1>5, <1>6, NumbersByInduction
<1>8. Grown(D)
  BY <1>7 DEF S
<1>9. x[D] \in Nat
  BY <1>1 DEF IsSum
<1> QED
  BY <1>1, <1>3, <1>8, <1>9

\* A sum changes by what its only changed element changes by.
LEMMA TotalChanges ==
  ASSUME NEW D, IsFiniteSet(D), NEW f \in [D -> Nat], NEW g \in [D -> Nat], NEW b \in D,
         \A x \in D \ {b} : g[x] = f[x]
  PROVE  Total(g) + f[b] = Total(f) + g[b] /\ Total(f) \in Nat /\ Total(g) \in Nat
<1>1. f[b] \in Nat /\ g[b] \in Nat
  OBVIOUS
<1>2. CASE f[b] <= g[b]
  <2>1. g[b] - f[b] \in Nat /\ g = [f EXCEPT ![b] = @ + (g[b] - f[b])]
    BY <1>1, <1>2
  <2>2. Total(g) = Total(f) + (g[b] - f[b]) /\ Total(f) \in Nat
    BY <2>1, TotalGrows
  <2> QED
    BY <1>1, <1>2, <2>2
<1>3. CASE g[b] <= f[b]
  <2>1. f[b] - g[b] \in Nat /\ f = [g EXCEPT ![b] = @ + (f[b] - g[b])]
    BY <1>1, <1>3
  <2>2. Total(f) = Total(g) + (f[b] - g[b]) /\ Total(g) \in Nat
    BY <2>1, TotalGrows
  <2> QED
    BY <1>1, <1>3, <2>2
<1> QED
  BY <1>1, <1>2, <1>3

\* Nothing but zeros sums to zero.
LEMMA TotalOfNone ==
  ASSUME NEW D, IsFiniteSet(D), NEW f, f = [x \in D |-> 0]
  PROVE  Total(f) = 0
<1>1. PICK it : Total(f) = it[D] /\ IsSum(it, D, f)
  BY TotalIsSum
<1> DEFINE S == {n \in Nat : \A s \in SUBSET D : Cardinality(s) = n => it[s] = 0}
<1>2. ASSUME NEW s \in SUBSET D
      PROVE  /\ Cardinality(s) \in Nat /\ (Cardinality(s) = 0 <=> s = {})
             /\ s # {} => Some(s) \in s /\ Cardinality(s \ {Some(s)}) = Cardinality(s) - 1
  BY CardinalityOfPart
<1>3. 0 \in S
  BY <1>1, <1>2 DEF IsSum
<1>4. ASSUME NEW n \in Nat, n \in S PROVE n + 1 \in S
  <2>1. ASSUME NEW s \in SUBSET D, Cardinality(s) = n + 1 PROVE it[s] = 0
    <3>1. s # {}
      <4>1. Cardinality(s) = 0 <=> s = {}
        BY <1>2
      <4> QED
        BY <2>1, <4>1
    <3>2. Cardinality(s \ {Some(s)}) = n /\ s \ {Some(s)} \in SUBSET D /\ Some(s) \in D
      BY <1>2, <2>1, <3>1
    <3>3. it[s \ {Some(s)}] = 0
      BY <1>4, <3>2
    <3>4. it[s] = f[Some(s)] + it[s \ {Some(s)}]
      BY <1>1, <3>1 DEF IsSum
    <3>5. f[Some(s)] = 0
      BY <3>2
    <3> QED
      BY <3>3, <3>4, <3>5
  <2> QED
    BY <2>1, n + 1 \in Nat, Zenon
<1> HIDE DEF S
<1>5. Cardinality(D) \in S
  BY <1>2, <1>3, <1>4, NumbersByInduction
<1> QED
  BY <1>1, <1>5 DEF S

----------------------------------------------------------------------------
(* The quota *)
(* It holds for any number of calls, amounts, limits and months. The lock  *)
(* alone does not say it: what a call that writes has read must still      *)
(* hold, and it holds because nobody else is in its bucket.                *)

\* A call whose period was computed has one, and asks for something.
BucketKnown ==
  \A u \in Calls : UseAt(u, {"lock"} \cup InBucket) =>
    use[u].period \in Periods /\ use[u].amount \in Amounts

\* Two calls in transactions are in different buckets.
OneInBucket ==
  \A u, v \in Calls :
    u # v /\ UseAt(u, InBucket) /\ UseAt(v, InBucket) => use[u].period # use[v].period

\* What a call that writes has checked is still so.
StillFits ==
  \A u \in Calls : UseAt(u, {"write"}) =>
    WithinLimit(use[u].limit, counter[use[u].period] + use[u].amount)

UsageInv == UsageTypeOK /\ BucketKnown /\ OneInBucket /\ StillFits

USE UsageAssumption

LEMMA UsageInitially == UsageInit => UsageInv
BY DEF UsageInit, UsageInv, UsageTypeOK, Quota, Periods, NoUse, UsePCs, BucketKnown,
       OneInBucket, StillFits, UseAt, InBucket

----------------------------------------------------------------------------
(* What an action does to the record of its call *)

\* A call that ends is in no bucket.
LEMMA EndKeeps ==
  ASSUME UsageInv, NEW u \in Calls, NEW pc \in {"granted", "refused"}, UseEnds(u, pc),
         quota' = quota, month' = month, counter' \in [Periods -> Nat],
         \A p \in Periods : counter'[p] # counter[p] =>
           UseAt(u, InBucket) /\ p = use[u].period
  PROVE  UsageInv'
<1>1. \A v \in Calls : v # u => use'[v] = use[v]
  BY DEF UsageInv, UsageTypeOK, UseEnds
<1>2. use'[u] = [NoUse EXCEPT !.pc = pc]
  BY DEF UsageInv, UsageTypeOK, UseEnds
<1>3. use'[u].pc = pc /\ use'[u].period = 0 /\ use'[u].amount = 0 /\ use'[u].limit = Unlimited
  BY <1>2 DEF NoUse
<1>4. UsageTypeOK'
  BY DEF UsageInv, UsageTypeOK, UseEnds, NoUse, UsePCs
<1>5. BucketKnown'
  BY <1>1, <1>3 DEF UsageInv, BucketKnown, UseAt, InBucket
<1>6. OneInBucket'
  BY <1>1, <1>3 DEF UsageInv, OneInBucket, UseAt, InBucket
<1>7. StillFits'
  <2> SUFFICES ASSUME NEW v \in Calls, UseAt(v, {"write"})'
               PROVE  WithinLimit(use'[v].limit, counter'[use'[v].period] + use'[v].amount)
    BY DEF StillFits
  <2>1. v # u /\ use'[v] = use[v] /\ UseAt(v, {"write"})
    BY <1>1, <1>3 DEF UseAt
  <2>2. use[v].period \in Periods
    BY <2>1 DEF UsageInv, BucketKnown, UseAt, InBucket
  <2>3. counter'[use[v].period] = counter[use[v].period]
    BY <2>1, <2>2 DEF UsageInv, OneInBucket, UseAt, InBucket
  <2> QED
    BY <2>1, <2>3 DEF UsageInv, StillFits
<1> QED
  BY <1>4, <1>5, <1>6, <1>7 DEF UsageInv

\* A call that goes on from one statement to the next, with the same bucket.
LEMMA StatementKeeps ==
  ASSUME UsageInv, NEW u \in Calls, NEW pc \in InBucket, NEW limit \in Limits \cup {Unlimited},
         use' = [use EXCEPT ![u].pc = pc, ![u].limit = limit],
         quota' = quota, month' = month, counter' = counter,
         UseAt(u, {"lock"} \cup InBucket),
         BucketFree(u),
         pc = "write" => WithinLimit(limit, counter[use[u].period] + use[u].amount)
  PROVE  UsageInv'
<1>1. \A v \in Calls : v # u => use'[v] = use[v]
  BY DEF UsageInv, UsageTypeOK
<1>2. use'[u] = [use[u] EXCEPT !.pc = pc, !.limit = limit]
  BY DEF UsageInv, UsageTypeOK
<1>3. /\ use'[u].pc = pc /\ use'[u].limit = limit
      /\ use'[u].period = use[u].period /\ use'[u].amount = use[u].amount
  BY <1>2 DEF UsageInv, UsageTypeOK
<1>4. UsageTypeOK'
  <2> DEFINE Use == [pc : UsePCs, period : Periods \cup {0},
                     amount : Amounts \cup {0}, limit : Limits \cup {Unlimited}]
  <2>1. use \in [Calls -> Use]
    BY DEF UsageInv, UsageTypeOK
  <2>2. pc \in UsePCs
    BY DEF UsePCs, InBucket
  <2>3. [use[u] EXCEPT !.pc = pc, !.limit = limit] \in Use
    BY <2>1, <2>2
  <2> HIDE DEF Use
  <2>4. use' \in [Calls -> Use]
    BY <2>1, <2>3
  <2> QED BY <2>4 DEF UsageInv, UsageTypeOK, Use
<1>5. BucketKnown'
  BY <1>1, <1>3 DEF UsageInv, BucketKnown, UseAt, InBucket
<1>6. OneInBucket'
  BY ZenonT(60), <1>1, <1>3 DEF UsageInv, OneInBucket, BucketFree, UseAt
<1>7. StillFits'
  BY ZenonT(60), <1>1, <1>3 DEF UsageInv, StillFits, UseAt
<1> QED
  BY <1>4, <1>5, <1>6, <1>7 DEF UsageInv

----------------------------------------------------------------------------

\* The bucket of a call in a transaction is free of others.
LEMMA AloneInBucket ==
  ASSUME UsageInv, NEW u \in Calls, UseAt(u, InBucket)
  PROVE  BucketFree(u)
BY DEF UsageInv, OneInBucket, BucketFree

LEMMA SpendKeeps ==
  ASSUME UsageInv, NEW u \in Calls, Spend(u)
  PROVE  UsageInv'
<1>0. /\ use[u].limit \in Limits \cup {Unlimited} /\ quota.limit \in Limits \cup {Unlimited}
      /\ use = [use EXCEPT ![u].limit = use[u].limit]
  BY DEF UsageInv, UsageTypeOK, Quota
<1>1. CASE LockBucket(u)
  <2>1. use' = [use EXCEPT ![u].pc = "subscription", ![u].limit = use[u].limit]
    BY <1>1 DEF LockBucket, UseGoto, UsageInv, UsageTypeOK
  <2> QED
    BY <1>0, <1>1, <2>1, StatementKeeps DEF LockBucket, UseAt, InBucket
<1>2. CASE ReadSubscription(u)
  <2>1. BucketFree(u)
    BY <1>2, AloneInBucket DEF ReadSubscription, UseAt, InBucket
  <2>2. CASE quota.entitled
    BY <1>0, <1>2, <2>1, <2>2, StatementKeeps DEF ReadSubscription, UseAt, InBucket
  <2>3. CASE ~quota.entitled
    <3>1. UseEnds(u, "refused") /\ quota' = quota /\ month' = month /\ counter' = counter
      BY <1>2, <2>3 DEF ReadSubscription
    <3> QED
      BY <3>1, EndKeeps DEF UsageInv, UsageTypeOK
  <2> QED
    BY <2>2, <2>3
<1>3. CASE ReadCounter(u)
  <2>1. BucketFree(u)
    BY <1>3, AloneInBucket DEF ReadCounter, UseAt, InBucket
  <2>2. CASE WithinLimit(use[u].limit, counter[use[u].period] + use[u].amount)
    <3>1. use' = [use EXCEPT ![u].pc = "write", ![u].limit = use[u].limit]
      BY <1>3, <2>2 DEF ReadCounter, UseGoto, UsageInv, UsageTypeOK
    <3> QED
      BY <1>0, <1>3, <2>1, <2>2, <3>1, StatementKeeps DEF ReadCounter, UseAt, InBucket
  <2>3. CASE ~WithinLimit(use[u].limit, counter[use[u].period] + use[u].amount)
    <3>1. UseEnds(u, "refused") /\ quota' = quota /\ month' = month /\ counter' = counter
      BY <1>3, <2>3 DEF ReadCounter
    <3> QED
      BY <3>1, EndKeeps DEF UsageInv, UsageTypeOK
  <2> QED
    BY <2>2, <2>3
<1>4. CASE Increment(u)
  <2>1. use[u].period \in Periods /\ use[u].amount \in Nat
    BY <1>4 DEF Increment, UsageInv, BucketKnown, UseAt, InBucket
  <2>2. counter' = [counter EXCEPT ![use[u].period] = counter[use[u].period] + use[u].amount]
    BY <1>4 DEF Increment
  <2>3. counter' \in [Periods -> Nat]
    BY <2>1, <2>2 DEF UsageInv, UsageTypeOK
  <2>4. \A p \in Periods : counter'[p] # counter[p] => p = use[u].period
    BY <2>2 DEF UsageInv, UsageTypeOK
  <2> QED
    BY <1>4, <2>3, <2>4, EndKeeps DEF Increment, UseAt, InBucket
<1>5. CASE UseAborts(u)
  <2>1. UseEnds(u, "refused") /\ quota' = quota /\ month' = month /\ counter' = counter
    BY <1>5 DEF UseAborts
  <2> QED
    BY <2>1, EndKeeps DEF UsageInv, UsageTypeOK
<1> QED
  BY <1>1, <1>2, <1>3, <1>4, <1>5 DEF Spend

LEMMA AskKeeps ==
  ASSUME UsageInv, NEW u \in Calls, NEW a \in Amounts, Ask(u, a)
  PROVE  UsageInv'
<1>1. \A v \in Calls : v # u => use'[v] = use[v]
  BY DEF UsageInv, UsageTypeOK, Ask
<1>2. use'[u] = [NoUse EXCEPT !.pc = "lock", !.period = month, !.amount = a]
  BY DEF UsageInv, UsageTypeOK, Ask
<1>3. use'[u].pc = "lock" /\ use'[u].period = month /\ use'[u].amount = a
  BY <1>2 DEF NoUse
<1>4. UsageTypeOK'
  BY DEF UsageInv, UsageTypeOK, Ask, NoUse, UsePCs
<1>5. BucketKnown' /\ OneInBucket' /\ StillFits'
  BY <1>1, <1>3 DEF UsageInv, UsageTypeOK, Ask, BucketKnown, OneInBucket, StillFits, UseAt, InBucket
<1> QED
  BY <1>4, <1>5 DEF UsageInv

LEMMA UsageStepKeeps == UsageInv /\ [UsageNext]_usageVars => UsageInv'
<1> SUFFICES ASSUME UsageInv, [UsageNext]_usageVars PROVE UsageInv'
  OBVIOUS
<1>1. CASE SubscriptionChanges
  BY <1>1 DEF SubscriptionChanges, UsageInv, UsageTypeOK, BucketKnown, OneInBucket, StillFits, UseAt
<1>2. CASE TurnMonth
  BY <1>2 DEF TurnMonth, UsageInv, UsageTypeOK, BucketKnown, OneInBucket, StillFits, UseAt, Periods
<1>3. CASE \E u \in Calls : Spend(u) \/ \E a \in Amounts : Ask(u, a)
  BY <1>3, SpendKeeps, AskKeeps
<1>4. CASE UNCHANGED usageVars
  BY <1>4 DEF usageVars, UsageInv, UsageTypeOK, BucketKnown, OneInBucket, StillFits, UseAt
<1> QED
  BY <1>1, <1>2, <1>3, <1>4 DEF UsageNext

\* Calls, counters and the subscription keep their types, two calls are never
\* in one bucket, and what a call has checked holds until it writes
\* (usage.service.ts:42).
THEOREM UsageIsSafe == UsageSpec => []UsageInv
BY UsageInitially, UsageStepKeeps, PTL DEF UsageSpec

\* No increment passes the limit its call read, whatever calls, webhooks and
\* months come between its statements (usage.service.ts:31).
THEOREM QuotaHolds == UsageSpec => NeverOvershoots
<1>1. UsageInv /\ [UsageNext]_usageVars =>
        [\A p \in Periods : counter'[p] # counter[p] =>
           \E u \in Calls : /\ UseAt(u, {"write"}) /\ use[u].period = p
                            /\ WithinLimit(use[u].limit, counter'[p])]_usageVars
  <2> SUFFICES ASSUME UsageInv, [UsageNext]_usageVars, NEW p \in Periods, counter'[p] # counter[p]
               PROVE  \E u \in Calls : /\ UseAt(u, {"write"}) /\ use[u].period = p
                                       /\ WithinLimit(use[u].limit, counter'[p])
    OBVIOUS
  <2>1. PICK u \in Calls : Increment(u)
    BY DEF UsageNext, usageVars, SubscriptionChanges, TurnMonth, Spend, Ask, LockBucket,
           ReadSubscription, ReadCounter, UseAborts
  <2>2. counter' = [counter EXCEPT ![use[u].period] = counter[use[u].period] + use[u].amount]
    BY <2>1 DEF Increment
  <2>3. p = use[u].period /\ counter'[p] = counter[p] + use[u].amount
    BY <2>2 DEF UsageInv, UsageTypeOK
  <2>4. UseAt(u, {"write"})
    BY <2>1 DEF Increment
  <2> QED
    BY <2>3, <2>4 DEF UsageInv, StillFits
<1> QED
  BY <1>1, UsageIsSafe, PTL DEF UsageSpec, NeverOvershoots

HIDE UsageAssumption

----------------------------------------------------------------------------
(* What a prospecting job stores was paid for *)
(* The counters cover what is stored and what paid jobs still owe: a call  *)
(* that spends moves its rows from what nobody owes to both sides at once, *)
(* and the end of its job moves them from what it owes to what is stored.  *)

USE UsageAssumption

JobStages == {"none", "unpaid", "refused", "RUNNING", "COMPLETED", "FAILED", "abandoned"}
Job == [status : JobStages, rows : Seq(Row), found : Nat, was : ProspectStatus]
Charged == [pc : UsePCs, period : Periods \cup {0}, amount : Nat, limit : Limits \cup {Unlimited}]

Conversion == [pc : {"idle", "lead", "link", "done"}, prospect : Nat, lead : Nat]

ProspectingTyped ==
  /\ quota \in Quota /\ counter \in [Periods -> Nat] /\ month \in Periods
  /\ use \in [Calls -> Charged]
  /\ prospects \in Seq(Prospect) /\ leads \in Seq(Nat)
  /\ job \in [Calls -> Job]
  /\ conv \in [Converters -> Conversion]

\* A call that has not paid yet will pay for the rows of its job.
ChargesFit ==
  \A u \in Calls : UseAt(u, {"lock"} \cup InBucket) =>
    /\ use[u].period \in Periods
    /\ job[u].status \in {"unpaid", "RUNNING"}
    /\ use[u].amount = Len(job[u].rows)

\* A lookup belongs to a row.
LookupsHaveRows == \A u \in Calls : job[u].found # 0 => job[u].rows # <<>>

\* The rows of a job that are paid and not stored yet.
Owed(u) ==
  IF UseAt(u, {"granted"}) /\ job[u].status \in {"unpaid", "RUNNING"} THEN Len(job[u].rows) ELSE 0

Owing == [u \in Calls |-> Owed(u)]

\* What was stored and what is still owed is covered by the counters.
Covered == Len(prospects) + Total(Owing) <= Total(counter)

ProspectingInv == ProspectingTyped /\ ChargesFit /\ LookupsHaveRows /\ Covered

LEMMA PeriodsFinite == IsFiniteSet(Periods) /\ Periods \subseteq Nat
BY FS_Interval DEF Periods

LEMMA OwingTyped == ProspectingTyped => Owing \in [Calls -> Nat]
BY DEF ProspectingTyped, Owing, Owed, Job

\* Only what one call owes changes, and one counter at most.
LEMMA OwedByOne ==
  ASSUME ProspectingTyped, ProspectingTyped', NEW u \in Calls,
         \A v \in Calls \ {u} : use'[v] = use[v] /\ job'[v] = job[v]
  PROVE  /\ Total(Owing') + Owed(u) = Total(Owing) + Owed(u)'
         /\ Total(Owing) \in Nat /\ Total(Owing') \in Nat
<1>1. Owing \in [Calls -> Nat] /\ Owing' \in [Calls -> Nat]
  <2>1. \A v \in Calls : Owed(v)' \in Nat
    BY SMTT(60) DEF ProspectingTyped, Job, Owed
  <2> QED
    BY <2>1, OwingTyped DEF Owing
<1>2. \A v \in Calls \ {u} : Owing'[v] = Owing[v]
  BY DEF Owing, Owed, UseAt
<1>3. Owing[u] = Owed(u) /\ Owing'[u] = Owed(u)'
  BY DEF Owing
<1>4. IsFiniteSet(Calls)
  BY ProspectingAssumption
<1> QED
  BY <1>1, <1>2, <1>3, <1>4, TotalChanges

LEMMA TotalOfSome ==
  ASSUME NEW D, IsFiniteSet(D), NEW f \in [D -> Nat]
  PROVE  Total(f) \in Nat
BY ZenonT(60), TotalIsSum DEF IsSum

LEMMA ProspectingInitially == ProspectingInit => ProspectingInv
<1> SUFFICES ASSUME ProspectingInit PROVE ProspectingInv
  OBVIOUS
<1>1. ProspectingTyped
  BY DEF ProspectingInit, UsageInit, ProspectingTyped, Quota, Periods, Charged, NoUse, UsePCs, Job,
         NoJob, NoConv, Conversion, JobStages, ProspectStatus
<1>2. ChargesFit /\ LookupsHaveRows
  BY DEF ProspectingInit, UsageInit, ChargesFit, LookupsHaveRows, UseAt, NoUse, NoJob, InBucket
<1>3. Owing = [u \in Calls |-> 0]
  BY DEF ProspectingInit, UsageInit, Owing, Owed, UseAt, NoUse
<1>4. Total(Owing) = 0 /\ Total(counter) = 0
  <2>1. counter = [p \in Periods |-> 0] /\ IsFiniteSet(Periods) /\ IsFiniteSet(Calls)
    BY PeriodsFinite, ProspectingAssumption DEF ProspectingInit, UsageInit
  <2> QED
    BY <1>3, <2>1, TotalOfNone
<1> QED
  BY <1>1, <1>2, <1>4 DEF Covered, ProspectingInv, ProspectingInit

\* A step that pays nothing, stores at most what a call owes no longer.
LEMMA NothingIsOwedMore ==
  ASSUME ProspectingInv, ProspectingTyped', NEW u \in Calls, counter' = counter,
         \A v \in Calls \ {u} : use'[v] = use[v] /\ job'[v] = job[v],
         Len(prospects') + Owed(u)' <= Len(prospects) + Owed(u)
  PROVE  Covered'
<1>1. /\ Total(Owing') + Owed(u) = Total(Owing) + Owed(u)'
      /\ Total(Owing) \in Nat /\ Total(Owing') \in Nat
  BY OwedByOne DEF ProspectingInv
<1>2. Total(counter) \in Nat
  BY TotalOfSome, PeriodsFinite DEF ProspectingInv, ProspectingTyped
<1>3. Owed(u) \in Nat /\ Owed(u)' \in Nat /\ Len(prospects) \in Nat /\ Len(prospects') \in Nat
  BY DEF ProspectingInv, ProspectingTyped, Owed, Job
<1>4. Len(prospects) + Total(Owing) <= Total(counter)
  BY DEF ProspectingInv, Covered
<1>5. Len(prospects') + Total(Owing') <= Total(counter)
  BY <1>1, <1>2, <1>3, <1>4
<1> QED
  BY <1>5 DEF Covered

LEMMA ChargeMade ==
  ASSUME NEW p \in Periods, NEW n \in Nat
  PROVE  [NoUse EXCEPT !.pc = "lock", !.period = p, !.amount = n] \in Charged
BY DEF NoUse, Charged, UsePCs

LEMMA ChargeMoved ==
  ASSUME NEW x \in Charged, NEW pc \in InBucket, NEW l \in Limits \cup {Unlimited}
  PROVE  [x EXCEPT !.pc = pc, !.limit = l] \in Charged
BY DEF InBucket, Charged, UsePCs

LEMMA JobMade ==
  ASSUME NEW s \in JobStages, NEW rows \in Seq(Row)
  PROVE  [NoJob EXCEPT !.status = s, !.rows = rows] \in Job
BY DEF NoJob, Job, ProspectStatus

LEMMA JobEnded ==
  ASSUME NEW s \in JobStages
  PROVE  [NoJob EXCEPT !.status = s] \in Job
BY <<>> \in Seq(Row) DEF NoJob, Job, ProspectStatus

LEMMA RowMarked ==
  ASSUME NEW p \in Prospect, NEW was
  PROVE  Remarked(p, was) \in Prospect
BY DEF Remarked, Prospect, ProspectStatus

LEMMA RowConverted ==
  ASSUME NEW p \in Prospect, NEW l \in Nat
  PROVE  [p EXCEPT !.status = "CONVERTED", !.lead = l] \in Prospect
BY DEF Prospect, ProspectStatus

LEMMA ConvertMoves ==
  ASSUME NEW x \in Conversion, NEW l \in Nat
  PROVE  /\ [pc |-> "lead", prospect |-> l, lead |-> 0] \in Conversion
         /\ [x EXCEPT !.pc = "link", !.lead = l] \in Conversion
         /\ [NoConv EXCEPT !.pc = "done"] \in Conversion
BY DEF Conversion, NoConv

LEMMA SequenceMarked ==
  ASSUME NEW S, NEW s \in Seq(S), NEW i, NEW x, i \in DOMAIN s => x \in S
  PROVE  [s EXCEPT ![i] = x] \in Seq(S) /\ Len([s EXCEPT ![i] = x]) = Len(s)
<1>1. CASE i \in 1..Len(s)
  BY <1>1, ExceptSeq
<1>2. CASE i \notin 1..Len(s)
  <2>1. DOMAIN s = 1..Len(s)
    OBVIOUS
  <2>2. [s EXCEPT ![i] = x] = s
    BY <1>2, <2>1
  <2> QED
    BY <2>2
<1> QED
  BY <1>1, <1>2

LEMMA SubmitStays ==
  ASSUME ProspectingInv, NEW u \in Calls, Submit(u)
  PROVE  ProspectingInv'
<1>0. /\ quota \in Quota /\ counter \in [Periods -> Nat] /\ month \in Periods
      /\ use \in [Calls -> Charged]
      /\ prospects \in Seq(Prospect) /\ leads \in Seq(Nat)
      /\ job \in [Calls -> Job]
      /\ conv \in [Converters -> Conversion]
  BY DEF ProspectingInv, ProspectingTyped
<1> USE <1>0
<1>1. PICK rows \in Seq(Row), s \in {"unpaid", "RUNNING"} :
        /\ Ask(u, Len(rows))
        /\ job' = [job EXCEPT ![u] = [NoJob EXCEPT !.status = s, !.rows = rows]]
  <2>1. PICK k \in Row, m \in Row, s \in {"unpaid", "RUNNING"} : \E rows \in {<<k>>, <<k, m>>} :
          /\ Ask(u, Len(rows))
          /\ job' = [job EXCEPT ![u] = [NoJob EXCEPT !.status = s, !.rows = rows]]
    BY DEF Submit, Charge
  <2>2. <<k>> \in Seq(Row) /\ <<k, m>> \in Seq(Row)
    OBVIOUS
  <2> QED
    BY <2>1, <2>2
<1>2. /\ use' = [use EXCEPT ![u] = [NoUse EXCEPT !.pc = "lock", !.period = month, !.amount = Len(rows)]]
      /\ use[u].pc = "idle" /\ UNCHANGED <<quota, counter, month>>
  BY <1>1 DEF Ask, UseAt
<1>3. UNCHANGED <<prospects, leads, conv>>
  BY DEF Submit
<1>4. ProspectingTyped'
  <2>1. PICK x \in Charged :
          x = [NoUse EXCEPT !.pc = "lock", !.period = month, !.amount = Len(rows)]
    <3>1. Len(rows) \in Nat
      OBVIOUS
    <3> QED
      BY ChargeMade, <3>1, month \in Periods, Zenon
  <2>2. PICK j \in Job : j = [NoJob EXCEPT !.status = s, !.rows = rows]
    BY JobMade, s \in JobStages, Zenon DEF JobStages
  <2>3. use' = [use EXCEPT ![u] = x] /\ job' = [job EXCEPT ![u] = j]
    BY <1>1, <1>2, <2>1, <2>2
  <2> QED
    BY <1>2, <1>3, <2>3 DEF ProspectingTyped
<1>5. ChargesFit' /\ LookupsHaveRows'
  BY <1>1, <1>2 DEF ProspectingInv, ChargesFit, LookupsHaveRows, UseAt, InBucket, NoUse, NoJob,
     Charged, Job
<1>6. Owed(u) = 0 /\ Owed(u)' = 0
  BY <1>1, <1>2 DEF Owed, UseAt, NoUse, Charged
<1>7. Covered'
  <2>1. /\ counter' = counter /\ prospects' = prospects /\ Len(prospects) \in Nat
        /\ \A v \in Calls \ {u} : use'[v] = use[v] /\ job'[v] = job[v]
    BY <1>1, <1>2, <1>3
  <2>2. Len(prospects') + Owed(u)' <= Len(prospects) + Owed(u)
    BY <1>6, <2>1
  <2> QED
    BY <1>4, <2>1, <2>2, NothingIsOwedMore
<1> QED
  BY <1>4, <1>5, <1>7 DEF ProspectingInv

LEMMA CounterGrows ==
  ASSUME counter \in [Periods -> Nat], NEW p \in Periods, NEW d \in Nat,
         counter' = [counter EXCEPT ![p] = @ + d]
  PROVE  Total(counter') = Total(counter) + d /\ Total(counter) \in Nat
<1>1. IsFiniteSet(Periods)
  BY PeriodsFinite
<1> QED
  BY ZenonT(60), <1>1, TotalGrows

LEMMA SpendStays ==
  ASSUME ProspectingInv, NEW u \in Calls, Pay(u)
  PROVE  ProspectingInv'
<1>0. /\ quota \in Quota /\ counter \in [Periods -> Nat] /\ month \in Periods
      /\ use \in [Calls -> Charged]
      /\ prospects \in Seq(Prospect) /\ leads \in Seq(Nat)
      /\ job \in [Calls -> Job]
      /\ conv \in [Converters -> Conversion]
  BY DEF ProspectingInv, ProspectingTyped
<1> USE <1>0
<1>1. UNCHANGED <<prospects, leads, job, conv>> /\ Spend(u)
  BY DEF Pay
<1>2. CASE Increment(u)
  <2> DEFINE p == use[u].period
             d == use[u].amount
  <2>1. p \in Periods /\ job[u].status \in {"unpaid", "RUNNING"} /\ d = Len(job[u].rows) /\ d \in Nat
    BY <1>2 DEF Increment, UseAt, ProspectingInv, ChargesFit, InBucket, Job
  <2>2. /\ counter' = [counter EXCEPT ![p] = @ + d]
        /\ use' = [use EXCEPT ![u] = [NoUse EXCEPT !.pc = "granted"]]
        /\ UNCHANGED <<quota, month>> /\ use[u].pc = "write"
    BY <1>2 DEF Increment, UseEnds, UseAt
  <2> HIDE DEF p, d
  <2>3. counter' \in [Periods -> Nat]
    BY <2>1, <2>2
  <2>4. ProspectingTyped'
    BY <1>1, <2>2, <2>3 DEF ProspectingTyped, Charged, UsePCs, NoUse
  <2>5. ChargesFit' /\ LookupsHaveRows'
    BY <1>1, <2>2 DEF ProspectingInv, ChargesFit, LookupsHaveRows, UseAt, InBucket, NoUse, Charged
  <2>6. Owed(u) = 0 /\ Owed(u)' = d
    BY <1>1, <2>1, <2>2 DEF Owed, UseAt, NoUse, Charged
  <2>7. /\ Total(Owing') + Owed(u) = Total(Owing) + Owed(u)'
        /\ Total(Owing) \in Nat /\ Total(Owing') \in Nat
    <3>1. \A v \in Calls \ {u} : use'[v] = use[v] /\ job'[v] = job[v]
      BY <1>1, <2>2
    <3> QED
      BY <2>4, <3>1, OwedByOne DEF ProspectingInv
  <2>8. Total(counter') = Total(counter) + d /\ Total(counter) \in Nat
    BY <2>1, <2>2, CounterGrows
  <2>9. Len(prospects) + Total(Owing) <= Total(counter) /\ Len(prospects) \in Nat
    BY DEF ProspectingInv, Covered
  <2>10. Len(prospects') + Total(Owing') <= Total(counter')
    BY SMTT(60), <1>1, <2>1, <2>6, <2>7, <2>8, <2>9
  <2> QED
    BY <2>4, <2>5, <2>10 DEF ProspectingInv, Covered
<1>3. CASE LockBucket(u) \/ ReadSubscription(u) \/ ReadCounter(u) \/ UseAborts(u)
  <2>1. /\ UNCHANGED <<quota, counter, month>>
        /\ use[u].pc \in {"lock"} \cup InBucket
        /\ \/ \E pc \in InBucket, l \in Limits \cup {Unlimited} :
                use' = [use EXCEPT ![u].pc = pc, ![u].limit = l]
           \/ use' = [use EXCEPT ![u] = [NoUse EXCEPT !.pc = "refused"]]
    <3>1. use[u].limit \in Limits \cup {Unlimited} /\ use[u] = [use[u] EXCEPT !.limit = use[u].limit]
      BY DEF Charged
    <3>2. CASE LockBucket(u)
      <4>1. use' = [use EXCEPT ![u].pc = "subscription", ![u].limit = use[u].limit]
        BY ZenonT(60), <3>1, <3>2 DEF LockBucket, UseGoto, Charged
      <4> QED
        BY <3>1, <3>2, <4>1 DEF LockBucket, UseAt, InBucket
    <3>3. CASE ReadSubscription(u)
      BY <3>3 DEF ReadSubscription, UseEnds, UseAt, InBucket, Quota
    <3>4. CASE ReadCounter(u)
      <4>1. CASE UseGoto(u, "write")
        <5>1. use' = [use EXCEPT ![u].pc = "write", ![u].limit = use[u].limit]
          BY ZenonT(60), <3>1, <4>1 DEF UseGoto, Charged
        <5> QED
          BY <3>1, <3>4, <5>1 DEF ReadCounter, UseAt, InBucket
      <4> QED
        BY <3>4, <4>1 DEF ReadCounter, UseEnds, UseAt, InBucket
    <3>5. CASE UseAborts(u)
      BY <3>5 DEF UseAborts, UseEnds, UseAt, InBucket
    <3> QED
      BY <1>3, <3>2, <3>3, <3>4, <3>5
  <2>2. CASE \E pc \in InBucket, l \in Limits \cup {Unlimited} :
               use' = [use EXCEPT ![u].pc = pc, ![u].limit = l]
    <3>1. PICK pc \in InBucket, l \in Limits \cup {Unlimited} :
               use' = [use EXCEPT ![u].pc = pc, ![u].limit = l]
      BY <2>2
    <3>6. PICK x \in Charged : x = [use[u] EXCEPT !.pc = pc, !.limit = l]
      BY ChargeMoved, use[u] \in Charged, Zenon
    <3>7. use' = [use EXCEPT ![u] = x] /\ x.pc = pc /\ x.period = use[u].period /\ x.amount = use[u].amount
      BY <3>1, <3>6 DEF Charged
    <3>2. ProspectingTyped'
      BY <1>1, <2>1, <3>6, <3>7 DEF ProspectingTyped
    <3>3. ChargesFit' /\ LookupsHaveRows'
      BY <1>1, <2>1, <3>7 DEF ProspectingInv, ChargesFit, LookupsHaveRows, UseAt, InBucket
    <3>4. Owed(u) = 0 /\ Owed(u)' = 0
      BY <1>1, <2>1, <3>7 DEF Owed, UseAt, InBucket
    <3>5. Covered'
      <4>1. \A v \in Calls \ {u} : use'[v] = use[v] /\ job'[v] = job[v]
        BY <1>1, <3>7
      <4>2. Len(prospects') + Owed(u)' <= Len(prospects) + Owed(u)
        BY <1>1, <3>4
      <4> QED
        BY <2>1, <3>2, <4>1, <4>2, NothingIsOwedMore
    <3> QED
      BY <3>2, <3>3, <3>5 DEF ProspectingInv
  <2>3. CASE use' = [use EXCEPT ![u] = [NoUse EXCEPT !.pc = "refused"]]
    <3>2. ProspectingTyped'
      BY <1>1, <2>1, <2>3 DEF ProspectingTyped, Charged, UsePCs, NoUse
    <3>3. ChargesFit' /\ LookupsHaveRows'
      BY <1>1, <2>1, <2>3 DEF ProspectingInv, ChargesFit, LookupsHaveRows, UseAt, InBucket, NoUse
    <3>4. Owed(u) = 0 /\ Owed(u)' = 0
      BY <1>1, <2>1, <2>3 DEF Owed, UseAt, NoUse, InBucket
    <3>5. Covered'
      <4>1. \A v \in Calls \ {u} : use'[v] = use[v] /\ job'[v] = job[v]
        BY <1>1, <2>3
      <4>2. Len(prospects') + Owed(u)' <= Len(prospects) + Owed(u)
        BY <1>1, <3>4
      <4> QED
        BY <2>1, <3>2, <4>1, <4>2, NothingIsOwedMore
    <3> QED
      BY <3>2, <3>3, <3>5 DEF ProspectingInv
  <2> QED
    BY <2>1, <2>2, <2>3
<1> QED
  BY <1>1, <1>2, <1>3 DEF Spend

\* A step of a job leaves the charges alone.
LEMMA JobStays ==
  ASSUME ProspectingInv, NEW u \in Calls, NEW j \in Job, job' = [job EXCEPT ![u] = j],
         UNCHANGED <<quota, counter, month, use, leads, conv>>,
         prospects' \in Seq(Prospect),
         ~ UseAt(u, {"lock"} \cup InBucket),
         j.found # 0 => j.rows # <<>>,
         Len(prospects') + Owed(u)' <= Len(prospects) + Owed(u)
  PROVE  ProspectingInv'
<1>0. /\ quota \in Quota /\ counter \in [Periods -> Nat] /\ month \in Periods
      /\ use \in [Calls -> Charged]
      /\ prospects \in Seq(Prospect) /\ leads \in Seq(Nat)
      /\ job \in [Calls -> Job]
      /\ conv \in [Converters -> Conversion]
  BY DEF ProspectingInv, ProspectingTyped
<1> USE <1>0
<1>1. ProspectingTyped'
  BY DEF ProspectingTyped
<1>2. ChargesFit' /\ LookupsHaveRows'
  BY DEF ProspectingInv, ChargesFit, LookupsHaveRows, UseAt, InBucket
<1>3. Covered'
  <2>1. \A v \in Calls \ {u} : use'[v] = use[v] /\ job'[v] = job[v]
    OBVIOUS
  <2> QED
    BY <1>1, <2>1, NothingIsOwedMore
<1> QED
  BY <1>1, <1>2, <1>3 DEF ProspectingInv

LEMMA JobStepStays ==
  ASSUME ProspectingInv, NEW u \in Calls,
         \/ Refused(u) \/ CreateJob(u) \/ FindProspect(u)
         \/ StoreProspect(u) \/ CompleteJob(u) \/ FailJob(u) \/ DropJob(u)
  PROVE  ProspectingInv'
<1>0. /\ quota \in Quota /\ counter \in [Periods -> Nat] /\ month \in Periods
      /\ use \in [Calls -> Charged]
      /\ prospects \in Seq(Prospect) /\ leads \in Seq(Nat)
      /\ job \in [Calls -> Job]
      /\ conv \in [Converters -> Conversion]
  BY DEF ProspectingInv, ProspectingTyped
<1> USE <1>0
<1>1. job[u] \in Job /\ Owed(u) \in Nat /\ Len(prospects) \in Nat
  BY DEF Owed, Job
<1>2. ASSUME NEW st \in JobStages \ {"unpaid", "RUNNING"}, JobEnds(u, st),
             UNCHANGED <<quota, counter, month, use, prospects, leads, conv>>,
             UseAt(u, {"refused", "granted"})
      PROVE  ProspectingInv'
  <2>1. PICK j \in Job : j = [NoJob EXCEPT !.status = st]
    BY JobEnded, Zenon
  <2>2. job' = [job EXCEPT ![u] = j] /\ j.found = 0
    BY <1>2, <2>1 DEF JobEnds, NoJob
  <2>3. Owed(u)' = 0
    BY <1>2, <2>1, <2>2 DEF Owed, NoJob
  <2>4. ~ UseAt(u, {"lock"} \cup InBucket)
    BY <1>2 DEF UseAt, InBucket
  <2>5. /\ j.found # 0 => j.rows # <<>>
        /\ Len(prospects') + Owed(u)' <= Len(prospects) + Owed(u)
        /\ prospects' \in Seq(Prospect)
    BY <1>1, <1>2, <2>2, <2>3
  <2> QED
    BY <1>2, <2>2, <2>4, <2>5, JobStays
<1>3. CASE Refused(u)
  BY <1>2, <1>3 DEF Refused, UseAt, JobStages
<1>4. CASE CompleteJob(u) \/ FailJob(u) \/ DropJob(u)
  BY <1>2, <1>4 DEF CompleteJob, FailJob, DropJob, Running, UseAt, JobStages
<1>5. CASE CreateJob(u)
  <2>1. PICK j \in Job : j = [job[u] EXCEPT !.status = "RUNNING"]
    BY <1>1 DEF Job, JobStages
  <2>2. job' = [job EXCEPT ![u] = j] /\ j.found = job[u].found /\ j.rows = job[u].rows
    BY <1>1, <1>5, <2>1 DEF CreateJob, Job
  <2>3. Owed(u)' = Owed(u)
    BY <1>5, <2>1, <2>2 DEF Owed, CreateJob, UseAt
  <2>4. ~ UseAt(u, {"lock"} \cup InBucket)
    BY <1>5 DEF CreateJob, UseAt, InBucket
  <2>5. /\ j.found # 0 => j.rows # <<>>
        /\ UNCHANGED <<quota, counter, month, use, prospects, leads, conv>>
    BY <1>5, <2>2 DEF CreateJob, ProspectingInv, LookupsHaveRows
  <2>6. /\ Len(prospects') + Owed(u)' <= Len(prospects) + Owed(u)
        /\ prospects' \in Seq(Prospect)
    BY <1>1, <2>3, <2>5
  <2> QED
    BY <2>2, <2>4, <2>5, <2>6, JobStays
<1>6. CASE FindProspect(u)
  <2>1. PICK f \in Nat, w \in ProspectStatus : job' = [job EXCEPT ![u].found = f, ![u].was = w]
    <3>1. CASE \E i \in Known(Head(job[u].rows)) :
                 job' = [job EXCEPT ![u].found = i, ![u].was = prospects[i].status]
      <4>1. PICK i \in Known(Head(job[u].rows)) :
                 job' = [job EXCEPT ![u].found = i, ![u].was = prospects[i].status]
        BY <3>1
      <4>2. i \in Nat /\ prospects[i].status \in ProspectStatus
        <5>1. i \in DOMAIN prospects
          BY DEF Known
        <5>2. prospects[i] \in Prospect /\ i \in Nat
          BY <5>1
        <5> QED
          BY <5>2 DEF Prospect
      <4> QED
        BY <4>1, <4>2
    <3>2. CASE job' = [job EXCEPT ![u].found = Missing]
      <4>1. job' = [job EXCEPT ![u].found = Missing, ![u].was = job[u].was]
        BY <1>1, <3>2 DEF Job
      <4>2. Missing \in Nat /\ job[u].was \in ProspectStatus
        BY <1>1, ProspectingAssumption DEF Missing, Job
      <4> QED
        BY <4>1, <4>2
    <3> QED
      BY <1>6, <3>1, <3>2 DEF FindProspect
  <2>2. PICK j \in Job : j = [job[u] EXCEPT !.found = f, !.was = w]
    BY <1>1 DEF Job
  <2>3. job' = [job EXCEPT ![u] = j] /\ j.status = job[u].status /\ j.rows = job[u].rows
    BY <1>1, <2>1, <2>2 DEF Job
  <2>4. Owed(u)' = Owed(u)
    BY <1>6, <2>3 DEF Owed, FindProspect, UseAt
  <2>5. ~ UseAt(u, {"lock"} \cup InBucket)
    BY <1>6 DEF FindProspect, Running, UseAt, InBucket
  <2>6. /\ j.found # 0 => j.rows # <<>>
        /\ UNCHANGED <<quota, counter, month, use, prospects, leads, conv>>
    BY <1>6, <2>3 DEF FindProspect
  <2>7. /\ Len(prospects') + Owed(u)' <= Len(prospects) + Owed(u)
        /\ prospects' \in Seq(Prospect)
    BY <1>1, <2>4, <2>6
  <2> QED
    BY <2>3, <2>5, <2>6, <2>7, JobStays
<1>7. CASE StoreProspect(u)
  <2>1. job[u].rows # <<>> /\ job[u].rows \in Seq(Row)
    BY <1>1, <1>7 DEF StoreProspect, ProspectingInv, LookupsHaveRows, Job
  <2>2. Tail(job[u].rows) \in Seq(Row) /\ Len(Tail(job[u].rows)) = Len(job[u].rows) - 1
    BY <2>1
  <2>3. PICK j \in Job : j = [job[u] EXCEPT !.rows = Tail(@), !.found = 0, !.was = "NEW"]
    BY <1>1, <2>2 DEF Job, ProspectStatus
  <2>4. /\ job' = [job EXCEPT ![u] = j] /\ j.status = job[u].status /\ j.found = 0
        /\ j.rows = Tail(job[u].rows)
    BY <1>1, <1>7, <2>3 DEF Job, StoreProspect
  <2>5. prospects' \in Seq(Prospect) /\ Len(prospects') <= Len(prospects) + 1
    <3>1. CASE job[u].found # Missing
      <4>1. prospects' = [prospects EXCEPT ![job[u].found] = Remarked(@, job[u].was)]
        BY <1>7, <3>1 DEF StoreProspect
      <4> DEFINE i == job[u].found
                 x == Remarked(prospects[i], job[u].was)
      <4>2. i \in DOMAIN prospects => x \in Prospect
        BY RowMarked
      <4>3. prospects' = [prospects EXCEPT ![i] = x]
        BY <4>1
      <4> HIDE DEF i, x
      <4> QED
        BY <1>1, <4>2, <4>3, SequenceMarked
    <3>2. CASE job[u].found = Missing
      <4>1. prospects' = Append(prospects, [key |-> Head(job[u].rows), status |-> "NEW", lead |-> 0])
        BY <1>7, <3>2 DEF StoreProspect
      <4>2. [key |-> Head(job[u].rows), status |-> "NEW", lead |-> 0] \in Prospect
        BY <2>1 DEF Prospect, ProspectStatus
      <4> QED
        BY <4>1, <4>2
    <3> QED
      BY <3>1, <3>2
  <2>6. /\ UNCHANGED <<quota, counter, month, use, leads, conv>>
        /\ job[u].status = "RUNNING" /\ use[u].pc = "granted"
    BY <1>7 DEF StoreProspect, Running, UseAt
  <2>7. Owed(u) = Len(job[u].rows) /\ Owed(u)' = Len(job[u].rows) - 1
    BY <2>2, <2>4, <2>6 DEF Owed, UseAt
  <2>8. ~ UseAt(u, {"lock"} \cup InBucket)
    BY <2>6 DEF UseAt, InBucket
  <2>9. Len(prospects') + Owed(u)' <= Len(prospects) + Owed(u)
    BY <1>1, <2>5, <2>7
  <2> QED
    BY <2>4, <2>5, <2>6, <2>8, <2>9, JobStays
<1> QED
  BY <1>3, <1>4, <1>5, <1>6, <1>7

LEMMA ConvertStays ==
  ASSUME ProspectingInv, NEW c \in Converters,
         \/ \E i \in 1..MaxProspects : ReadProspect(c, i)
         \/ CreateLead(c) \/ LinkLead(c) \/ DropConvert(c)
  PROVE  ProspectingInv'
<1>0. /\ quota \in Quota /\ counter \in [Periods -> Nat] /\ month \in Periods
      /\ use \in [Calls -> Charged]
      /\ prospects \in Seq(Prospect) /\ leads \in Seq(Nat)
      /\ job \in [Calls -> Job]
      /\ conv \in [Converters -> Conversion]
  BY DEF ProspectingInv, ProspectingTyped
<1> USE <1>0
<1>1. UNCHANGED <<quota, counter, month, use, job>>
  BY DEF ReadProspect, CreateLead, LinkLead, DropConvert
<1>2. prospects' \in Seq(Prospect) /\ Len(prospects') = Len(prospects)
  <2>1. CASE LinkLead(c)
    <3> DEFINE i == conv[c].prospect
               x == [prospects[i] EXCEPT !.status = "CONVERTED", !.lead = conv[c].lead]
    <3>1. i \in DOMAIN prospects => x \in Prospect
      <4>1. conv[c].lead \in Nat
        BY DEF Conversion
      <4>2. i \in DOMAIN prospects => prospects[i] \in Prospect
        OBVIOUS
      <4> HIDE DEF i
      <4> QED
        BY <4>1, <4>2, RowConverted
    <3>2. prospects' = [prospects EXCEPT ![i] = x]
      BY <2>1 DEF LinkLead
    <3>3. prospects \in Seq(Prospect)
      OBVIOUS
    <3> HIDE DEF i, x
    <3>4. [prospects EXCEPT ![i] = x] \in Seq(Prospect) /\ Len([prospects EXCEPT ![i] = x]) = Len(prospects)
      BY <3>1, <3>3, SequenceMarked
    <3> QED
      BY <3>2, <3>4, Zenon
  <2> QED
    BY <2>1 DEF ReadProspect, CreateLead, DropConvert
<1>3. conv' \in [Converters -> Conversion]
  <2>1. PICK x \in Conversion : conv' = [conv EXCEPT ![c] = x]
    <3>1. CASE \E i \in 1..MaxProspects : ReadProspect(c, i)
      <4>1. PICK i \in 1..MaxProspects :
               conv' = [conv EXCEPT ![c] = [pc |-> "lead", prospect |-> i, lead |-> 0]]
        BY <3>1 DEF ReadProspect
      <4>2. i \in Nat
        OBVIOUS
      <4>3. conv[c] \in Conversion
        OBVIOUS
      <4> QED
        BY <4>1, <4>2, <4>3, ConvertMoves
    <3>2. CASE CreateLead(c)
      <4>1. conv' = [conv EXCEPT ![c] = [conv[c] EXCEPT !.pc = "link", !.lead = Len(leads) + 1]]
        BY <3>2 DEF CreateLead
      <4>2. Len(leads) + 1 \in Nat /\ conv[c] \in Conversion
        OBVIOUS
      <4> QED
        BY <4>1, <4>2, ConvertMoves
    <3>3. CASE LinkLead(c) \/ DropConvert(c)
      <4>1. conv' = [conv EXCEPT ![c] = [NoConv EXCEPT !.pc = "done"]]
        BY <3>3 DEF LinkLead, DropConvert
      <4>2. 0 \in Nat /\ conv[c] \in Conversion
        OBVIOUS
      <4> QED
        BY <4>1, <4>2, ConvertMoves
    <3> QED
      BY <3>1, <3>2, <3>3
  <2> QED
    BY <2>1
<1>4. ChargesFit' /\ LookupsHaveRows' /\ Owing' = Owing
  BY <1>1 DEF ProspectingInv, ChargesFit, LookupsHaveRows, UseAt, Owing, Owed
<1>5. leads' \in Seq(Nat)
  <2>1. conv[c].prospect \in Nat
    BY DEF Conversion
  <2>2. leads' = leads \/ leads' = Append(leads, conv[c].prospect)
    BY DEF ReadProspect, CreateLead, LinkLead, DropConvert
  <2>3. leads \in Seq(Nat)
    OBVIOUS
  <2> DEFINE p == conv[c].prospect
  <2> HIDE DEF p
  <2>4. Append(leads, p) \in Seq(Nat)
    BY <2>1, <2>3 DEF p
  <2> QED
    BY <2>2, <2>3, <2>4, Zenon DEF p
<1>6. ProspectingTyped'
  BY <1>1, <1>2, <1>3, <1>5 DEF ProspectingTyped
<1>7. Covered'
  BY <1>1, <1>2, <1>4 DEF ProspectingInv, Covered
<1> QED
  BY <1>4, <1>6, <1>7 DEF ProspectingInv

\* No more prospects are stored than the counters of all months say
\* (RowsArePaid), for any number of jobs, rows and months.
THEOREM ProspectsArePaid == ProspectingSpec => []RowsArePaid
<1>1. ProspectingInv => RowsArePaid
  <2> SUFFICES ASSUME ProspectingInv PROVE RowsArePaid
    OBVIOUS
  <2>1. Total(Owing) \in Nat /\ Total(counter) \in Nat
    <3>1. Owing \in [Calls -> Nat] /\ IsFiniteSet(Calls)
      BY OwingTyped, ProspectingAssumption DEF ProspectingInv
    <3>2. counter \in [Periods -> Nat] /\ IsFiniteSet(Periods)
      BY PeriodsFinite DEF ProspectingInv, ProspectingTyped
    <3> QED
      BY <3>1, <3>2, TotalOfSome
  <2>2. Len(prospects) + Total(Owing) <= Total(counter) /\ Len(prospects) \in Nat
    BY DEF ProspectingInv, ProspectingTyped, Covered
  <2>3. Len(prospects) <= Total(counter)
    BY <2>1, <2>2
  <2> QED
    BY <2>3 DEF RowsArePaid, Total
<1>2. ProspectingInv /\ [ProspectingNext]_prospectingVars => ProspectingInv'
  <2> SUFFICES ASSUME ProspectingInv, [ProspectingNext]_prospectingVars PROVE ProspectingInv'
    OBVIOUS
  <2>1. CASE (SubscriptionChanges \/ TurnMonth) /\ UNCHANGED <<prospects, leads, job, conv>>
    <3>1. quota' \in Quota /\ month' \in Periods /\ UNCHANGED <<counter, use>>
      BY <2>1 DEF ProspectingInv, ProspectingTyped, SubscriptionChanges, TurnMonth, Periods
    <3> QED
      BY <2>1, <3>1 DEF ProspectingInv, ProspectingTyped, ChargesFit, LookupsHaveRows, UseAt,
         Covered, Owing, Owed
  <2>2. CASE UNCHANGED prospectingVars
    BY <2>2 DEF ProspectingInv, ProspectingTyped, ChargesFit, LookupsHaveRows, UseAt,
       Covered, Owing, Owed, prospectingVars
  <2> QED
    BY <2>1, <2>2, SubmitStays, SpendStays, JobStepStays, ConvertStays DEF ProspectingNext
<1> QED
  BY <1>1, <1>2, ProspectingInitially, PTL DEF ProspectingSpec

HIDE UsageAssumption

----------------------------------------------------------------------------
(* The agents of the page *)
(* A run that is not disturbed writes back the list the user left, and the *)
(* agent whose results it shows is enabled in that list.                   *)

AgentShape ==
  /\ shown \in Lists /\ stored \in Lists /\ asked \in Lists
  /\ agentRun \in [pc : {"idle", "sent", "again"}, of : Agents \cup {NoAgent}, list : Lists,
                   left : 0..MaxCities, found : Finds]
  /\ summary \in [of : Agents \cup {NoAgent}, results : SUBSET Places]
  /\ disturbed \in BOOLEAN

\* The page shows what it stored; a run was started for an agent of its list.
RunOfList ==
  /\ stored = shown
  /\ RunUnderWay => /\ agentRun.of \in Agents /\ agentRun.list[agentRun.of] = "on"
                    /\ ~disturbed => agentRun.list = asked

AgentInv == AgentShape /\ RunOfList /\ AgentsStay

USE AgentAssumption

LEMMA NoRunType ==
  /\ NoRun \in [pc : {"idle", "sent", "again"}, of : Agents \cup {NoAgent}, list : Lists,
                left : 0..MaxCities, found : Finds]
  /\ NoRun.pc = "idle"
BY DEF NoRun, Lists, Nothing, Finds

LEMMA AgentInitially == AgentInit => AgentInv
<1> SUFFICES ASSUME AgentInit PROVE AgentInv
  OBVIOUS
<1>1. /\ shown \in Lists /\ NoRun.list \in Lists /\ Nothing \in Finds
  BY DEF AgentInit, Lists, NoRun, Nothing, Finds
<1>2. agentRun.pc = "idle" /\ summary.of = NoAgent
  BY DEF AgentInit, NoRun, NoSummary
<1>3. AgentShape
  <2>1. NoSummary \in [of : Agents \cup {NoAgent}, results : SUBSET Places]
    BY DEF NoSummary
  <2>2. /\ shown \in Lists /\ stored = shown /\ asked = shown
        /\ agentRun = NoRun /\ summary = NoSummary /\ disturbed = FALSE
    BY <1>1 DEF AgentInit
  <2> QED
    BY <2>1, <2>2, NoRunType DEF AgentShape
<1>4. RunOfList /\ AgentsStay
  BY <1>2 DEF AgentInit, RunOfList, RunUnderWay, AgentsStay
<1> QED
  BY <1>3, <1>4 DEF AgentInv

\* What the user changes is stored as the user left it, and disturbs a run.
LEMMA ChangeKeeps ==
  ASSUME AgentInv, NEW a \in Agents, NEW state \in {"none", "on", "off"}, UserChange(a, state),
         agentRun' = agentRun, summary' \in {summary, NoSummary},
         state = "none" => summary'.of # a
  PROVE  AgentInv'
<1>1. /\ shown' = [shown EXCEPT ![a] = state] /\ stored' = shown'
      /\ asked' = [asked EXCEPT ![a] = state]
      /\ disturbed' = (disturbed \/ RunUnderWay)
  BY DEF UserChange, WriteList
<1>2. AgentShape'
  <2>1. NoSummary \in [of : Agents \cup {NoAgent}, results : SUBSET Places]
    BY DEF NoSummary
  <2> QED
    BY <1>1, <2>1 DEF AgentInv, AgentShape, Lists, RunUnderWay
<1>3. ~disturbed' => shown = asked
  BY <1>1 DEF AgentInv, AgentShape, RunOfList, AgentsStay, RunUnderWay
<1>4. RunOfList'
  BY <1>1 DEF AgentInv, RunOfList, RunUnderWay
<1>5. AgentsStay'
  <2>1. summary'.of # NoAgent => shown'[summary'.of] # "none"
    BY <1>1 DEF AgentInv, AgentShape, AgentsStay, NoSummary, Lists
  <2> QED
    BY <1>1, <1>3, <2>1 DEF AgentsStay
<1> QED
  BY <1>2, <1>4, <1>5 DEF AgentInv

LEMMA RunKeeps ==
  ASSUME AgentInv, UNCHANGED <<shown, stored, made, asked, disturbed>>,
         agentRun' \in [pc : {"idle", "sent", "again"}, of : Agents \cup {NoAgent}, list : Lists,
                        left : 0..MaxCities, found : Finds],
         \/ agentRun'.pc = "idle"
         \/ RunUnderWay /\ agentRun'.of = agentRun.of /\ agentRun'.list = agentRun.list
         \/ agentRun'.of \in Agents /\ agentRun'.list = shown /\ shown[agentRun'.of] = "on",
         summary' \in {summary, NoSummary}
  PROVE  AgentInv'
<1>1. AgentShape'
  BY DEF AgentInv, AgentShape, NoSummary
<1>2. RunOfList'
  BY DEF AgentInv, RunOfList, RunUnderWay, AgentsStay
<1>3. AgentsStay'
  BY DEF AgentInv, AgentsStay, NoSummary
<1> QED
  BY <1>1, <1>2, <1>3 DEF AgentInv

LEMMA RunEndsKeeps ==
  ASSUME AgentInv, RunEnds
  PROVE  AgentInv'
<1>1. /\ agentRun.pc = "sent" /\ agentRun' = NoRun /\ UNCHANGED <<asked, disturbed>>
      /\ shown' = agentRun.list /\ stored' = agentRun.list
      /\ summary' = [of |-> agentRun.of,
                     results |-> {p \in Places : agentRun.found[p] = "fits"}]
  BY DEF RunEnds, WriteList
<1>2. AgentShape'
  <2>1. /\ summary' \in [of : Agents \cup {NoAgent}, results : SUBSET Places]
        /\ agentRun.list \in Lists
    BY <1>1 DEF AgentInv, AgentShape
  <2> QED
    BY <1>1, <2>1, NoRunType DEF AgentInv, AgentShape
<1>3. summary'.of = agentRun.of
  BY <1>1
<1>4. RunOfList' /\ AgentsStay'
  BY <1>1, <1>3, NoRunType DEF AgentInv, RunOfList, RunUnderWay, AgentsStay
<1> QED
  BY <1>2, <1>4 DEF AgentInv

LEMMA AgentStepKeeps == AgentInv /\ [AgentNext]_agentVars => AgentInv'
<1> SUFFICES ASSUME AgentInv, [AgentNext]_agentVars PROVE AgentInv'
  OBVIOUS
<1> DEFINE RunRow == [pc : {"idle", "sent", "again"}, of : Agents \cup {NoAgent}, list : Lists,
                      left : 0..MaxCities, found : Finds]
<1>0. agentRun \in RunRow /\ shown \in Lists
  BY DEF AgentInv, AgentShape
<1>1. ASSUME NEW a \in Agents, CreateAgent(a) \/ ToggleAgent(a) \/ RemoveAgent(a)
      PROVE  AgentInv'
  <2>1. CASE CreateAgent(a)
    BY <2>1, ChangeKeeps DEF CreateAgent
  <2>2. CASE ToggleAgent(a)
    BY <2>2, ChangeKeeps DEF ToggleAgent
  <2>3. CASE RemoveAgent(a)
    <3>1. summary' \in {summary, NoSummary} /\ summary'.of # a
      BY <2>3 DEF RemoveAgent, WithoutResults, NoSummary
    <3> QED
      BY <2>3, <3>1, ChangeKeeps DEF RemoveAgent
  <2> QED
    BY <1>1, <2>1, <2>2, <2>3
<1>2. ASSUME NEW a \in Agents, NEW cities \in 1..MaxCities, RunAgent(a, cities)
      PROVE  AgentInv'
  <2>1. PICK r \in RunRow : r = [pc |-> "sent", of |-> a, list |-> shown, left |-> cities,
                                 found |-> Nothing]
    <3>1. Nothing \in Finds /\ cities \in 0..MaxCities
      BY DEF Nothing, Finds
    <3> QED
      BY <1>0, <3>1
  <2>2. r.of = a /\ r.list = shown
    BY <2>1
  <2> QED
    BY <1>2, <2>1, <2>2, RunKeeps DEF RunAgent
<1>3. ASSUME NEW more \in Finds, SearchCity(more) PROVE AgentInv'
  <2>1. Deduplicate(agentRun.found, more) \in Finds /\ agentRun.left - 1 \in 0..MaxCities
    BY <1>0, <1>3 DEF Deduplicate, Finds, SearchCity
  <2>2. PICK r \in RunRow : r = [agentRun EXCEPT !.pc = "sent", !.left = @ - 1,
                                                 !.found = Deduplicate(@, more)]
    BY <1>0, <2>1
  <2>3. r.of = agentRun.of /\ r.list = agentRun.list
    BY <1>0, <2>2
  <2> QED
    BY <1>3, <2>2, <2>3, RunKeeps DEF SearchCity, RunUnderWay
<1>4. CASE SearchUnauthorized
  <2>1. PICK r \in RunRow : r = [agentRun EXCEPT !.pc = "again"]
    BY <1>0
  <2>2. r.of = agentRun.of /\ r.list = agentRun.list
    BY <1>0, <2>1
  <2> QED
    BY <1>4, <2>1, <2>2, RunKeeps DEF SearchUnauthorized, RunUnderWay
<1>5. CASE RunFails
  BY <1>5, RunKeeps, NoRunType DEF RunFails
<1>6. CASE RunEnds
  BY <1>6, RunEndsKeeps
<1>7. CASE ReloadAgents
  <2>1. shown' = shown
    BY <1>7 DEF ReloadAgents, AgentInv, RunOfList
  <2> QED
    BY <1>7, <2>1, RunKeeps, NoRunType DEF ReloadAgents
<1>8. CASE UNCHANGED agentVars
  BY <1>8 DEF agentVars, AgentInv, AgentShape, RunOfList, RunUnderWay, AgentsStay
<1> QED
  BY <1>1, <1>2, <1>3, <1>4, <1>5, <1>6, <1>7, <1>8 DEF AgentNext

\* A run writes back the list of the render it was started in
\* (ai/page.tsx:214): with any agents, cities and places the list is as the user
\* left it unless it was changed meanwhile, and results are of an agent in it.
THEOREM AgentsStayPut == AgentSpec => []AgentsStay
<1>1. AgentInv => AgentsStay
  BY DEF AgentInv
<1> QED
  BY <1>1, AgentInitially, AgentStepKeeps, PTL DEF AgentSpec

HIDE AgentAssumption

----------------------------------------------------------------------------
(* The companies that become leads *)
(* Of a company that was not asked for again, whoever asks for it knows    *)
(* that nobody did before: no row stands for it while a call is on its     *)
(* way, and a row once it was answered, or is about to be.                 *)

USE LeadFinderAssumption

FinderShape ==
  /\ results \subseteq Companies /\ saved \subseteq Companies /\ saving \subseteq Companies
  /\ rowCalls \in [Companies -> CallStates]
  /\ bulk \in [pc : {"idle", "next", "sent", "stored"}, todo : SUBSET Companies,
               seen : SUBSET Companies, now : Companies \cup {NoCompany}]
  /\ leadRows \in [Companies -> 0..MaxCopies]
  /\ bulk.pc = "idle" => bulk.todo = {}
  /\ bulk.pc \in {"sent", "stored"} => bulk.now \in Companies

BulkAsks(c) == bulk.pc \in {"sent", "stored"} /\ bulk.now = c

\* A row that was made is answered for, or its answer is on its way.
RowsAreKnown(c) ==
  /\ rowCalls[c] = "stored" => leadRows[c] > 0
  /\ bulk.pc = "stored" /\ bulk.now = c => leadRows[c] > 0
  /\ c \in saved => leadRows[c] > 0

\* Of a company that was asked for once.
AskedOnce(c) ==
  /\ leadRows[c] <= 1
  /\ leadRows[c] > 0 =>
       c \in saved \/ rowCalls[c] = "stored" \/ (bulk.pc = "stored" /\ bulk.now = c)
  /\ rowCalls[c] # "none" \/ BulkAsks(c) => c \in saving
  /\ rowCalls[c] = "sent" => leadRows[c] = 0
  /\ BulkAsks(c) => rowCalls[c] = "none" /\ c \notin bulk.todo
  /\ bulk.pc = "sent" /\ bulk.now = c => leadRows[c] = 0
  /\ c \in bulk.todo \ bulk.seen => leadRows[c] = 0 /\ rowCalls[c] = "none" /\ ~BulkAsks(c)

FinderInv ==
  /\ FinderShape
  /\ \A c \in Companies : RowsAreKnown(c)
  /\ \A c \in Companies \ repeated : AskedOnce(c)

LEMMA FinderInitially == FinderInit => FinderInv
<1> SUFFICES ASSUME FinderInit PROVE FinderInv
  OBVIOUS
<1>1. /\ results = {} /\ saved = {} /\ saving = {} /\ repeated = {}
      /\ rowCalls = [c \in Companies |-> "none"] /\ leadRows = [c \in Companies |-> 0]
      /\ bulk.pc = "idle" /\ bulk.todo = {}
      /\ bulk \in [pc : {"idle", "next", "sent", "stored"}, todo : SUBSET Companies,
                   seen : SUBSET Companies, now : Companies \cup {NoCompany}]
  BY DEF FinderInit, NoBulk
<1>2. FinderShape
  BY <1>1 DEF FinderShape, CallStates
<1>3. ASSUME NEW c \in Companies PROVE RowsAreKnown(c) /\ AskedOnce(c)
  BY <1>1 DEF RowsAreKnown, AskedOnce, BulkAsks
<1> QED
  BY <1>2, <1>3 DEF FinderInv

\* Searching and ticking.
LEMMA LookingKeeps ==
  ASSUME FinderInv, results' \subseteq Companies,
         UNCHANGED <<saved, saving, rowCalls, bulk, leadRows, repeated>>
  PROVE  FinderInv'
<1>1. FinderShape'
  BY DEF FinderInv, FinderShape
<1>2. ASSUME NEW c \in Companies
      PROVE  RowsAreKnown(c)' /\ (c \notin repeated' => AskedOnce(c)')
  BY DEF FinderInv, RowsAreKnown, AskedOnce, BulkAsks
<1> QED
  BY <1>1, <1>2 DEF FinderInv

\* A call for the company x from its row, or its end.
LEMMA RowStepKeeps ==
  ASSUME FinderInv, NEW x \in Companies,
         SaveLead(x) \/ StoreFromRow(x) \/ RowAnswered(x) \/ RowFails(x)
  PROVE  FinderInv'
<1>0. /\ FinderShape /\ RowsAreKnown(x) /\ (x \notin repeated => AskedOnce(x))
      /\ UNCHANGED <<results, bulk>>
  BY DEF FinderInv, SaveLead, StoreFromRow, RowAnswered, RowFails
<1>1. PICK s \in CallStates : rowCalls' = [rowCalls EXCEPT ![x] = s]
  BY DEF SaveLead, StoreFromRow, RowAnswered, RowFails, CallStates
<1>2. /\ rowCalls' \in [Companies -> CallStates] /\ rowCalls'[x] = s
      /\ \A c \in Companies \ {x} : rowCalls'[c] = rowCalls[c]
  BY <1>0, <1>1 DEF FinderShape
<1>3. /\ leadRows' \in [Companies -> 0..MaxCopies]
      /\ \A c \in Companies \ {x} : leadRows'[c] = leadRows[c]
  BY <1>0 DEF FinderShape, SaveLead, StoreFromRow, RowAnswered, RowFails, MakeLead
<1>4. /\ saved' \subseteq Companies /\ saving' \subseteq Companies
      /\ \A c \in Companies \ {x} : /\ c \in saved' <=> c \in saved
                                    /\ c \in saving' <=> c \in saving
                                    /\ c \in repeated' <=> c \in repeated
  BY <1>0 DEF FinderShape, SaveLead, StoreFromRow, RowAnswered, RowFails, Succeeded, Failed
<1>5. FinderShape'
  BY <1>0, <1>2, <1>3, <1>4 DEF FinderShape
<1>6. ASSUME NEW c \in Companies \ {x}
      PROVE  RowsAreKnown(c)' /\ (c \notin repeated' => AskedOnce(c)')
  BY <1>0, <1>2, <1>3, <1>4 DEF FinderInv, RowsAreKnown, AskedOnce, BulkAsks
<1>7. leadRows[x] \in Nat
  BY <1>0 DEF FinderShape
<1>8. RowsAreKnown(x)' /\ (x \notin repeated' => AskedOnce(x)')
  <2>1. CASE SaveLead(x)
    <3>1. /\ rowCalls'[x] = "sent" /\ rowCalls[x] = "none" /\ x \notin saved \cup saving
          /\ saving' = saving \cup {x} /\ UNCHANGED <<saved, leadRows>>
          /\ x \notin repeated' => x \notin repeated /\ x \notin bulk.todo
      BY <1>0, <2>1 DEF SaveLead, Skips, FinderShape
    <3> QED
      BY <1>0, <1>7, <3>1 DEF RowsAreKnown, AskedOnce, BulkAsks
  <2>2. CASE StoreFromRow(x)
    <3>1. /\ rowCalls'[x] = "stored" /\ rowCalls[x] = "sent" /\ leadRows'[x] = leadRows[x] + 1
          /\ UNCHANGED <<saved, saving, repeated>>
      BY <1>0, <2>2 DEF StoreFromRow, MakeLead, FinderShape
    <3> QED
      BY <1>0, <1>7, <3>1 DEF RowsAreKnown, AskedOnce, BulkAsks
  <2>3. CASE RowAnswered(x)
    <3>1. /\ rowCalls'[x] = "none" /\ rowCalls[x] = "stored" /\ x \in saved'
          /\ UNCHANGED <<leadRows, repeated>>
      BY <1>0, <2>3 DEF RowAnswered, Succeeded, FinderShape
    <3> QED
      BY <1>0, <1>7, <3>1 DEF RowsAreKnown, AskedOnce, BulkAsks
  <2>4. CASE RowFails(x)
    <3>1. /\ rowCalls'[x] = "none" /\ rowCalls[x] # "none" /\ UNCHANGED <<leadRows, saved>>
          /\ x \notin repeated' => x \notin repeated /\ rowCalls[x] # "stored"
      BY <1>0, <2>4 DEF RowFails, Failed, FinderShape
    <3>2. rowCalls[x] \in {"sent", "stored"}
      BY <1>0, <3>1 DEF FinderShape, CallStates
    <3> QED
      BY <1>0, <1>7, <3>1, <3>2 DEF RowsAreKnown, AskedOnce, BulkAsks
  <2> QED
    BY <2>1, <2>2, <2>3, <2>4
<1> QED
  BY <1>5, <1>6, <1>8 DEF FinderInv

\* The loop of the selected.
LEMMA BulkStepKeeps ==
  ASSUME FinderInv,
         \/ SaveSelected \/ StoreFromBulk \/ BulkAnswered \/ BulkFails \/ BulkEnds
         \/ \E c \in Companies : BulkNext(c)
  PROVE  FinderInv'
<1> DEFINE BulkRow == [pc : {"idle", "next", "sent", "stored"}, todo : SUBSET Companies,
                       seen : SUBSET Companies, now : Companies \cup {NoCompany}]
<1>0. FinderShape /\ bulk \in BulkRow /\ \A c \in Companies : leadRows[c] \in Nat
  BY DEF FinderInv, FinderShape
<1>1. CASE SaveSelected
  <2>1. PICK r \in BulkRow : r = [pc |-> "next", todo |-> SelectedRows, seen |-> saved \cup saving,
                                  now |-> NoCompany]
    BY <1>0 DEF SelectedRows, FinderShape
  <2>2. /\ bulk' = r /\ r.pc = "next" /\ r.todo \cap saved = {} /\ r.seen = saved \cup saving
        /\ bulk.pc = "idle"
        /\ UNCHANGED <<results, saved, saving, rowCalls, leadRows, repeated>>
    BY <1>1, <2>1 DEF SaveSelected, SelectedRows
  <2>3. FinderShape'
    BY <1>0, <2>1, <2>2 DEF FinderShape
  <2>4. ASSUME NEW c \in Companies
        PROVE  RowsAreKnown(c)' /\ (c \notin repeated' => AskedOnce(c)')
    BY <1>0, <2>2 DEF FinderInv, RowsAreKnown, AskedOnce, BulkAsks
  <2> QED
    BY <2>3, <2>4 DEF FinderInv
<1>2. ASSUME NEW x \in Companies, BulkNext(x) PROVE FinderInv'
  <2>0. /\ bulk.pc = "next" /\ x \in bulk.todo
        /\ UNCHANGED <<results, saved, rowCalls, leadRows, repeated>>
    BY <1>2 DEF BulkNext
  <2>1. CASE x \in bulk.seen
    <3>1. PICK r \in BulkRow : r = [bulk EXCEPT !.todo = @ \ {x}]
      BY <1>0
    <3>2. r.pc = "next" /\ r.todo = bulk.todo \ {x} /\ r.seen = bulk.seen
      BY <1>0, <2>0, <3>1
    <3>3. bulk' = r /\ saving' = saving
      BY <1>2, <2>1, <3>1 DEF BulkNext, Skips
    <3>4. FinderShape'
      BY <1>0, <2>0, <3>2, <3>3 DEF FinderShape
    <3>5. ASSUME NEW c \in Companies
          PROVE  RowsAreKnown(c)' /\ (c \notin repeated' => AskedOnce(c)')
      BY <1>0, <2>0, <3>2, <3>3 DEF FinderInv, RowsAreKnown, AskedOnce, BulkAsks
    <3> QED
      BY <3>4, <3>5 DEF FinderInv
  <2>2. CASE x \notin bulk.seen
    <3>1. PICK r \in BulkRow : r = [bulk EXCEPT !.todo = @ \ {x}, !.pc = "sent", !.now = x]
      BY <1>0
    <3>2. r.pc = "sent" /\ r.todo = bulk.todo \ {x} /\ r.seen = bulk.seen /\ r.now = x
      BY <1>0, <3>1
    <3>3. bulk' = r /\ saving' = saving \cup {x}
      BY <1>2, <2>2, <3>1 DEF BulkNext, Skips
    <3>4. FinderShape'
      BY <1>0, <2>0, <3>2, <3>3 DEF FinderShape
    <3>5. ASSUME NEW c \in Companies
          PROVE  RowsAreKnown(c)' /\ (c \notin repeated' => AskedOnce(c)')
      BY <1>0, <2>0, <2>2, <3>2, <3>3 DEF FinderInv, RowsAreKnown, AskedOnce, BulkAsks
    <3> QED
      BY <3>4, <3>5 DEF FinderInv
  <2> QED
    BY <2>1, <2>2
<1>3. CASE StoreFromBulk
  <2>1. PICK r \in BulkRow : r = [bulk EXCEPT !.pc = "stored"]
    BY <1>0
  <2>2. r.pc = "stored" /\ r.todo = bulk.todo /\ r.seen = bulk.seen /\ r.now = bulk.now
    BY <1>0, <2>1
  <2>3. /\ bulk' = r /\ bulk.pc = "sent" /\ bulk.now \in Companies
        /\ leadRows[bulk.now] < MaxCopies
        /\ leadRows' = [leadRows EXCEPT ![bulk.now] = @ + 1]
        /\ UNCHANGED <<results, saved, saving, rowCalls, repeated>>
    BY <1>0, <1>3, <2>1 DEF StoreFromBulk, MakeLead, FinderShape
  <2>4. /\ leadRows' \in [Companies -> 0..MaxCopies]
        /\ \A c \in Companies : leadRows'[c] = IF c = bulk.now THEN leadRows[c] + 1 ELSE leadRows[c]
    BY <1>0, <2>3 DEF FinderShape
  <2>5. FinderShape'
    BY <1>0, <2>2, <2>3, <2>4 DEF FinderShape
  <2>6. ASSUME NEW c \in Companies
        PROVE  RowsAreKnown(c)' /\ (c \notin repeated' => AskedOnce(c)')
    BY <1>0, <2>2, <2>3, <2>4 DEF FinderInv, RowsAreKnown, AskedOnce, BulkAsks
  <2> QED
    BY <2>5, <2>6 DEF FinderInv
<1>4. CASE BulkAnswered \/ BulkFails
  <2>1. PICK r \in BulkRow : r = [bulk EXCEPT !.pc = "next", !.now = NoCompany]
    BY <1>0
  <2>2. r.pc = "next" /\ r.todo = bulk.todo /\ r.seen = bulk.seen
    BY <1>0, <2>1
  <2>3. /\ bulk' = r /\ bulk.pc \in {"sent", "stored"} /\ bulk.now \in Companies
        /\ saving' = saving \ {bulk.now}
        /\ UNCHANGED <<results, rowCalls, leadRows>>
    BY <1>0, <1>4, <2>1 DEF BulkAnswered, BulkFails, Succeeded, Failed, FinderShape
  <2>4. \/ bulk.pc = "stored" /\ saved' = saved \cup {bulk.now} /\ repeated' = repeated
        \/ bulk.pc = "sent" /\ saved' = saved /\ repeated' = repeated
        \/ bulk.pc = "stored" /\ saved' = saved /\ repeated' = repeated \cup {bulk.now}
    BY <1>4, <2>3 DEF BulkAnswered, BulkFails, Succeeded, Failed
  <2>5. FinderShape'
    BY <1>0, <2>2, <2>3, <2>4 DEF FinderShape
  <2>6. ASSUME NEW c \in Companies
        PROVE  RowsAreKnown(c)' /\ (c \notin repeated' => AskedOnce(c)')
    BY <1>0, <2>2, <2>3, <2>4 DEF FinderInv, RowsAreKnown, AskedOnce, BulkAsks
  <2> QED
    BY <2>5, <2>6 DEF FinderInv
<1>5. CASE BulkEnds
  <2>1. /\ bulk' = NoBulk /\ NoBulk \in BulkRow /\ NoBulk.pc = "idle" /\ NoBulk.todo = {}
        /\ bulk.pc = "next"
        /\ UNCHANGED <<results, saved, saving, rowCalls, leadRows, repeated>>
    BY <1>5 DEF BulkEnds, NoBulk
  <2>2. FinderShape'
    BY <1>0, <2>1 DEF FinderShape
  <2>3. ASSUME NEW c \in Companies
        PROVE  RowsAreKnown(c)' /\ (c \notin repeated' => AskedOnce(c)')
    BY <1>0, <2>1 DEF FinderInv, RowsAreKnown, AskedOnce, BulkAsks
  <2> QED
    BY <2>2, <2>3 DEF FinderInv
<1> QED
  BY <1>1, <1>2, <1>3, <1>4, <1>5

LEMMA FinderStepKeeps == FinderInv /\ [FinderNext]_finderVars => FinderInv'
<1> SUFFICES ASSUME FinderInv, [FinderNext]_finderVars PROVE FinderInv'
  OBVIOUS
<1>1. CASE /\ UNCHANGED <<saved, saving, rowCalls, bulk, leadRows, repeated>>
           /\ results' \subseteq Companies
  BY <1>1, LookingKeeps
<1>2. ASSUME NEW c \in Companies, SaveLead(c) \/ StoreFromRow(c) \/ RowAnswered(c) \/ RowFails(c)
      PROVE  FinderInv'
  BY <1>2, RowStepKeeps
<1>3. CASE \/ SaveSelected \/ StoreFromBulk \/ BulkAnswered \/ BulkFails \/ BulkEnds
           \/ \E c \in Companies : BulkNext(c)
  BY <1>3, BulkStepKeeps
<1>4. results \subseteq Companies
  BY DEF FinderInv, FinderShape
<1>5. ASSUME \/ StartSearch \/ \E found \in SUBSET Companies : EndSearch(found)
             \/ \E c \in Companies : ToggleSelected(c)
             \/ \E filtered \in SUBSET results : ToggleAllVisible(filtered)
      PROVE  FinderInv'
  BY <1>1, <1>4, <1>5 DEF StartSearch, EndSearch, ToggleSelected, ToggleAllVisible
<1>6. CASE UNCHANGED finderVars
  BY <1>1, <1>4, <1>6 DEF finderVars
<1> QED
  BY <1>2, <1>3, <1>5, <1>6 DEF FinderNext

\* However many companies, searches and calls overlap, a company that was not
\* asked for again becomes one lead, and what was added is there
\* (prospecting/page.tsx:327-377).
THEOREM LeadsAreMadeOnce == FinderSpec => []LeadsOnce
<1>1. FinderInv => LeadsOnce
  BY DEF FinderInv, FinderShape, RowsAreKnown, AskedOnce, LeadsOnce
<1> QED
  BY <1>1, FinderInitially, FinderStepKeeps, PTL DEF FinderSpec

HIDE LeadFinderAssumption

----------------------------------------------------------------------------
(* The conversations of a sender *)
(* A thread that a request has touched, or is about to, has a message or a *)
(* deletion that is about to remove it. Rows of threads are taken again    *)
(* only when nobody remembers them.                                        *)

USE ConversationsAssumption

MessageRow == [thread : {0} \cup ThreadIds, external : Externals \cup {Own}, used : BOOLEAN]
WriterRow == [pc : WriterPCs, external : Externals \cup {Own}, contact : {0} \cup ContactIds,
              thread : {0} \cup ThreadIds]
DeletionRow == [pc : {"idle", "count", "remove"}, thread : {0} \cup ThreadIds]

ThreadsShape ==
  /\ contacts \subseteq ContactIds
  /\ threads \in [ThreadIds -> {0} \cup ContactIds] /\ touched \subseteq ThreadIds
  /\ messages \in [MessageIds -> MessageRow]
  /\ writer \in [Writers -> WriterRow]
  /\ deletion \in [Deletions -> DeletionRow]

\* What was never stored is in no thread; only a deletion at work has one.
RowsAreFresh ==
  /\ \A m \in MessageIds : ~messages[m].used => messages[m].thread = 0
  /\ \A x \in Deletions : deletion[x].pc = "idle" => deletion[x].thread = 0

Justified(t) == Remaining(t) # {} \/ \E x \in Deletions : deletion[x].thread = t

ThreadsAreKept ==
  /\ \A t \in touched : threads[t] # 0 /\ Justified(t)
  /\ \A w \in Writers : WriterAt(w, "touch") /\ InThread(writer[w].thread) =>
       Justified(writer[w].thread)

ThreadsInv == ThreadsShape /\ RowsAreFresh /\ ThreadsAreKept

LEMMA ThreadsInitially == ConversationsInit => ThreadsInv
<1> SUFFICES ASSUME ConversationsInit PROVE ThreadsInv
  OBVIOUS
<1>1. /\ NoWriter \in WriterRow /\ NoDeletion \in DeletionRow /\ NoMessage \in MessageRow
      /\ NoWriter.pc = "idle" /\ NoDeletion.thread = 0 /\ NoMessage.thread = 0
  BY DEF NoWriter, NoDeletion, NoMessage, WriterRow, DeletionRow, MessageRow, WriterPCs
<1>2. /\ contacts = {} /\ threads = [t \in ThreadIds |-> 0] /\ touched = {}
      /\ messages = [m \in MessageIds |-> NoMessage]
      /\ writer = [w \in Writers |-> NoWriter]
      /\ deletion = [x \in Deletions |-> NoDeletion]
  BY DEF ConversationsInit
<1>3. ThreadsShape
  BY <1>1, <1>2 DEF ThreadsShape
<1>4. RowsAreFresh /\ ThreadsAreKept
  BY <1>1, <1>2 DEF RowsAreFresh, ThreadsAreKept, WriterAt
<1> QED
  BY <1>3, <1>4 DEF ThreadsInv

----------------------------------------------------------------------------
(* Storing *)

\* A request goes on without touching a thread.
LEMMA WriterGoesOn ==
  ASSUME ThreadsInv, NEW w \in Writers, NEW r \in WriterRow, writer' = [writer EXCEPT ![w] = r],
         r.pc # "touch", contacts' \subseteq ContactIds,
         UNCHANGED <<threads, touched, messages, deletion>>
  PROVE  ThreadsInv'
<1>1. ThreadsShape'
  BY DEF ThreadsInv, ThreadsShape
<1>2. RowsAreFresh'
  BY DEF ThreadsInv, RowsAreFresh
<1>3. ThreadsAreKept'
  BY DEF ThreadsInv, ThreadsShape, ThreadsAreKept, Justified, Remaining, WriterAt, InThread
<1> QED
  BY <1>1, <1>2, <1>3 DEF ThreadsInv

LEMMA NoWriterType == NoWriter \in WriterRow /\ NoWriter.pc = "idle"
BY DEF NoWriter, WriterRow, WriterPCs

LEMMA LookUpsKeep ==
  ASSUME ThreadsInv, NEW w \in Writers,
         \/ \E e \in Externals : Deliver(w, e)
         \/ Answer(w) \/ FindContact(w) \/ CreateContact(w) \/ FindThread(w) \/ InsertFails(w)
  PROVE  ThreadsInv'
<1>0. writer \in [Writers -> WriterRow] /\ contacts \subseteq ContactIds
  BY DEF ThreadsInv, ThreadsShape
<1>1. ASSUME NEW e \in Externals, Deliver(w, e) PROVE ThreadsInv'
  <2>1. PICK r \in WriterRow : r = [NoWriter EXCEPT !.pc = "contact", !.external = e]
    BY DEF NoWriter, WriterRow, WriterPCs
  <2>2. r.pc = "contact"
    BY <2>1 DEF NoWriter
  <2> QED
    BY <1>0, <1>1, <2>1, <2>2, WriterGoesOn DEF Deliver
<1>2. CASE Answer(w)
  <2>1. PICK r \in WriterRow : r = [NoWriter EXCEPT !.pc = "contact"]
    BY DEF NoWriter, WriterRow, WriterPCs
  <2>2. r.pc = "contact"
    BY <2>1 DEF NoWriter
  <2> QED
    BY <1>0, <1>2, <2>1, <2>2, WriterGoesOn DEF Answer
<1>3. ASSUME NEW pc \in WriterPCs \ {"touch"}, NEW c \in {0} \cup ContactIds,
             NEW t \in {0} \cup ThreadIds, contacts' \subseteq ContactIds,
             UNCHANGED <<threads, touched, messages, deletion>>,
             \/ writer' = [writer EXCEPT ![w].pc = pc]
             \/ writer' = [writer EXCEPT ![w].pc = pc, ![w].contact = c]
             \/ writer' = [writer EXCEPT ![w].pc = pc, ![w].thread = t]
      PROVE  ThreadsInv'
  <2>1. PICK r \in WriterRow : r.pc = pc /\ writer' = [writer EXCEPT ![w] = r]
    <3>1. CASE writer' = [writer EXCEPT ![w].pc = pc]
      <4>1. PICK r \in WriterRow : r = [writer[w] EXCEPT !.pc = pc]
        BY <1>0 DEF WriterRow
      <4> QED
        BY <1>0, <3>1, <4>1 DEF WriterRow
    <3>2. CASE writer' = [writer EXCEPT ![w].pc = pc, ![w].contact = c]
      <4>1. PICK r \in WriterRow : r = [writer[w] EXCEPT !.pc = pc, !.contact = c]
        BY <1>0 DEF WriterRow
      <4> QED
        BY <1>0, <3>2, <4>1 DEF WriterRow
    <3>3. CASE writer' = [writer EXCEPT ![w].pc = pc, ![w].thread = t]
      <4>1. PICK r \in WriterRow : r = [writer[w] EXCEPT !.pc = pc, !.thread = t]
        BY <1>0 DEF WriterRow
      <4> QED
        BY <1>0, <3>3, <4>1 DEF WriterRow
    <3> QED
      BY <1>3, <3>1, <3>2, <3>3
  <2> QED
    BY <1>3, <2>1, WriterGoesOn
<1>4. CASE FindContact(w)
  <2>1. \/ writer' = [writer EXCEPT ![w].pc = "newContact"]
        \/ \E c \in contacts : writer' = [writer EXCEPT ![w].pc = "thread", ![w].contact = c]
    BY <1>4 DEF FindContact, WriterGoto
  <2> QED
    BY <1>0, <1>3, <1>4, <2>1 DEF FindContact, WriterPCs
<1>5. CASE CreateContact(w)
  <2>1. PICK c \in ContactIds :
          /\ contacts' = contacts \cup {c}
          /\ writer' = [writer EXCEPT ![w].pc = "thread", ![w].contact = c]
    BY <1>5 DEF CreateContact
  <2>2. contacts' \subseteq ContactIds /\ UNCHANGED <<threads, touched, messages, deletion>>
    BY <1>0, <1>5, <2>1 DEF CreateContact
  <2>3. "thread" \in WriterPCs \ {"touch"}
    BY DEF WriterPCs
  <2> QED
    BY <1>3, <2>1, <2>2, <2>3
<1>6. CASE FindThread(w)
  <2>1. \/ writer' = [writer EXCEPT ![w].pc = "newThread"]
        \/ \E t \in ThreadIds : writer' = [writer EXCEPT ![w].pc = "message", ![w].thread = t]
    BY <1>6 DEF FindThread, WriterGoto
  <2> QED
    BY <1>0, <1>3, <1>6, <2>1 DEF FindThread, WriterPCs
<1>7. CASE InsertFails(w)
  BY <1>0, <1>7, NoWriterType, WriterGoesOn DEF InsertFails, WriterEnds
<1> QED
  BY <1>1, <1>2, <1>4, <1>5, <1>6, <1>7

\* A new thread takes a row that no request and no deletion remembers.
LEMMA CreateThreadKeeps ==
  ASSUME ThreadsInv, NEW w \in Writers, CreateThread(w)
  PROVE  ThreadsInv'
<1>0. ThreadsShape
  BY DEF ThreadsInv
<1>1. PICK t \in ThreadIds :
        /\ threads[t] = 0 /\ \A u \in Writers : writer[u].thread # t
        /\ threads' = [threads EXCEPT ![t] = writer[w].contact]
        /\ writer' = [writer EXCEPT ![w].pc = "message", ![w].thread = t]
  BY DEF CreateThread
<1>2. UNCHANGED <<contacts, touched, messages, deletion>>
  BY DEF CreateThread
<1>3. PICK r \in WriterRow : r = [writer[w] EXCEPT !.pc = "message", !.thread = t]
  BY <1>0 DEF ThreadsShape, WriterRow, WriterPCs
<1>4. r.pc = "message" /\ writer' = [writer EXCEPT ![w] = r]
  BY <1>0, <1>1, <1>3 DEF ThreadsShape, WriterRow
<1>5. writer[w].contact \in {0} \cup ContactIds
  BY <1>0 DEF ThreadsShape, WriterRow
<1>6. /\ threads' \in [ThreadIds -> {0} \cup ContactIds]
      /\ \A u \in ThreadIds \ {t} : threads'[u] = threads[u]
  BY <1>0, <1>1, <1>5 DEF ThreadsShape
<1>7. ThreadsShape'
  BY <1>0, <1>2, <1>4, <1>6 DEF ThreadsShape
<1>8. RowsAreFresh'
  BY <1>2 DEF ThreadsInv, RowsAreFresh
<1>9. ASSUME NEW u PROVE Justified(u)' = Justified(u)
  BY <1>2 DEF Justified, Remaining
<1>10. \A u \in touched' : threads'[u] # 0 /\ Justified(u)'
  BY <1>0, <1>1, <1>2, <1>6, <1>9 DEF ThreadsInv, ThreadsShape, ThreadsAreKept
<1>11. ASSUME NEW v \in Writers, writer'[v].pc = "touch", NEW u, u = writer'[v].thread,
              u # 0, threads'[u] # 0
       PROVE  Justified(u)'
  <2>1. v # w /\ writer'[v] = writer[v]
    BY <1>0, <1>4, <1>11 DEF ThreadsShape
  <2>2. u # t /\ u \in ThreadIds
    BY <1>0, <1>1, <1>11, <2>1 DEF ThreadsShape, WriterRow
  <2>3. threads[u] # 0
    BY <1>6, <1>11, <2>2
  <2>4. Justified(u)
    BY <1>11, <2>1, <2>3 DEF ThreadsInv, ThreadsAreKept, WriterAt, InThread
  <2> QED
    BY <1>9, <2>4
<1>12. ThreadsAreKept'
  BY <1>10, <1>11 DEF ThreadsAreKept, WriterAt, InThread
<1> QED
  BY <1>7, <1>8, <1>12 DEF ThreadsInv

\* The stored message is in its thread, and was in none before.
LEMMA InsertMessageKeeps ==
  ASSUME ThreadsInv, NEW w \in Writers, InsertMessage(w)
  PROVE  ThreadsInv'
<1>0. ThreadsShape /\ RowsAreFresh /\ ThreadsAreKept
  BY DEF ThreadsInv
<1>1. PICK t \in ThreadIds : t = writer[w].thread
  BY <1>0 DEF ThreadsShape, WriterRow, InsertMessage, InThread
<1>2. PICK m \in MessageIds :
        /\ ~messages[m].used
        /\ messages' = [messages EXCEPT ![m] =
             [thread |-> t, external |-> writer[w].external, used |-> TRUE]]
  BY <1>1 DEF InsertMessage
<1>3. UNCHANGED <<contacts, threads, touched, deletion>>
  BY DEF InsertMessage
<1>4. PICK s \in MessageRow : s = [thread |-> t, external |-> writer[w].external, used |-> TRUE]
  BY <1>0 DEF ThreadsShape, WriterRow, MessageRow
<1>5. /\ s.thread = t /\ s.used /\ messages[m].thread = 0
      /\ messages' = [messages EXCEPT ![m] = s]
  BY <1>0, <1>2, <1>4 DEF RowsAreFresh
<1>6. PICK r \in WriterRow : r = [writer[w] EXCEPT !.pc = "touch"]
  BY <1>0 DEF ThreadsShape, WriterRow, WriterPCs
<1>7. r.pc = "touch" /\ r.thread = t /\ writer' = [writer EXCEPT ![w] = r]
  BY <1>0, <1>1, <1>6 DEF ThreadsShape, WriterRow, InsertMessage, WriterGoto
<1>8. ThreadsShape'
  BY <1>0, <1>3, <1>5, <1>7 DEF ThreadsShape
<1>9. RowsAreFresh'
  BY <1>0, <1>3, <1>5 DEF RowsAreFresh, ThreadsShape
<1>10. m \in Remaining(t)'
  BY <1>0, <1>5 DEF Remaining, ThreadsShape
<1>11. ASSUME NEW u \in ThreadIds, Justified(u) PROVE Justified(u)'
  <2>0. u # 0
    BY DEF ThreadIds
  <2>1. \A n \in MessageIds : messages'[n] = IF n = m THEN s ELSE messages[n]
    BY <1>0, <1>5 DEF ThreadsShape
  <2>2. Remaining(u) \subseteq Remaining(u)'
    BY <1>5, <2>0, <2>1 DEF Remaining
  <2> QED
    BY <1>3, <1>11, <2>2 DEF Justified
<1>12. ASSUME NEW v \in Writers, writer'[v].pc = "touch", NEW u, u = writer'[v].thread,
              u # 0, threads'[u] # 0
       PROVE  Justified(u)'
  <2>1. CASE v = w
    <3>1. u = t
      BY <1>0, <1>7, <1>12, <2>1 DEF ThreadsShape
    <3> QED
      BY <1>10, <3>1 DEF Justified
  <2>2. CASE v # w
    <3>1. writer'[v] = writer[v] /\ u \in ThreadIds
      BY <1>0, <1>7, <1>12, <2>2 DEF ThreadsShape, WriterRow
    <3> QED
      BY <1>0, <1>3, <1>11, <1>12, <3>1 DEF ThreadsAreKept, WriterAt, InThread
  <2> QED
    BY <2>1, <2>2
<1>13. ThreadsAreKept'
  BY <1>0, <1>3, <1>11, <1>12 DEF ThreadsShape, ThreadsAreKept, WriterAt, InThread
<1> QED
  BY <1>8, <1>9, <1>13 DEF ThreadsInv

LEMMA TouchKeeps ==
  ASSUME ThreadsInv, NEW w \in Writers, Touch(w)
  PROVE  ThreadsInv'
<1>0. ThreadsShape /\ RowsAreFresh /\ ThreadsAreKept
  BY DEF ThreadsInv
<1>1. PICK t \in {0} \cup ThreadIds : t = writer[w].thread
  BY <1>0 DEF ThreadsShape, WriterRow
<1>2. /\ writer[w].pc = "touch" /\ writer' = [writer EXCEPT ![w] = NoWriter]
      /\ touched' = IF t # 0 /\ threads[t] # 0 THEN touched \cup {t} ELSE touched
      /\ UNCHANGED <<contacts, threads, messages, deletion>>
  BY <1>1 DEF Touch, WriterAt, WriterEnds, InThread
<1>3. ThreadsShape'
  BY <1>0, <1>2, NoWriterType DEF ThreadsShape
<1>4. RowsAreFresh'
  BY <1>0, <1>2 DEF RowsAreFresh
<1>5. ASSUME NEW u PROVE Justified(u)' = Justified(u)
  BY <1>2 DEF Justified, Remaining
<1>6. t # 0 /\ threads[t] # 0 => Justified(t)
  BY <1>0, <1>1, <1>2 DEF ThreadsAreKept, WriterAt, InThread
<1>7. \A u \in touched' : threads'[u] # 0 /\ Justified(u)'
  BY <1>0, <1>2, <1>5, <1>6 DEF ThreadsAreKept
<1>8. ASSUME NEW v \in Writers, writer'[v].pc = "touch", NEW u, u = writer'[v].thread,
             u # 0, threads'[u] # 0
      PROVE  Justified(u)'
  <2>1. writer'[v] = writer[v]
    BY <1>0, <1>2, <1>8, NoWriterType DEF ThreadsShape
  <2> QED
    BY <1>0, <1>2, <1>5, <1>8, <2>1 DEF ThreadsAreKept, WriterAt, InThread
<1>9. ThreadsAreKept'
  BY <1>7, <1>8 DEF ThreadsAreKept, WriterAt, InThread
<1> QED
  BY <1>3, <1>4, <1>9 DEF ThreadsInv

----------------------------------------------------------------------------
(* Deleting *)

\* A message or a thread is deleted: what loses its last message is about to be
\* removed, or is gone.
LEMMA DeletingKeeps ==
  ASSUME ThreadsInv, messages' \in [MessageIds -> MessageRow],
         deletion' \in [Deletions -> DeletionRow],
         \A m \in MessageIds : /\ messages'[m].used = messages[m].used
                               /\ messages'[m].thread \in {messages[m].thread, 0},
         \A x \in Deletions : deletion'[x].pc = "idle" => deletion'[x].thread = 0,
         threads' \in [ThreadIds -> {0} \cup ContactIds],
         \A t \in ThreadIds : threads'[t] \in {threads[t], 0},
         touched' \subseteq touched, \A t \in touched' : threads'[t] = threads[t],
         \A t \in ThreadIds : threads'[t] # 0 /\ Justified(t) => Justified(t)',
         UNCHANGED <<contacts, writer>>
  PROVE  ThreadsInv'
<1>0. ThreadsShape /\ RowsAreFresh /\ ThreadsAreKept
  BY DEF ThreadsInv
<1>1. ThreadsShape'
  BY <1>0 DEF ThreadsShape
<1>2. RowsAreFresh'
  BY <1>0 DEF RowsAreFresh
<1>3. \A u \in touched' : threads'[u] # 0 /\ Justified(u)'
  BY <1>0 DEF ThreadsShape, ThreadsAreKept
<1>4. ASSUME NEW v \in Writers, writer'[v].pc = "touch", NEW u, u = writer'[v].thread,
             u # 0, threads'[u] # 0
      PROVE  Justified(u)'
  <2>1. writer'[v] = writer[v] /\ u \in ThreadIds
    BY <1>0, <1>4 DEF ThreadsShape, WriterRow
  <2> QED
    BY <1>0, <1>4, <2>1 DEF ThreadsAreKept, WriterAt, InThread
<1>5. ThreadsAreKept'
  BY <1>3, <1>4 DEF ThreadsAreKept, WriterAt, InThread
<1> QED
  BY <1>1, <1>2, <1>5 DEF ThreadsInv

LEMMA DeleteMessageKeeps ==
  ASSUME ThreadsInv, NEW x \in Deletions, NEW m \in MessageIds, DeleteMessage(x, m)
  PROVE  ThreadsInv'
<1>0. ThreadsShape /\ RowsAreFresh
  BY DEF ThreadsInv
<1>1. PICK t \in ThreadIds : t = messages[m].thread
  BY <1>0 DEF ThreadsShape, MessageRow, DeleteMessage
<1>2. PICK s \in MessageRow : s = [messages[m] EXCEPT !.thread = 0]
  BY <1>0 DEF ThreadsShape, MessageRow
<1>3. s.thread = 0 /\ s.used = messages[m].used /\ messages' = [messages EXCEPT ![m] = s]
  BY <1>0, <1>2 DEF DeleteMessage, ThreadsShape, MessageRow
<1>4. PICK d \in DeletionRow : d = [pc |-> "count", thread |-> t]
  BY DEF DeletionRow
<1>5. /\ d.pc = "count" /\ d.thread = t /\ deletion' = [deletion EXCEPT ![x] = d]
      /\ deletion[x].pc = "idle" /\ UNCHANGED <<contacts, threads, touched, writer>>
  BY <1>1, <1>4 DEF DeleteMessage
<1>6. /\ messages' \in [MessageIds -> MessageRow] /\ deletion' \in [Deletions -> DeletionRow]
      /\ \A n \in MessageIds : messages'[n] = IF n = m THEN s ELSE messages[n]
      /\ \A y \in Deletions : deletion'[y] = IF y = x THEN d ELSE deletion[y]
  BY <1>0, <1>3, <1>5 DEF ThreadsShape
<1>7. ASSUME NEW u \in ThreadIds, Justified(u) PROVE Justified(u)'
  <2>1. CASE u = t
    BY <1>5, <1>6, <2>1 DEF Justified
  <2>2. CASE u # t
    <3>1. Remaining(u) \subseteq Remaining(u)'
      BY <1>1, <1>6, <2>2 DEF Remaining
    <3>2. deletion[x].thread = 0 /\ u # 0
      BY <1>0, <1>5 DEF RowsAreFresh, ThreadIds
    <3>3. CASE Remaining(u) # {}
      BY <3>1, <3>3 DEF Justified
    <3>4. CASE \E y \in Deletions : deletion[y].thread = u
      <4>1. PICK y \in Deletions : deletion[y].thread = u
        BY <3>4
      <4>2. y # x
        BY <3>2, <4>1
      <4>3. deletion'[y].thread = u
        BY <1>6, <4>1, <4>2
      <4> QED
        BY <4>3 DEF Justified
    <3> QED
      BY <1>7, <3>3, <3>4 DEF Justified
  <2> QED
    BY <2>1, <2>2
<1>8. /\ \A n \in MessageIds : /\ messages'[n].used = messages[n].used
                               /\ messages'[n].thread \in {messages[n].thread, 0}
      /\ \A y \in Deletions : deletion'[y].pc = "idle" => deletion'[y].thread = 0
  BY <1>0, <1>3, <1>5, <1>6 DEF RowsAreFresh
<1> QED
  BY <1>0, <1>5, <1>6, <1>7, <1>8, DeletingKeeps DEF ThreadsShape

LEMMA CountRemainingKeeps ==
  ASSUME ThreadsInv, NEW x \in Deletions, CountRemaining(x)
  PROVE  ThreadsInv'
<1>0. ThreadsShape /\ RowsAreFresh
  BY DEF ThreadsInv
<1>1. PICK t \in {0} \cup ThreadIds : t = deletion[x].thread
  BY <1>0 DEF ThreadsShape, DeletionRow
<1>2. PICK d \in DeletionRow :
        /\ deletion' = [deletion EXCEPT ![x] = d]
        /\ d.pc = "idle" => d.thread = 0
        /\ d.thread = t \/ Remaining(t) # {}
  <2>1. PICK d \in DeletionRow : d = [deletion[x] EXCEPT !.pc = "remove"]
    BY <1>0 DEF ThreadsShape, DeletionRow
  <2>2. d.pc = "remove" /\ d.thread = t
    BY <1>0, <1>1, <2>1 DEF ThreadsShape, DeletionRow
  <2>3. NoDeletion \in DeletionRow /\ NoDeletion.thread = 0
    BY DEF NoDeletion, DeletionRow
  <2>4. deletion' = [deletion EXCEPT ![x] = IF Remaining(t) = {} THEN d ELSE NoDeletion]
    BY <1>1, <2>1 DEF CountRemaining
  <2> QED
    BY <2>2, <2>3, <2>4
<1>3. UNCHANGED <<contacts, threads, touched, messages, writer>>
  BY DEF CountRemaining
<1>4. /\ deletion' \in [Deletions -> DeletionRow]
      /\ \A y \in Deletions : deletion'[y] = IF y = x THEN d ELSE deletion[y]
  BY <1>0, <1>2 DEF ThreadsShape
<1>5. ASSUME NEW u \in ThreadIds, Justified(u) PROVE Justified(u)'
  <2>1. Remaining(u)' = Remaining(u)
    BY <1>3 DEF Remaining
  <2> QED
    BY <1>1, <1>2, <1>4, <1>5, <2>1 DEF Justified
<1>6. \A y \in Deletions : deletion'[y].pc = "idle" => deletion'[y].thread = 0
  BY <1>0, <1>2, <1>4 DEF RowsAreFresh
<1> QED
  BY <1>0, <1>3, <1>4, <1>5, <1>6, DeletingKeeps DEF ThreadsShape

\* The row of the thread t goes, with its messages.
LEMMA CascadeKeeps ==
  ASSUME ThreadsInv, NEW t \in {0} \cup ThreadIds, Cascade(t), UNCHANGED <<contacts, writer>>,
         deletion' \in [Deletions -> DeletionRow],
         \A x \in Deletions : \/ deletion'[x] = deletion[x]
                              \/ deletion[x].thread = t /\ deletion'[x].thread = 0
  PROVE  ThreadsInv'
<1>0. ThreadsShape /\ RowsAreFresh
  BY DEF ThreadsInv
<1>1. /\ threads' = [threads EXCEPT ![t] = 0] /\ touched' = touched \ {t}
      /\ messages' = [m \in MessageIds |-> IF messages[m].thread = t
                                           THEN [messages[m] EXCEPT !.thread = 0] ELSE messages[m]]
  BY DEF Cascade
<1>2. ASSUME NEW m \in MessageIds
      PROVE  /\ messages'[m] \in MessageRow /\ messages'[m].used = messages[m].used
             /\ messages'[m].thread = IF messages[m].thread = t THEN 0 ELSE messages[m].thread
  <2>1. PICK s \in MessageRow : s = [messages[m] EXCEPT !.thread = 0]
    BY <1>0 DEF ThreadsShape, MessageRow
  <2>2. s.thread = 0 /\ s.used = messages[m].used
    BY <1>0, <2>1 DEF ThreadsShape, MessageRow
  <2>3. messages'[m] = IF messages[m].thread = t THEN s ELSE messages[m]
    BY <1>1, <2>1
  <2> QED
    BY <1>0, <2>2, <2>3 DEF ThreadsShape
<1>3. messages' \in [MessageIds -> MessageRow]
  BY <1>1, <1>2
<1>4. /\ threads' \in [ThreadIds -> {0} \cup ContactIds]
      /\ \A u \in ThreadIds : threads'[u] = IF u = t THEN 0 ELSE threads[u]
  BY <1>0, <1>1 DEF ThreadsShape
<1>5. ASSUME NEW u \in ThreadIds, threads'[u] # 0, Justified(u) PROVE Justified(u)'
  <2>1. u # t
    BY <1>4, <1>5
  <2>2. Remaining(u) \subseteq Remaining(u)'
    BY <1>2, <2>1 DEF Remaining
  <2>3. \A x \in Deletions : deletion[x].thread = u => deletion'[x].thread = u
    BY <2>1
  <2> QED
    BY <1>5, <2>2, <2>3 DEF Justified
<1>6. \A x \in Deletions : deletion'[x].pc = "idle" => deletion'[x].thread = 0
  BY <1>0 DEF RowsAreFresh
<1>7. touched' \subseteq touched /\ \A u \in touched' : threads'[u] = threads[u]
  BY <1>0, <1>1, <1>4 DEF ThreadsShape
<1>8. /\ \A m \in MessageIds : /\ messages'[m].used = messages[m].used
                               /\ messages'[m].thread \in {messages[m].thread, 0}
      /\ \A u \in ThreadIds : threads'[u] \in {threads[u], 0}
  BY <1>2, <1>4
<1> QED
  BY <1>3, <1>4, <1>5, <1>6, <1>7, <1>8, DeletingKeeps

LEMMA ConversationsStepKeeps ==
  ThreadsInv /\ [ConversationsNext]_conversationVars => ThreadsInv'
<1> SUFFICES ASSUME ThreadsInv, [ConversationsNext]_conversationVars PROVE ThreadsInv'
  OBVIOUS
<1>1. ASSUME NEW w \in Writers,
             \/ \E e \in Externals : Deliver(w, e)
             \/ Answer(w) \/ FindContact(w) \/ CreateContact(w) \/ FindThread(w) \/ CreateThread(w)
             \/ InsertFails(w) \/ InsertMessage(w) \/ Touch(w)
      PROVE  ThreadsInv'
  BY <1>1, LookUpsKeep, CreateThreadKeeps, InsertMessageKeeps, TouchKeeps
<1>2. ASSUME NEW x \in Deletions, NEW m \in MessageIds, DeleteMessage(x, m) PROVE ThreadsInv'
  BY <1>2, DeleteMessageKeeps
<1>3. ASSUME NEW x \in Deletions, CountRemaining(x) PROVE ThreadsInv'
  BY <1>3, CountRemainingKeeps
<1>4. ASSUME NEW x \in Deletions, RemoveThread(x) PROVE ThreadsInv'
  <2>1. PICK t \in {0} \cup ThreadIds : t = deletion[x].thread
    BY DEF ThreadsInv, ThreadsShape, DeletionRow
  <2>2. NoDeletion \in DeletionRow /\ NoDeletion.thread = 0
    BY DEF NoDeletion, DeletionRow
  <2>3. /\ deletion' \in [Deletions -> DeletionRow]
        /\ \A y \in Deletions : \/ deletion'[y] = deletion[y]
                                \/ deletion[y].thread = t /\ deletion'[y].thread = 0
    BY <1>4, <2>1, <2>2 DEF RemoveThread, ThreadsInv, ThreadsShape
  <2> QED
    BY <1>4, <2>1, <2>3, CascadeKeeps DEF RemoveThread
<1>5. ASSUME NEW t \in ThreadIds, DeleteThread(t) PROVE ThreadsInv'
  BY <1>5, CascadeKeeps DEF DeleteThread, ThreadsInv, ThreadsShape
<1>6. CASE UNCHANGED conversationVars
  BY <1>6 DEF conversationVars, ThreadsInv, ThreadsShape, RowsAreFresh, ThreadsAreKept, Justified,
              Remaining, WriterAt, InThread
<1> QED
  BY <1>1, <1>2, <1>3, <1>4, <1>5, <1>6 DEF ConversationsNext

\* With any number of writers, deletions, contacts and threads, a conversation
\* that had a message goes away with its last one (deleteInboxMessage).
THEOREM ThreadsGoWithTheirMessages == ConversationsSpec => []EmptyThreadsGo
<1>1. ThreadsInv => EmptyThreadsGo
  BY DEF ThreadsInv, ThreadsAreKept, Justified, EmptyThreadsGo
<1> QED
  BY <1>1, ThreadsInitially, ConversationsStepKeeps, PTL DEF ConversationsSpec

HIDE ConversationsAssumption

----------------------------------------------------------------------------
(* The screen of a lead *)
(* A change is only asked for when the newest read is over, and the newest *)
(* read is only under way before there is anything to show or while a      *)
(* change waits for it: what it saw is therefore never overtaken by a      *)
(* change of this screen.                                                  *)

LeadRow == [exists : BOOLEAN, status : LeadStatuses, notes : Nat]
ReadRow == [pc : {"idle", "sent", "found", "refused", "answered"}, saw : LeadRow]
ChangeRow == [pc : {"idle", "sent", "served", "reading"}, kind : {"none", "status", "note"},
              status : LeadStatuses, previous : LeadRow]
ScreenRow == [data : LeadRow, error : BOOLEAN, loading : BOOLEAN,
              busy : {"no", "status", "note"}]

LeadShape ==
  /\ lead \in LeadRow /\ screen \in ScreenRow /\ change \in ChangeRow
  /\ latest \in Tickets /\ reads \in [Tickets -> ReadRow]
  /\ settled \in BOOLEAN

\* What is shown but for a status the API has not taken yet.
ShownBefore ==
  IF change.pc = "sent" /\ change.kind = "status" THEN change.previous ELSE screen.data

ReadsInTurn ==
  /\ change.pc \in {"sent", "served"} => Loaded
  /\ Loaded /\ change.pc # "reading" => reads[latest].pc = "idle"

SawTheLead ==
  settled =>
    /\ reads[latest].pc = "found" =>
         lead.exists = reads[latest].saw.exists /\ lead.status = reads[latest].saw.status
    /\ reads[latest].pc = "answered" => reads[latest].saw = lead
    /\ reads[latest].pc = "idle" /\ change.pc \in {"idle", "sent"} => ShownBefore = lead

LeadInv == LeadShape /\ ReadsInTurn /\ SawTheLead

USE LeadAssumption

LEMMA LeadRows ==
  /\ NoLead \in LeadRow /\ ~NoLead.exists
  /\ NoTicket \in ReadRow /\ NoTicket.pc = "idle" /\ NoTicket.saw = NoLead
  /\ NoChange \in ChangeRow /\ NoChange.pc = "idle" /\ NoChange.kind = "none"
BY DEF NoLead, NoTicket, NoChange, LeadRow, ReadRow, ChangeRow

LEMMA LeadInitially == LeadInit => LeadInv
<1> SUFFICES ASSUME LeadInit PROVE LeadInv
  OBVIOUS
<1>1. lead \in LeadRow
  BY DEF LeadInit, LeadRow
<1>2. /\ screen \in ScreenRow /\ screen.data = NoLead
      /\ change = NoChange /\ latest = 1 /\ latest \in Tickets /\ settled \in BOOLEAN
  BY LeadRows DEF LeadInit, ScreenRow, Tickets
<1>3. PICK r \in ReadRow : r = [NoTicket EXCEPT !.pc = "sent"]
  BY LeadRows DEF ReadRow
<1>4. r.pc = "sent" /\ reads = [k \in Tickets |-> IF k = 1 THEN r ELSE NoTicket]
  BY <1>3, LeadRows DEF LeadInit, ReadRow
<1>5. reads \in [Tickets -> ReadRow] /\ reads[latest].pc = "sent"
  BY <1>2, <1>4, LeadRows
<1> QED
  BY <1>1, <1>2, <1>5, LeadRows DEF LeadInv, LeadShape, ReadsInTurn, SawTheLead, Loaded

\* A read that goes out is the newest, and has seen nothing.
LEMMA SendReadKeeps ==
  ASSUME LeadInv, SendRead, lead' \in LeadRow, screen' = screen, change' \in ChangeRow,
         ~Loaded \/ change'.pc = "reading", change'.pc \in {"sent", "served"} => Loaded
  PROVE  LeadInv'
<1>1. latest' = latest + 1 /\ latest' \in Tickets /\ settled'
  BY DEF LeadInv, LeadShape, SendRead, Tickets
<1>2. PICK r \in ReadRow : r = [reads[latest'] EXCEPT !.pc = "sent"]
  BY <1>1 DEF LeadInv, LeadShape, ReadRow
<1>3. r.pc = "sent" /\ reads' = [reads EXCEPT ![latest'] = r]
  BY <1>1, <1>2 DEF LeadInv, LeadShape, SendRead, ReadRow
<1>4. reads' \in [Tickets -> ReadRow] /\ reads'[latest'].pc = "sent"
  BY <1>1, <1>3 DEF LeadInv, LeadShape
<1> QED
  BY <1>1, <1>4 DEF LeadInv, LeadShape, ReadsInTurn, SawTheLead, Loaded

\* A read goes on; what is shown stays.
LEMMA ReadGoesOn ==
  ASSUME LeadInv, NEW k \in Tickets, NEW r \in ReadRow, reads' = [reads EXCEPT ![k] = r],
         UNCHANGED <<lead, screen, latest, change, settled>>,
         k = latest => /\ r.pc # "idle" /\ reads[k].pc # "idle"
                       /\ settled /\ r.pc = "found" =>
                            lead.exists = r.saw.exists /\ lead.status = r.saw.status
                       /\ settled /\ r.pc = "answered" => r.saw = lead
  PROVE  LeadInv'
<1>1. LeadShape'
  BY DEF LeadInv, LeadShape
<1>2. reads'[latest] = IF k = latest THEN r ELSE reads[latest]
  BY DEF LeadInv, LeadShape
<1>3. ReadsInTurn' /\ SawTheLead'
  BY <1>2 DEF LeadInv, ReadsInTurn, SawTheLead, Loaded, ShownBefore
<1> QED
  BY <1>1, <1>3 DEF LeadInv

\* A read is over; only the newest matters.
LEMMA ReadEnds ==
  ASSUME LeadInv, NEW k \in Tickets, reads' = [reads EXCEPT ![k] = NoTicket],
         reads[k].pc # "idle", change' = ChangeAfter(k), UNCHANGED <<lead, latest>>,
         screen' \in ScreenRow, settled' \in BOOLEAN,
         k # latest => screen' = screen /\ settled' = settled,
         k = latest /\ settled' => screen'.data = lead
  PROVE  LeadInv'
<1>1. LeadShape'
  BY LeadRows DEF LeadInv, LeadShape, ChangeAfter
<1>2. reads'[latest'] = IF k = latest THEN NoTicket ELSE reads[latest]
  BY DEF LeadInv, LeadShape
<1>3. CASE k # latest
  <2>1. change' = change
    BY <1>3 DEF ChangeAfter
  <2> QED
    BY <1>1, <1>2, <1>3, <2>1 DEF LeadInv, ReadsInTurn, SawTheLead, Loaded, ShownBefore
<1>4. CASE k = latest
  <2>1. change.pc \notin {"sent", "served"}
    BY <1>4 DEF LeadInv, ReadsInTurn
  <2>2. change'.pc \notin {"sent", "served", "reading"}
    BY <2>1, <1>4, LeadRows DEF ChangeAfter, LeadInv, LeadShape, ChangeRow
  <2> QED
    BY <1>1, <1>2, <1>4, <2>2, LeadRows
       DEF LeadInv, ReadsInTurn, SawTheLead, Loaded, ShownBefore
<1> QED
  BY <1>3, <1>4

LEMMA ReadsKeep ==
  ASSUME LeadInv, NEW k \in Tickets,
         FindLead(k) \/ FindActivities(k) \/ ReadAnswered(k) \/ ReadFails(k)
  PROVE  LeadInv'
<1>0. lead \in LeadRow /\ screen \in ScreenRow /\ reads[k] \in ReadRow /\ settled \in BOOLEAN
  BY DEF LeadInv, LeadShape
<1>1. CASE FindLead(k)
  <2>1. PICK r \in ReadRow : r = [pc |-> IF lead.exists THEN "found" ELSE "refused", saw |-> lead]
    BY <1>0 DEF ReadRow
  <2>2. r.pc \in {"found", "refused"} /\ r.saw = lead /\ reads' = [reads EXCEPT ![k] = r]
    BY <1>1, <2>1 DEF FindLead
  <2> QED
    BY <1>1, <2>2, ReadGoesOn DEF FindLead
<1>2. CASE FindActivities(k)
  <2>1. PICK r \in ReadRow : r = [reads[k] EXCEPT !.pc = "answered", !.saw.notes = lead.notes]
    BY <1>0 DEF ReadRow, LeadRow
  <2>2. /\ r.pc = "answered" /\ r.saw = [reads[k].saw EXCEPT !.notes = lead.notes]
        /\ reads' = [reads EXCEPT ![k] = r]
    BY <1>0, <1>2, <2>1 DEF FindActivities, ReadRow, LeadInv, LeadShape
  <2>3. ASSUME k = latest, settled PROVE r.saw = lead
    BY <1>0, <1>2, <2>2, <2>3 DEF FindActivities, LeadInv, SawTheLead, ReadRow, LeadRow
  <2> QED
    BY <1>2, <2>2, <2>3, ReadGoesOn DEF FindActivities
<1>3. CASE ReadAnswered(k)
  <2>1. Freed(screen.busy, k) \in {"no", "status", "note"}
    BY <1>0 DEF Freed, ScreenRow
  <2>2. PICK s \in ScreenRow : s = [data |-> reads[k].saw, error |-> FALSE, loading |-> FALSE,
                                    busy |-> Freed(screen.busy, k)]
    BY <1>0, <2>1 DEF ScreenRow, ReadRow
  <2>3. s.data = reads[k].saw /\ screen' = IF k = latest THEN s ELSE screen
    BY <1>3, <2>2 DEF ReadAnswered, Newest
  <2>4. k = latest /\ settled => reads[k].saw = lead
    BY <1>3 DEF ReadAnswered, LeadInv, SawTheLead
  <2>5. screen' \in ScreenRow /\ settled' = settled
    BY <1>0, <1>3, <2>3 DEF ReadAnswered
  <2>6. /\ reads' = [reads EXCEPT ![k] = NoTicket] /\ reads[k].pc # "idle"
        /\ change' = ChangeAfter(k) /\ UNCHANGED <<lead, latest>>
    BY <1>3 DEF ReadAnswered
  <2>7. /\ k # latest => screen' = screen
        /\ k = latest /\ settled' => screen'.data = lead
    BY <2>3, <2>4, <2>5
  <2> QED
    BY <1>0, <2>5, <2>6, <2>7, ReadEnds
<1>4. CASE ReadFails(k)
  <2>1. Freed(screen.busy, k) \in {"no", "status", "note"}
    BY <1>0 DEF Freed, ScreenRow
  <2>2. PICK s \in ScreenRow :
          s = [screen EXCEPT !.error = TRUE, !.loading = FALSE, !.busy = Freed(@, k)]
    BY <1>0, <2>1 DEF ScreenRow
  <2>3. screen' = IF k = latest THEN s ELSE screen
    BY <1>4, <2>2 DEF ReadFails, Newest
  <2>4. settled' = (settled /\ k # latest)
    BY <1>4 DEF ReadFails, Newest
  <2>5. screen' \in ScreenRow /\ settled' \in BOOLEAN
    BY <1>0, <2>3, <2>4
  <2>6. k # latest => settled' = settled
    BY <1>0, <2>4
  <2> QED
    BY <1>0, <1>4, <2>3, <2>4, <2>5, <2>6, ReadEnds DEF ReadFails
<1> QED
  BY <1>1, <1>2, <1>3, <1>4

LEMMA AskingKeeps ==
  ASSUME LeadInv, AddNote \/ \E s \in LeadStatuses : ChangeStatus(s)
  PROVE  LeadInv'
<1>0. /\ lead \in LeadRow /\ screen \in ScreenRow /\ change.pc = "idle"
      /\ Loaded /\ UNCHANGED <<lead, latest, reads, settled>>
  BY LeadRows DEF LeadInv, LeadShape, AddNote, ChangeStatus, Rested
<1>1. reads[latest].pc = "idle" /\ (settled => screen.data = lead)
  BY <1>0 DEF LeadInv, ReadsInTurn, SawTheLead, ShownBefore
<1>2. CASE AddNote
  <2>1. PICK r \in ChangeRow : r = [NoChange EXCEPT !.pc = "sent", !.kind = "note"]
    BY LeadRows DEF ChangeRow
  <2>2. r.pc = "sent" /\ r.kind = "note" /\ change' = r
    BY <1>2, <2>1, LeadRows DEF AddNote, ChangeRow
  <2>3. screen' \in ScreenRow /\ screen'.data = screen.data
    BY <1>0, <1>2 DEF AddNote, ScreenRow
  <2> QED
    BY <1>0, <1>1, <2>2, <2>3
       DEF LeadInv, LeadShape, ReadsInTurn, SawTheLead, ShownBefore, Loaded
<1>3. ASSUME NEW s \in LeadStatuses, ChangeStatus(s) PROVE LeadInv'
  <2>1. PICK r \in ChangeRow :
          r = [pc |-> "sent", kind |-> "status", status |-> s, previous |-> screen.data]
    BY <1>0 DEF ChangeRow, ScreenRow
  <2>2. r.pc = "sent" /\ r.kind = "status" /\ r.previous = screen.data /\ change' = r
    BY <1>3, <2>1 DEF ChangeStatus
  <2>3. PICK d \in LeadRow : d = [screen.data EXCEPT !.status = s]
    BY <1>0 DEF LeadRow, ScreenRow
  <2>4. d.exists = screen.data.exists
    BY <1>0, <2>3 DEF LeadRow, ScreenRow
  <2>5. screen' = [screen EXCEPT !.data = d, !.busy = "status"]
    BY <1>0, <1>3, <2>3 DEF ChangeStatus, ScreenRow
  <2>6. screen' \in ScreenRow /\ screen'.data = d
    BY <1>0, <2>5 DEF ScreenRow
  <2> QED
    BY <1>0, <1>1, <2>2, <2>4, <2>6
       DEF LeadInv, LeadShape, ReadsInTurn, SawTheLead, ShownBefore, Loaded
<1> QED
  BY <1>2, <1>3

LEMMA ChangesKeep ==
  ASSUME LeadInv, ServeLeadChange \/ ChangeFails \/ LeadChangedElsewhere
  PROVE  LeadInv'
<1>0. /\ lead \in LeadRow /\ screen \in ScreenRow /\ change \in ChangeRow
      /\ latest' = latest /\ reads' = reads
  BY DEF LeadInv, LeadShape, ServeLeadChange, ChangeFails, LeadChangedElsewhere
<1>1. CASE ServeLeadChange
  <2>1. PICK r \in ChangeRow : r = [change EXCEPT !.pc = "served"]
    BY <1>0 DEF ChangeRow
  <2>2. r.pc = "served" /\ change' = r /\ screen' = screen
    BY <1>0, <1>1, <2>1 DEF ServeLeadChange, ChangeRow
  <2>3. lead' \in LeadRow
    BY <1>0, <1>1 DEF ServeLeadChange, LeadRow, ChangeRow
  <2>4. Loaded /\ reads[latest].pc = "idle"
    BY <1>1 DEF ServeLeadChange, LeadInv, ReadsInTurn
  <2> QED
    BY <1>0, <1>1, <2>2, <2>3, <2>4
       DEF ServeLeadChange, LeadInv, LeadShape, ReadsInTurn, SawTheLead, Loaded
<1>2. CASE ChangeFails
  <2>1. reads[latest].pc = "idle" /\ change' = NoChange /\ lead' = lead
    BY <1>2 DEF ChangeFails, LeadInv, ReadsInTurn
  <2>2. /\ screen' \in ScreenRow
        /\ screen'.data = IF change.kind = "status" THEN change.previous ELSE screen.data
    BY <1>0, <1>2 DEF ChangeFails, ScreenRow, ChangeRow
  <2>3. settled' => settled /\ change.pc = "sent"
    BY <1>2 DEF ChangeFails
  <2>4. settled' \in BOOLEAN
    BY <1>2 DEF ChangeFails
  <2>5. settled' => screen'.data = lead
    BY <2>1, <2>2, <2>3 DEF LeadInv, SawTheLead, ShownBefore
  <2> QED
    BY <1>0, <2>1, <2>2, <2>4, <2>5, LeadRows
       DEF LeadInv, LeadShape, ReadsInTurn, SawTheLead, ShownBefore, Loaded
<1>3. CASE LeadChangedElsewhere
  <2>0. ~settled' /\ settled' \in BOOLEAN /\ UNCHANGED <<screen, change>>
    BY <1>3 DEF LeadChangedElsewhere
  <2>1. lead' \in LeadRow
    <3>1. CASE \E s \in LeadStatuses : lead' = [lead EXCEPT !.status = s]
      BY <1>0, <3>1 DEF LeadRow
    <3>2. CASE lead' = [lead EXCEPT !.notes = @ + 1]
      BY <1>0, <3>2 DEF LeadRow
    <3>3. CASE lead' = [lead EXCEPT !.exists = FALSE]
      BY <1>0, <3>3 DEF LeadRow
    <3> QED
      BY <1>3, <3>1, <3>2, <3>3 DEF LeadChangedElsewhere
  <2> QED
    BY <1>0, <2>0, <2>1 DEF LeadInv, LeadShape, ReadsInTurn, SawTheLead, Loaded
<1> QED
  BY <1>1, <1>2, <1>3

LEMMA LeadStepKeeps == LeadInv /\ [LeadNext]_leadVars => LeadInv'
<1> SUFFICES ASSUME LeadInv, [LeadNext]_leadVars PROVE LeadInv'
  OBVIOUS
<1>1. CASE Retry
  <2>1. ~Loaded /\ SendRead /\ UNCHANGED <<lead, screen, change>>
    BY <1>1 DEF Retry
  <2> QED
    BY <2>1, SendReadKeeps DEF LeadInv, LeadShape, ReadsInTurn
<1>2. CASE LeadChanged
  <2>1. SendRead /\ UNCHANGED <<lead, screen>>
    BY <1>2 DEF LeadChanged
  <2>2. PICK r \in ChangeRow : r = [change EXCEPT !.pc = "reading"]
    BY DEF LeadInv, LeadShape, ChangeRow
  <2>3. r.pc = "reading" /\ change' = r
    BY <1>2, <2>2 DEF LeadChanged, LeadInv, LeadShape, ChangeRow
  <2> QED
    BY <2>1, <2>3, SendReadKeeps DEF LeadInv, LeadShape
<1>3. CASE AddNote \/ \E s \in LeadStatuses : ChangeStatus(s)
  BY <1>3, AskingKeeps
<1>4. CASE ServeLeadChange \/ ChangeFails \/ LeadChangedElsewhere
  BY <1>4, ChangesKeep
<1>5. ASSUME NEW k \in Tickets,
             FindLead(k) \/ FindActivities(k) \/ ReadAnswered(k) \/ ReadFails(k)
      PROVE  LeadInv'
  BY <1>5, ReadsKeep
<1>6. CASE UNCHANGED leadVars
  BY <1>6 DEF leadVars, LeadInv, LeadShape, ReadsInTurn, SawTheLead, ShownBefore, Loaded
<1> QED
  BY <1>1, <1>2, <1>3, <1>4, <1>5, <1>6 DEF LeadNext

\* Once the newest read is answered and no change is under way the screen shows
\* the lead as it is, for any number of reads, notes and statuses and whatever
\* order the answers come in (lead/[id].tsx, use-resource.ts).
THEOREM ScreensCatchUp == LeadSpec => []LeadAgrees
<1>1. LeadInv => LeadAgrees
  BY LeadRows DEF LeadInv, SawTheLead, ShownBefore, LeadAgrees
<1> QED
  BY <1>1, LeadInitially, LeadStepKeeps, PTL DEF LeadSpec

HIDE LeadAssumption

----------------------------------------------------------------------------
(* The board of deals *)
(* What the newest read has seen stays true until a change of this page is *)
(* served, and the answer to that change starts a read that is newer. The  *)
(* read that makes a pipeline is the first thing that ever happens.        *)

StageRow == [pipeline : Nat, position : Positions \cup {0}]
DealRow == [status : {"none", "OPEN", "WON", "LOST", "add"}, stage : StageRow]
Rows == [first : Nat, cards : SUBSET [deal : Deals, stage : StageRow]]
RpcRow == [pc : {"idle", "sent", "none", "again", "answered"},
           ask : {"none", "load", "add", "move", "close"},
           deal : SUBSET Deals, value : DealRow, rows : Rows]

Reading == {r \in Rpcs : rpc[r].ask = "load"}

BoardShape ==
  /\ pipelines \in Nat /\ deal \in [Deals -> DealRow] /\ boardCalm \in BOOLEAN
  /\ board \in [rows : Rows, show : BOOLEAN, busy : BOOLEAN]
  /\ rpc \in [Rpcs -> RpcRow]
  /\ \A r \in Rpcs : rpc[r].pc \in {"none", "again"} => rpc[r].ask = "load"
  /\ newest \subseteq Reading /\ \A r, q \in newest : r = q

\* No deal was made, shown or asked for.
Untouched ==
  /\ board.rows = NoCards
  /\ \A d \in Deals : deal[d] = NoDeal
  /\ \A r \in Rpcs : rpc[r].ask \in {"none", "load"}

\* The page waits for nothing else, and shows nothing.
Alone(r) == board.rows = NoCards /\ \A q \in Rpcs : q # r => rpc[q].ask = "none"

FirstVisit ==
  /\ pipelines = 0 => /\ Untouched /\ \A r \in Rpcs : rpc[r].pc # "answered"
                      /\ \A r \in Reading : Alone(r)
  /\ \A r \in Rpcs : rpc[r].pc \in {"none", "again"} => Alone(r)

\* A change was made, and its answer has not come yet.
Served == {r \in Rpcs : rpc[r].ask \in {"add", "move", "close"} /\ rpc[r].pc # "sent"}

\* What is shown, or on its way to be and nothing newer is, is what is stored.
UpToDate ==
  /\ newest = {} => board.rows = RowsOf(1, {"OPEN"})
  /\ \A r \in newest : rpc[r].pc = "answered" => rpc[r].rows = RowsOf(1, {"OPEN"})

CalmBoard ==
  /\ newest = {} => pipelines # 0
  /\ \A r \in Rpcs : rpc[r].pc \in {"none", "again"} => \A d \in Deals : deal[d] = NoDeal
  /\ pipelines = 1 /\ Served = {} => UpToDate

BoardInv == BoardShape /\ FirstVisit /\ (boardCalm => CalmBoard)

USE BoardAssumption

LEMMA EmptyRows ==
  /\ NoStage \in StageRow /\ NoDeal \in DealRow /\ NoDeal.status = "none"
  /\ NoCards \in Rows /\ NoCards.first = 0 /\ NoCards.cards = {}
  /\ NoRpc \in RpcRow /\ NoRpc.pc = "idle" /\ NoRpc.ask = "none"
<1>1. NoStage \in StageRow
  BY DEF NoStage, StageRow
<1>2. NoDeal \in DealRow /\ NoDeal.status = "none"
  BY <1>1 DEF NoDeal, DealRow
<1>3. NoCards \in Rows /\ NoCards.first = 0 /\ NoCards.cards = {}
  BY DEF NoCards, Rows
<1> QED
  BY <1>1, <1>2, <1>3 DEF NoRpc, RpcRow

LEMMA RowsAreTyped ==
  ASSUME BoardShape, NEW p \in Nat, NEW S
  PROVE  RowsOf(p, S) \in Rows
BY DEF BoardShape, RowsOf, Rows, DealRow

\* A request of the page begins, ends or goes on: the others stay.
LEMMA RpcChanges ==
  ASSUME BoardShape, NEW r \in Rpcs, NEW x \in RpcRow, rpc' = [rpc EXCEPT ![r] = x]
  PROVE  /\ rpc' \in [Rpcs -> RpcRow]
         /\ \A q \in Rpcs : rpc'[q] = IF q = r THEN x ELSE rpc[q]
BY DEF BoardShape

LEMMA BoardInitially == BoardInit => BoardInv
<1> SUFFICES ASSUME BoardInit PROVE BoardInv
  OBVIOUS
<1>1. /\ \A r \in Rpcs : rpc[r] = NoRpc
      /\ \A d \in Deals : deal[d] = NoDeal
      /\ board.rows = NoCards /\ newest = {} /\ boardCalm = FALSE /\ pipelines \in Nat
  BY DEF BoardInit
<1>2. /\ rpc \in [Rpcs -> RpcRow] /\ deal \in [Deals -> DealRow]
      /\ board \in [rows : Rows, show : BOOLEAN, busy : BOOLEAN]
  BY EmptyRows DEF BoardInit
<1>3. BoardShape
  BY <1>1, <1>2, EmptyRows DEF BoardShape
<1>4. /\ Untouched /\ Reading = {}
      /\ \A r \in Rpcs : rpc[r].pc \notin {"none", "again", "answered"}
  BY <1>1, EmptyRows DEF Untouched, Reading
<1> QED
  BY <1>1, <1>3, <1>4 DEF BoardInv, FirstVisit

----------------------------------------------------------------------------
(* Reads *)

\* A read begins and is the newest: the first, or after a change was answered.
LEMMA LoadKeeps ==
  ASSUME BoardInv, NEW r \in Rpcs, NEW ask, LoadBoard(r, ask),
         UNCHANGED <<pipelines, deal>>, board' \in [rows : Rows, show : BOOLEAN, busy : BOOLEAN],
         board'.rows = board.rows,
         \/ board.rows = NoCards /\ \A q \in Rpcs : rpc[q] = NoRpc
         \/ rpc[r].ask \in {"add", "move", "close"}
  PROVE  BoardInv'
<1>0. BoardShape /\ pipelines \in Nat
  BY DEF BoardInv, BoardShape
<1>1. PICK x \in RpcRow : x = [NoRpc EXCEPT !.pc = "sent", !.ask = "load",
                                 !.value.status = IF ask = "add" THEN ask ELSE "none"]
  BY EmptyRows DEF RpcRow, DealRow
<1>2. x.pc = "sent" /\ x.ask = "load"
  BY <1>1, EmptyRows DEF RpcRow
<1>3. rpc' = [rpc EXCEPT ![r] = x]
  BY <1>1 DEF LoadBoard
<1>4. rpc' \in [Rpcs -> RpcRow] /\ \A q \in Rpcs : rpc'[q] = IF q = r THEN x ELSE rpc[q]
  BY <1>0, <1>3, RpcChanges
<1>5. newest' = {r} /\ boardCalm' = TRUE
  BY DEF LoadBoard
<1>6. BoardShape'
  BY <1>0, <1>2, <1>4, <1>5 DEF BoardShape, Reading
\* No read makes a pipeline: it would be the only thing under way.
<1>7. \A q \in Rpcs : rpc'[q].pc \notin {"none", "again"}
  <2>1. ASSUME NEW q \in Rpcs, q # r PROVE rpc[q].pc \notin {"none", "again"}
    <3>1. CASE rpc[q] = NoRpc
      BY <3>1, EmptyRows
    <3>2. CASE rpc[r].ask \in {"add", "move", "close"}
      BY <2>1, <3>2 DEF BoardInv, FirstVisit, Alone
    <3> QED
      BY <3>1, <3>2
  <2> QED
    BY <1>2, <1>4, <2>1
<1>8. FirstVisit'
  <2>1. ASSUME pipelines = 0
        PROVE  /\ Untouched' /\ \A q \in Rpcs : rpc'[q].pc # "answered"
               /\ \A q \in Reading' : Alone(q)'
    <3>1. Untouched /\ \A q \in Rpcs : rpc[q].pc # "answered"
      BY <2>1 DEF BoardInv, FirstVisit
    <3>2. \A q \in Rpcs : rpc[q] = NoRpc
      BY <3>1 DEF Untouched
    <3>3. \A q \in Rpcs : q # r => rpc'[q].ask = "none"
      BY <1>4, <3>2, EmptyRows
    <3>4. board'.rows = NoCards /\ Reading' = {r}
      BY <1>2, <1>4, <3>1, <3>3 DEF Untouched, Reading
    <3> QED
      BY <1>2, <1>4, <3>1, <3>3, <3>4 DEF Untouched, Alone
  <2> QED
    BY <1>7, <2>1 DEF FirstVisit
<1>9. CalmBoard'
  <2>1. UpToDate'
    BY <1>2, <1>4, <1>5 DEF UpToDate
  <2> QED
    BY <1>5, <1>7, <2>1 DEF CalmBoard
<1> QED
  BY <1>6, <1>8, <1>9 DEF BoardInv

LEMMA OpenKeeps ==
  ASSUME BoardInv, NEW r \in Rpcs, OpenBoard(r)
  PROVE  BoardInv'
<1>1. /\ LoadBoard(r, "open") /\ UNCHANGED <<pipelines, deal>> /\ board' = board
      /\ board.rows = NoCards /\ \A q \in Rpcs : rpc[q] = NoRpc
  BY DEF OpenBoard
<1>2. board' \in [rows : Rows, show : BOOLEAN, busy : BOOLEAN] /\ board'.rows = board.rows
  BY <1>1 DEF BoardInv, BoardShape
<1> QED
  BY <1>1, <1>2, LoadKeeps

LEMMA ReadKeeps ==
  ASSUME BoardInv, NEW r \in Rpcs, BoardRead(r)
  PROVE  BoardInv'
<1>0. /\ BoardShape /\ rpc[r].ask = "load" /\ UNCHANGED <<pipelines, deal>>
      /\ rpc' = [rpc EXCEPT ![r] = NoRpc] /\ rpc[r] \in RpcRow
      /\ board \in [rows : Rows, show : BOOLEAN, busy : BOOLEAN]
      /\ newest' = newest \ {r} /\ boardCalm \in BOOLEAN
  BY DEF BoardInv, BoardShape, BoardRead
<1>1. rpc' \in [Rpcs -> RpcRow] /\ \A q \in Rpcs : rpc'[q] = IF q = r THEN NoRpc ELSE rpc[q]
  BY <1>0, RpcChanges, EmptyRows
<1>2. PICK given \in Rows, busy \in BOOLEAN :
        /\ board' = [board EXCEPT !.rows = given, !.busy = busy]
        /\ \/ /\ rpc[r].pc = "answered" /\ given = rpc[r].rows
              /\ boardCalm' = (boardCalm /\ newest # {})
           \/ given = NoCards /\ boardCalm' = (boardCalm /\ newest \ {r} # {})
  <2>1. (board.busy /\ rpc[r].value.status # "add") \in BOOLEAN /\ rpc[r].rows \in Rows
    BY <1>0 DEF RpcRow
  <2>2. PICK b \in BOOLEAN : b = (board.busy /\ rpc[r].value.status # "add")
    BY <2>1
  <2>3. \/ /\ rpc[r].pc = "answered"
           /\ board' = [board EXCEPT !.rows = rpc[r].rows, !.busy = b]
           /\ boardCalm' = (boardCalm /\ newest # {})
        \/ /\ board' = [board EXCEPT !.rows = NoCards, !.busy = b]
           /\ boardCalm' = (boardCalm /\ newest \ {r} # {})
    BY <2>2 DEF BoardRead
  <2> QED
    BY <2>1, <2>3, EmptyRows
<1>3. board' \in [rows : Rows, show : BOOLEAN, busy : BOOLEAN] /\ board'.rows = given
  BY <1>0, <1>2
<1>4. newest' \subseteq Reading' /\ boardCalm' \in BOOLEAN /\ \A x, y \in newest' : x = y
  <2>1. newest \subseteq Reading /\ \A x, y \in newest : x = y
    BY <1>0 DEF BoardShape
  <2>2. boardCalm' \in BOOLEAN
    BY <1>0, <1>2
  <2> QED
    BY <1>0, <1>1, <2>1, <2>2 DEF Reading
<1>5. BoardShape'
  BY <1>0, <1>1, <1>3, <1>4, EmptyRows DEF BoardShape
<1>6. FirstVisit'
  <2>1. ASSUME pipelines' = 0
        PROVE  /\ Untouched' /\ \A q \in Rpcs : rpc'[q].pc # "answered"
               /\ \A q \in Reading' : Alone(q)'
    <3>1. Untouched /\ (\A q \in Rpcs : rpc[q].pc # "answered") /\ Alone(r)
      BY <1>0, <2>1 DEF BoardInv, FirstVisit, Reading
    <3>2. given = NoCards
      BY <1>2, <3>1
    <3> QED
      BY <1>0, <1>1, <1>3, <3>1, <3>2, EmptyRows DEF Untouched, Alone, Reading
  <2>2. ASSUME NEW q \in Rpcs, rpc'[q].pc \in {"none", "again"} PROVE Alone(q)'
    <3>1. q # r /\ rpc[q].pc \in {"none", "again"}
      BY <1>1, <2>2, EmptyRows
    <3> QED
      BY <1>0, <3>1 DEF BoardInv, FirstVisit, Alone
  <2> QED
    BY <2>1, <2>2 DEF FirstVisit
<1>7. ASSUME boardCalm' PROVE CalmBoard'
  <2>1. CalmBoard /\ newest # {}
    BY <1>2, <1>7 DEF BoardInv
  <2>2. newest \ {r} # {} \/ (rpc[r].pc = "answered" /\ given = rpc[r].rows)
    BY <1>2, <1>7
  <2>3. newest' = {} => pipelines' # 0
    BY <1>0, <2>2 DEF BoardInv, FirstVisit
  <2>4. \A q \in Rpcs : rpc'[q].pc \in {"none", "again"} => rpc[q].pc \in {"none", "again"}
    BY <1>1, EmptyRows
  <2>5. Served' = Served
    BY <1>0, <1>1, EmptyRows DEF Served
  <2>6. ASSUME pipelines' = 1, Served' = {} PROVE UpToDate'
    <3>1. UpToDate /\ RowsOf(1, {"OPEN"})' = RowsOf(1, {"OPEN"})
      BY <1>0, <2>1, <2>5, <2>6 DEF CalmBoard, RowsOf
    <3>2. CASE newest \ {r} = {}
      <4>1. r \in newest /\ given = RowsOf(1, {"OPEN"})
        BY <2>1, <2>2, <3>1, <3>2 DEF UpToDate
      <4> QED
        BY <1>0, <1>3, <3>1, <3>2, <4>1 DEF UpToDate
    <3>3. CASE newest \ {r} # {}
      <4>1. \A q \in newest' : q \in newest /\ q \in Rpcs /\ q # r
        BY <1>0 DEF BoardShape, Reading
      <4> QED
        BY <1>0, <1>1, <3>1, <3>3, <4>1 DEF UpToDate
    <3> QED
      BY <3>2, <3>3
  <2> QED
    BY <1>0, <2>1, <2>3, <2>4, <2>6 DEF CalmBoard
<1> QED
  BY <1>5, <1>6, <1>7 DEF BoardInv

\* A statement of the read r answers or goes on, while the rest stays.
LEMMA StatementRow ==
  ASSUME BoardShape, NEW r \in Rpcs, NEW pc \in {"idle", "sent", "none", "again", "answered"},
         NEW rows \in Rows, BoardGoto(r, pc, rows), board' = board
  PROVE  /\ rpc' \in [Rpcs -> RpcRow]
         /\ rpc'[r].pc = pc /\ rpc'[r].rows = rows /\ rpc'[r].ask = rpc[r].ask
         /\ \A q \in Rpcs : q # r => rpc'[q] = rpc[q]
         /\ \A q \in Rpcs : rpc'[q].ask = rpc[q].ask
         /\ Reading' = Reading /\ \A q \in Rpcs : Alone(q)' <=> Alone(q)
<1>1. rpc[r] \in RpcRow
  BY DEF BoardShape
<1>2. PICK x \in RpcRow : x = [rpc[r] EXCEPT !.pc = pc, !.rows = rows]
  BY <1>1 DEF RpcRow
<1>3. x.pc = pc /\ x.rows = rows /\ x.ask = rpc[r].ask
  BY <1>1, <1>2 DEF RpcRow
<1>4. rpc' = [rpc EXCEPT ![r] = x]
  BY <1>1, <1>2 DEF BoardGoto, BoardShape
<1>5. rpc' \in [Rpcs -> RpcRow] /\ \A q \in Rpcs : rpc'[q] = IF q = r THEN x ELSE rpc[q]
  BY <1>4, RpcChanges
<1>6. rpc'[r].ask = rpc[r].ask /\ \A q \in Rpcs : rpc'[q].ask = rpc[q].ask
  BY <1>3, <1>5
<1>7. Reading' = Reading /\ \A q \in Rpcs : Alone(q)' <=> Alone(q)
  BY <1>6 DEF Reading, Alone
<1> QED
  BY <1>3, <1>5, <1>6, <1>7

LEMMA FindKeeps ==
  ASSUME BoardInv, NEW r \in Rpcs, FindPipelines(r)
  PROVE  BoardInv'
<1>0. /\ BoardShape /\ FirstVisit /\ rpc[r].ask = "load" /\ rpc[r].pc = "sent" /\ r \in Reading
      /\ UNCHANGED <<pipelines, deal, board, newest, boardCalm>>
  BY DEF BoardInv, FindPipelines, historyOfBoard, Reading
<1>1. CASE pipelines = 0
  <2>1. BoardGoto(r, "none", NoCards)
    BY <1>1 DEF FindPipelines
  <2>2. /\ rpc' \in [Rpcs -> RpcRow] /\ rpc'[r].pc = "none" /\ rpc'[r].ask = rpc[r].ask
        /\ \A q \in Rpcs : q # r => rpc'[q] = rpc[q]
        /\ \A q \in Rpcs : rpc'[q].ask = rpc[q].ask
        /\ Reading' = Reading /\ \A q \in Rpcs : Alone(q)' <=> Alone(q)
    BY <1>0, <2>1, EmptyRows, StatementRow
  <2>3. BoardShape'
    BY <1>0, <2>2 DEF BoardShape
  <2>4. Untouched /\ Alone(r) /\ \A q \in Rpcs : rpc[q].pc # "answered"
    BY <1>0, <1>1 DEF FirstVisit
  <2>5. Untouched' /\ \A q \in Rpcs : rpc'[q].pc # "answered"
    BY <1>0, <2>2, <2>4 DEF Untouched
  <2>6. \A q \in Rpcs : rpc'[q].pc \in {"none", "again"} => Alone(q)'
    BY <1>0, <2>2, <2>4 DEF FirstVisit
  <2>7. \A q \in Reading' : Alone(q)'
    BY <1>0, <1>1, <2>2 DEF FirstVisit, Reading
  <2>8. CalmBoard => CalmBoard'
    BY <1>0, <1>1, <2>5 DEF CalmBoard, Untouched
  <2> QED
    BY <1>0, <2>3, <2>5, <2>6, <2>7, <2>8 DEF BoardInv, FirstVisit
<1>2. CASE pipelines # 0
  <2>1. BoardGoto(r, "answered", RowsOf(1, {"OPEN"})) /\ RowsOf(1, {"OPEN"}) \in Rows
    BY <1>0, <1>2, RowsAreTyped DEF FindPipelines
  <2>2. /\ rpc' \in [Rpcs -> RpcRow] /\ rpc'[r].pc = "answered" /\ rpc'[r].ask = rpc[r].ask
        /\ rpc'[r].rows = RowsOf(1, {"OPEN"})
        /\ \A q \in Rpcs : q # r => rpc'[q] = rpc[q]
        /\ \A q \in Rpcs : rpc'[q].ask = rpc[q].ask
        /\ Reading' = Reading /\ \A q \in Rpcs : Alone(q)' <=> Alone(q)
    BY <1>0, <2>1, StatementRow
  <2>3. BoardShape'
    BY <1>0, <2>2 DEF BoardShape
  <2>4. \A q \in Rpcs : rpc'[q].pc \in {"none", "again"} => rpc[q].pc \in {"none", "again"}
    BY <2>2
  <2>5. FirstVisit'
    BY <1>0, <1>2, <2>2, <2>4 DEF FirstVisit
  <2>6. Served' = Served
    BY <1>0, <2>2 DEF Served
  <2>7. RowsOf(1, {"OPEN"})' = RowsOf(1, {"OPEN"})
    BY <1>0 DEF RowsOf
  <2>8. newest \subseteq Rpcs
    BY <1>0 DEF BoardShape, Reading
  <2>9. UpToDate => UpToDate'
    BY <1>0, <2>2, <2>7, <2>8 DEF UpToDate
  <2>10. CalmBoard => CalmBoard'
    BY <1>0, <2>4, <2>6, <2>9 DEF CalmBoard
  <2> QED
    BY <1>0, <2>3, <2>5, <2>10 DEF BoardInv
<1> QED
  BY <1>1, <1>2

LEMMA CreateKeeps ==
  ASSUME BoardInv, NEW r \in Rpcs, CreatePipeline(r)
  PROVE  BoardInv'
<1>0. /\ BoardShape /\ FirstVisit /\ rpc[r].pc = "none" /\ rpc[r].ask = "load" /\ Alone(r)
      /\ pipelines' = pipelines + 1 /\ pipelines \in Nat
      /\ BoardGoto(r, "again", NoCards) /\ UNCHANGED <<deal, board, newest, boardCalm>>
  BY DEF BoardInv, BoardShape, CreatePipeline, FirstVisit, historyOfBoard
<1>1. /\ rpc' \in [Rpcs -> RpcRow] /\ rpc'[r].pc = "again" /\ rpc'[r].ask = rpc[r].ask
      /\ \A q \in Rpcs : q # r => rpc'[q] = rpc[q]
      /\ \A q \in Rpcs : rpc'[q].ask = rpc[q].ask
      /\ Reading' = Reading /\ \A q \in Rpcs : Alone(q)' <=> Alone(q)
  BY <1>0, EmptyRows, StatementRow
<1>2. pipelines' \in Nat /\ pipelines' # 0 /\ (pipelines' = 1 => pipelines = 0)
  BY <1>0
<1>3. BoardShape'
  BY <1>0, <1>1, <1>2 DEF BoardShape
<1>4. FirstVisit'
  BY <1>0, <1>1, <1>2 DEF FirstVisit
<1>5. newest \subseteq {r}
  BY <1>0 DEF BoardShape, Reading, Alone
<1>6. ASSUME CalmBoard PROVE CalmBoard'
  <2>1. \A d \in Deals : deal[d] = NoDeal
    BY <1>0, <1>6 DEF CalmBoard
  <2>2. pipelines' = 1 => UpToDate'
    BY <1>0, <1>1, <1>2, <1>5, <1>6 DEF CalmBoard, UpToDate
  <2> QED
    BY <1>0, <1>2, <2>1, <2>2 DEF CalmBoard
<1> QED
  BY <1>0, <1>3, <1>4, <1>6 DEF BoardInv

LEMMA AgainKeeps ==
  ASSUME BoardInv, NEW r \in Rpcs, FindAgain(r)
  PROVE  BoardInv'
<1>0. /\ BoardShape /\ FirstVisit /\ rpc[r].pc = "again" /\ rpc[r].ask = "load"
      /\ pipelines \in Nat /\ UNCHANGED <<pipelines, deal, board, newest, boardCalm>>
  BY DEF BoardInv, BoardShape, FindAgain, historyOfBoard
<1>1. PICK p \in 1..pipelines : BoardGoto(r, "answered", RowsOf(p, {"OPEN", "WON", "LOST"}))
  BY DEF FindAgain
<1>2. p \in Nat /\ pipelines # 0 /\ (pipelines = 1 => p = 1)
  BY <1>0, <1>1
<1>3. RowsOf(p, {"OPEN", "WON", "LOST"}) \in Rows
  BY <1>0, <1>2, RowsAreTyped
<1>4. /\ rpc' \in [Rpcs -> RpcRow] /\ rpc'[r].pc = "answered" /\ rpc'[r].ask = rpc[r].ask
      /\ rpc'[r].rows = RowsOf(p, {"OPEN", "WON", "LOST"})
      /\ \A q \in Rpcs : q # r => rpc'[q] = rpc[q]
      /\ \A q \in Rpcs : rpc'[q].ask = rpc[q].ask
      /\ Reading' = Reading /\ \A q \in Rpcs : Alone(q)' <=> Alone(q)
  BY <1>0, <1>1, <1>3, StatementRow
<1>5. BoardShape'
  BY <1>0, <1>4 DEF BoardShape
<1>6. \A q \in Rpcs : rpc'[q].pc \in {"none", "again"} => rpc[q].pc \in {"none", "again"}
  BY <1>4
<1>7. FirstVisit'
  BY <1>0, <1>2, <1>4, <1>6 DEF FirstVisit
<1>8. Served' = Served /\ newest \subseteq Rpcs
  BY <1>0, <1>4 DEF Served, BoardShape, Reading
<1>9. ASSUME CalmBoard PROVE CalmBoard'
  <2>1. \A d \in Deals : deal[d] = NoDeal
    BY <1>0, <1>9 DEF CalmBoard
  <2>2. RowsOf(1, {"OPEN", "WON", "LOST"}) = RowsOf(1, {"OPEN"})'
    <3>1. \A d \in Deals : deal[d].status = "none"
      BY <2>1, EmptyRows
    <3> QED
      BY <1>0, <3>1 DEF RowsOf
  <2>3. RowsOf(1, {"OPEN"})' = RowsOf(1, {"OPEN"})
    BY <1>0 DEF RowsOf
  <2>4. ASSUME pipelines' = 1, Served' = {} PROVE UpToDate'
    <3>1. UpToDate /\ p = 1
      BY <1>0, <1>2, <1>8, <1>9, <2>4 DEF CalmBoard
    <3> QED
      BY <1>0, <1>4, <1>8, <2>2, <2>3, <3>1 DEF UpToDate
  <2> QED
    BY <1>0, <1>2, <2>1, <2>4 DEF CalmBoard
<1> QED
  BY <1>0, <1>5, <1>7, <1>9 DEF BoardInv

----------------------------------------------------------------------------
(* Changes *)

LEMMA ToggleKeeps ==
  ASSUME BoardInv, ToggleForm
  PROVE  BoardInv'
<1>1. /\ BoardShape /\ board' = [board EXCEPT !.show = ~@]
      /\ UNCHANGED <<pipelines, deal, rpc, newest, boardCalm>>
  BY DEF BoardInv, ToggleForm, historyOfBoard
<1>2. /\ board' \in [rows : Rows, show : BOOLEAN, busy : BOOLEAN] /\ board'.rows = board.rows
  BY <1>1 DEF BoardShape
<1>3. BoardShape'
  BY <1>1, <1>2 DEF BoardShape, Reading
<1>4. /\ (Untouched' <=> Untouched) /\ (UpToDate' <=> UpToDate) /\ Served' = Served
      /\ Reading' = Reading /\ \A r \in Rpcs : Alone(r)' <=> Alone(r)
  BY <1>1, <1>2 DEF Untouched, UpToDate, Reading, Served, RowsOf, Alone
<1>5. FirstVisit'
  BY <1>1, <1>4 DEF BoardInv, FirstVisit, Reading
<1>6. CalmBoard => CalmBoard'
  BY <1>1, <1>4 DEF CalmBoard
<1> QED
  BY <1>1, <1>3, <1>5, <1>6 DEF BoardInv

\* A change is asked for from a board that shows a pipeline.
LEMMA BoardAskKeeps ==
  ASSUME BoardInv, NEW r \in Rpcs, NEW ask \in {"add", "move", "close"},
         NEW d \in SUBSET Deals, NEW value \in DealRow, AskBoard(r, ask, d, value),
         board.rows # NoCards, board' \in [rows : Rows, show : BOOLEAN, busy : BOOLEAN],
         board'.rows = board.rows
  PROVE  BoardInv'
<1>0. BoardShape /\ rpc[r] = NoRpc /\ UNCHANGED <<pipelines, deal, newest, boardCalm>>
  BY DEF BoardInv, AskBoard, historyOfBoard
<1>1. PICK x \in RpcRow : x = [NoRpc EXCEPT !.pc = "sent", !.ask = ask, !.deal = d, !.value = value]
  BY EmptyRows DEF RpcRow
<1>2. x.pc = "sent" /\ x.ask = ask /\ rpc' = [rpc EXCEPT ![r] = x]
  BY <1>1, EmptyRows DEF RpcRow, AskBoard
<1>3. rpc' \in [Rpcs -> RpcRow] /\ \A q \in Rpcs : rpc'[q] = IF q = r THEN x ELSE rpc[q]
  BY <1>0, <1>2, RpcChanges
<1>4. Reading' = Reading /\ Served' = Served
  BY <1>0, <1>2, <1>3, EmptyRows DEF Reading, Served
<1>5. BoardShape'
  BY <1>0, <1>2, <1>3, <1>4 DEF BoardShape
<1>6. pipelines # 0 /\ \A q \in Rpcs : rpc[q].pc \notin {"none", "again"}
  BY DEF BoardInv, FirstVisit, Untouched, Alone
<1>7. \A q \in Rpcs : rpc'[q].pc \notin {"none", "again"}
  BY <1>2, <1>3, <1>6
<1>8. UpToDate => UpToDate'
  <2>1. \A q \in newest : q \in Rpcs /\ q # r
    BY <1>0, EmptyRows DEF BoardShape, Reading
  <2>2. RowsOf(1, {"OPEN"})' = RowsOf(1, {"OPEN"})
    BY <1>0 DEF RowsOf
  <2> QED
    BY <1>0, <1>3, <2>1, <2>2 DEF UpToDate
<1>9. CalmBoard => CalmBoard'
  BY <1>0, <1>4, <1>6, <1>7, <1>8 DEF CalmBoard
<1> QED
  BY <1>0, <1>5, <1>6, <1>7, <1>9 DEF BoardInv, FirstVisit

LEMMA CardsAsk ==
  ASSUME BoardInv, NEW r \in Rpcs,
         \/ \E s \in ShownStages : AddDeal(r, s)
         \/ \E card \in board.rows.cards :
              \/ \E s \in ShownStages : MoveCard(r, card, s)
              \/ \E status \in {"WON", "LOST"} : CloseCard(r, card, status)
  PROVE  BoardInv'
<1>0. BoardShape /\ board \in [rows : Rows, show : BOOLEAN, busy : BOOLEAN] /\ board.rows \in Rows
  BY DEF BoardInv, BoardShape
<1>1. \A s \in ShownStages : s \in StageRow /\ board.rows # NoCards
  BY EmptyRows DEF ShownStages, Stages, StageRow
<1>2. \A card \in board.rows.cards : card.deal \in Deals /\ board.rows # NoCards
  BY <1>0, EmptyRows DEF Rows
<1>3. ASSUME NEW s \in ShownStages, AddDeal(r, s) PROVE BoardInv'
  <2>1. [status |-> "OPEN", stage |-> s] \in DealRow
    BY <1>1 DEF DealRow
  <2>2. /\ AskBoard(r, "add", {}, [status |-> "OPEN", stage |-> s])
        /\ board' = [board EXCEPT !.busy = TRUE]
    BY <1>3 DEF AddDeal
  <2>3. board' \in [rows : Rows, show : BOOLEAN, busy : BOOLEAN] /\ board'.rows = board.rows
    BY <1>0, <2>2
  <2> QED
    BY <1>1, <2>1, <2>2, <2>3, BoardAskKeeps
<1>4. ASSUME NEW card \in board.rows.cards, NEW s \in ShownStages, MoveCard(r, card, s)
      PROVE BoardInv'
  <2>1. [status |-> "none", stage |-> s] \in DealRow /\ {card.deal} \in SUBSET Deals
    BY <1>1, <1>2 DEF DealRow
  <2>2. AskBoard(r, "move", {card.deal}, [status |-> "none", stage |-> s]) /\ board' = board
    BY <1>4 DEF MoveCard
  <2> QED
    BY <1>0, <1>1, <2>1, <2>2, BoardAskKeeps
<1>5. ASSUME NEW card \in board.rows.cards, NEW status \in {"WON", "LOST"},
             CloseCard(r, card, status)
      PROVE BoardInv'
  <2>1. [status |-> status, stage |-> NoStage] \in DealRow /\ {card.deal} \in SUBSET Deals
    BY <1>2, EmptyRows DEF DealRow
  <2>2. /\ AskBoard(r, "close", {card.deal}, [status |-> status, stage |-> NoStage])
        /\ board' = board
    BY <1>5 DEF CloseCard
  <2> QED
    BY <1>0, <1>2, <2>1, <2>2, BoardAskKeeps
<1> QED
  BY <1>3, <1>4, <1>5

LEMMA AnswerKeeps ==
  ASSUME BoardInv, NEW r \in Rpcs, ChangeAnswered(r)
  PROVE  BoardInv'
<1>0. /\ BoardShape /\ rpc[r].ask \in {"add", "move", "close"} /\ UNCHANGED <<pipelines, deal>>
      /\ board \in [rows : Rows, show : BOOLEAN, busy : BOOLEAN]
  BY DEF BoardInv, BoardShape, ChangeAnswered
<1>1. pipelines # 0
  BY <1>0 DEF BoardInv, FirstVisit, Untouched
<1>2. CASE Succeeds(r)
  <2>1. LoadBoard(r, rpc[r].ask) /\ board' = [board EXCEPT !.show = @ /\ rpc[r].ask # "add"]
    BY <1>2 DEF Succeeds
  <2>2. board' \in [rows : Rows, show : BOOLEAN, busy : BOOLEAN] /\ board'.rows = board.rows
    BY <1>0, <2>1
  <2> QED
    BY <1>0, <1>1, <2>1, <2>2, LoadKeeps
<1>3. CASE /\ rpc' = [rpc EXCEPT ![r] = NoRpc] /\ boardCalm' = (boardCalm /\ ReadToCome)
           /\ UNCHANGED newest /\ board' = [board EXCEPT !.busy = @ /\ rpc[r].ask # "add"]
  <2>1. board' \in [rows : Rows, show : BOOLEAN, busy : BOOLEAN]
    BY <1>0, <1>3
  <2>2. rpc' \in [Rpcs -> RpcRow] /\ \A q \in Rpcs : rpc'[q] = IF q = r THEN NoRpc ELSE rpc[q]
    BY <1>0, <1>3, RpcChanges, EmptyRows
  <2>3. Reading' = Reading
    BY <1>0, <2>2, EmptyRows DEF Reading
  <2>4. BoardShape'
    BY <1>0, <1>3, <2>1, <2>2, <2>3, EmptyRows DEF BoardShape
  <2>5. \A q \in Rpcs : rpc'[q].pc \notin {"none", "again"}
    <3>1. ASSUME NEW q \in Rpcs, q # r PROVE rpc[q].pc \notin {"none", "again"}
      BY <1>0, <3>1 DEF BoardInv, FirstVisit, Alone
    <3> QED
      BY <2>2, <3>1, EmptyRows
  <2>6. ASSUME boardCalm' PROVE CalmBoard'
    <3>1. PICK q \in newest : rpc[q].pc = "sent"
      BY <1>3, <2>6 DEF ReadToCome
    <3>2. newest = {q} /\ q \in Rpcs /\ q # r
      BY <1>0, <3>1 DEF BoardShape, Reading
    <3>3. UpToDate'
      BY <1>3, <2>2, <3>1, <3>2 DEF UpToDate
    <3> QED
      BY <1>3, <2>5, <3>2, <3>3 DEF CalmBoard
  <2> QED
    BY <1>0, <1>1, <2>4, <2>5, <2>6 DEF BoardInv, FirstVisit
<1> QED
  BY <1>2, <1>3 DEF ChangeAnswered

LEMMA ServeKeeps ==
  ASSUME BoardInv, NEW r \in Rpcs, NEW d \in Deals, ServeChange(r, d)
  PROVE  BoardInv'
<1>0. /\ BoardShape /\ rpc[r].ask \in {"add", "move", "close"} /\ rpc[r].pc = "sent"
      /\ rpc[r] \in RpcRow /\ deal \in [Deals -> DealRow]
      /\ BoardGoto(r, "answered", NoCards) /\ UNCHANGED <<pipelines, board, newest, boardCalm>>
  BY DEF BoardInv, BoardShape, ServeChange, historyOfBoard
<1>1. /\ rpc' \in [Rpcs -> RpcRow] /\ rpc'[r].pc = "answered"
      /\ \A q \in Rpcs : q # r => rpc'[q] = rpc[q]
      /\ \A q \in Rpcs : rpc'[q].ask = rpc[q].ask
      /\ Reading' = Reading
  BY <1>0, EmptyRows, StatementRow
<1>2. deal' \in [Deals -> DealRow]
  <2>1. deal[d] \in DealRow /\ rpc[r].value \in DealRow
    BY <1>0 DEF RpcRow
  <2>2. NewRow(rpc[r].ask, deal[d], rpc[r].value) \in DealRow
    BY <1>0, <2>1 DEF NewRow, DealRow
  <2> QED
    BY <1>0, <2>2 DEF ServeChange
<1>3. BoardShape'
  BY <1>0, <1>1, <1>2 DEF BoardShape
<1>4. pipelines # 0 /\ \A q \in Rpcs : rpc[q].pc \notin {"none", "again"}
  <2>1. ASSUME NEW q \in Rpcs, q # r PROVE rpc[q].pc \notin {"none", "again"}
    BY <1>0, <2>1 DEF BoardInv, FirstVisit, Alone
  <2> QED
    BY <1>0, <2>1 DEF BoardInv, FirstVisit, Untouched
<1>5. \A q \in Rpcs : rpc'[q].pc \notin {"none", "again"}
  BY <1>1, <1>4
<1>6. CalmBoard => CalmBoard'
  <2>1. r \in Served'
    BY <1>0, <1>1 DEF Served
  <2> QED
    BY <1>0, <1>4, <1>5, <2>1 DEF CalmBoard
<1> QED
  BY <1>0, <1>3, <1>4, <1>5, <1>6 DEF BoardInv, FirstVisit

LEMMA ElsewhereKeeps ==
  ASSUME BoardInv, PipelineElsewhere \/ \E d \in Deals : ChangedElsewhere(d)
  PROVE  BoardInv'
<1>0. BoardShape /\ pipelines \in Nat /\ deal \in [Deals -> DealRow]
  BY DEF BoardInv, BoardShape
<1>1. CASE PipelineElsewhere
  <2>1. pipelines' = pipelines + 1 /\ UNCHANGED <<deal, board, rpc, newest, boardCalm>>
    BY <1>1 DEF PipelineElsewhere, historyOfBoard
  <2>2. pipelines' \in Nat /\ pipelines' # 0 /\ (pipelines' = 1 => pipelines = 0)
    BY <1>0, <2>1
  <2>3. Reading' = Reading /\ \A r \in Rpcs : Alone(r)' <=> Alone(r)
    BY <2>1 DEF Reading, Alone
  <2>4. BoardShape' /\ FirstVisit'
    BY <1>0, <2>1, <2>2, <2>3 DEF BoardShape, BoardInv, FirstVisit
  <2>5. ASSUME CalmBoard PROVE CalmBoard'
    <3>1. pipelines' = 1 => newest # {} /\ \A q \in Rpcs : rpc[q].pc # "answered"
      BY <2>2, <2>5 DEF BoardInv, FirstVisit, CalmBoard
    <3>2. pipelines' = 1 => UpToDate'
      BY <1>0, <2>1, <3>1 DEF UpToDate, BoardShape, Reading
    <3> QED
      BY <2>1, <2>2, <2>5, <3>2 DEF CalmBoard
  <2> QED
    BY <2>1, <2>4, <2>5 DEF BoardInv
<1>2. ASSUME NEW d \in Deals, ChangedElsewhere(d) PROVE BoardInv'
  <2>1. /\ boardCalm' = (boardCalm /\ ReadToCome) /\ UNCHANGED <<pipelines, board, rpc, newest>>
        /\ deal[d] \in DealRow
    BY <1>0, <1>2 DEF ChangedElsewhere
  <2>4. ASSUME boardCalm' PROVE CalmBoard'
    <3>1. PICK q \in newest : rpc[q].pc = "sent"
      BY <2>1, <2>4 DEF ReadToCome
    <3>2. newest = {q} /\ q \in Reading
      BY <1>0, <3>1 DEF BoardShape
    <3>3. \A r \in Rpcs : rpc[r].pc \notin {"none", "again"}
      BY <3>1, <3>2 DEF BoardInv, FirstVisit, Alone, Reading
    <3>4. UpToDate'
      BY <2>1, <3>1, <3>2 DEF UpToDate
    <3> QED
      BY <2>1, <3>2, <3>3, <3>4 DEF CalmBoard
  <2>5. ASSUME deal' \in [Deals -> DealRow], pipelines # 0 PROVE BoardInv'
    <3>1. Reading' = Reading /\ \A r \in Rpcs : Alone(r)' <=> Alone(r)
      BY <2>1 DEF Reading, Alone
    <3>2. BoardShape'
      BY <1>0, <2>1, <2>5, <3>1 DEF BoardShape
    <3>3. FirstVisit'
      BY <2>1, <2>5, <3>1 DEF BoardInv, FirstVisit
    <3> QED
      BY <2>4, <3>2, <3>3 DEF BoardInv
  <2>2. CASE \E s \in {s \in Stages : s.pipeline <= pipelines} :
               deal' = [deal EXCEPT ![d].stage = s, ![d].status = IF @ = "none" THEN "OPEN" ELSE @]
    <3>1. PICK s \in Stages : /\ s.pipeline <= pipelines
            /\ deal' = [deal EXCEPT ![d].stage = s, ![d].status = IF @ = "none" THEN "OPEN" ELSE @]
      BY <2>2
    <3>2. s \in StageRow /\ pipelines # 0
      BY <1>0, <3>1 DEF Stages, StageRow
    <3>3. PICK x \in DealRow :
            x = [deal[d] EXCEPT !.stage = s, !.status = IF @ = "none" THEN "OPEN" ELSE @]
      BY <2>1, <3>2 DEF DealRow
    <3>4. deal' = [deal EXCEPT ![d] = x]
      BY <1>0, <2>1, <3>1, <3>3 DEF DealRow
    <3>5. deal' \in [Deals -> DealRow]
      BY <1>0, <3>4
    <3> QED
      BY <2>5, <3>2, <3>5
  <2>3. CASE \E status \in {"WON", "LOST"} :
               deal[d] # NoDeal /\ deal' = [deal EXCEPT ![d].status = status]
    <3>1. PICK status \in {"WON", "LOST"} :
            deal[d] # NoDeal /\ deal' = [deal EXCEPT ![d].status = status]
      BY <2>3
    <3>2. PICK x \in DealRow : x = [deal[d] EXCEPT !.status = status]
      BY <2>1 DEF DealRow
    <3>3. deal' = [deal EXCEPT ![d] = x]
      BY <1>0, <2>1, <3>1, <3>2 DEF DealRow
    <3>4. deal' \in [Deals -> DealRow]
      BY <1>0, <3>3
    <3>5. pipelines # 0
      BY <3>1 DEF BoardInv, FirstVisit, Untouched
    <3> QED
      BY <2>5, <3>4, <3>5
  <2> QED
    BY <1>2, <2>2, <2>3 DEF ChangedElsewhere
<1> QED
  BY <1>1, <1>2

LEMMA BoardStepKeeps == BoardInv /\ [BoardNext]_boardVars => BoardInv'
<1> SUFFICES ASSUME BoardInv, [BoardNext]_boardVars PROVE BoardInv'
  OBVIOUS
<1>1. CASE ToggleForm
  BY <1>1, ToggleKeeps
<1>2. CASE PipelineElsewhere \/ \E d \in Deals : ChangedElsewhere(d)
  BY <1>2, ElsewhereKeeps
<1>3. ASSUME NEW r \in Rpcs, OpenBoard(r) \/ BoardRead(r) PROVE BoardInv'
  BY <1>3, OpenKeeps, ReadKeeps
<1>4. ASSUME NEW r \in Rpcs, FindPipelines(r) \/ CreatePipeline(r) \/ FindAgain(r) PROVE BoardInv'
  BY <1>4, FindKeeps, CreateKeeps, AgainKeeps
<1>5. ASSUME NEW r \in Rpcs, ChangeAnswered(r) PROVE BoardInv'
  BY <1>5, AnswerKeeps
<1>6. ASSUME NEW r \in Rpcs,
             \/ \E s \in ShownStages : AddDeal(r, s)
             \/ \E card \in board.rows.cards :
                  \/ \E s \in ShownStages : MoveCard(r, card, s)
                  \/ \E status \in {"WON", "LOST"} : CloseCard(r, card, status)
      PROVE BoardInv'
  BY <1>6, CardsAsk
<1>7. ASSUME NEW r \in Rpcs, NEW d \in Deals, ServeChange(r, d) PROVE BoardInv'
  BY <1>7, ServeKeeps
<1>8. CASE UNCHANGED boardVars
  <2>1. UNCHANGED <<pipelines, deal, board, rpc, newest, boardCalm>>
    BY <1>8 DEF boardVars, historyOfBoard
  <2>2. /\ Reading' = Reading /\ Served' = Served /\ (Untouched' <=> Untouched)
        /\ (UpToDate' <=> UpToDate) /\ \A r \in Rpcs : Alone(r)' <=> Alone(r)
    BY <2>1 DEF Reading, Served, Untouched, UpToDate, RowsOf, Alone
  <2>3. BoardShape' /\ FirstVisit' /\ (CalmBoard => CalmBoard')
    BY <2>1, <2>2 DEF BoardInv, BoardShape, FirstVisit, CalmBoard, Reading
  <2> QED
    BY <2>1, <2>3 DEF BoardInv
<1> QED
  BY <1>1, <1>2, <1>3, <1>4, <1>5, <1>6, <1>7, <1>8 DEF BoardNext

\* Once nothing of the page is under way its board shows what is stored, for any
\* number of deals, stages, pipelines and requests that overlap and are answered
\* in any order, provided that no answer came after that of the newest read and
\* that since it saw the rows nobody else changed a deal and no change failed.
THEOREM BoardsCatchUp == BoardSpec => []BoardAgrees
<1>1. BoardInv => BoardAgrees
  <2> SUFFICES ASSUME BoardInv, boardCalm, pipelines = 1, \A r \in Rpcs : rpc[r] = NoRpc
               PROVE  board.rows = RowsOf(1, {"OPEN"})
    BY DEF BoardAgrees
  <2>1. newest = {} /\ Served = {}
    BY EmptyRows DEF BoardInv, BoardShape, Reading, Served
  <2> QED
    BY <2>1 DEF BoardInv, CalmBoard, UpToDate
<1> QED
  BY <1>1, BoardInitially, BoardStepKeeps, PTL DEF BoardSpec

HIDE BoardAssumption

----------------------------------------------------------------------------
(* What is being written *)
(* A read replaces the list under the conversation that is written to. It  *)
(* stays in view because the effect of a render has chosen it before: only *)
(* a page that shows nothing has nothing chosen. That a page with rows has *)
(* a newest one is where the numbers of the messages come in.              *)

PageRow == [kind : {"inbox", "email"}, channel : {"WHATSAPP", "EMAIL"},
            rows : SUBSET Threads, shown : SUBSET Ever, upTo : 0..MaxStored,
            found : SUBSET Threads, chosen : Someplace, draft : Someplace, loading : BOOLEAN]
LoadRow == [pc : {"idle", "sent", "answered"}, saw : SUBSET Ever, upTo : 0..MaxStored]
ErasureRow == [of : Someplace, todo : SUBSET Ever, whole : BOOLEAN, failed : BOOLEAN]

InboxShape ==
  /\ of \in [Ever -> Someplace] /\ kept \subseteq Posted
  /\ page \in PageRow /\ loads \in [Purposes -> LoadRow]
  /\ sending \in Someplace /\ erasing \in ErasureRow /\ moved \in BOOLEAN

\* Messages are numbered without a gap.
Numbered == \E n \in 0..MaxStored : Posted = 1..n

\* Whatever is listed, or on its way to be, has a message that was counted.
RowsSaid(p) == \A t \in p.rows : \E m \in 1..p.upTo : of[m] = t
LoadsSaid ==
  \A l \in Purposes : loads[l].pc = "answered" =>
    loads[l].saw \subseteq 1..loads[l].upTo /\ loads[l].saw \subseteq Posted

\* Only a page that shows nothing has nothing chosen.
PinnedPage == page.chosen = Nowhere => Visible(page) = {}

ChosenInView == ~moved => page.chosen \in {Nowhere} \cup Visible(page)
DraftOfChosen == page.draft # Nowhere /\ ~moved => page.draft = page.chosen

InboxInv ==
  /\ InboxShape /\ Numbered /\ RowsSaid(page) /\ LoadsSaid
  /\ PinnedPage /\ ChosenInView /\ DraftOfChosen

USE InboxAssumption

\* A set of numbers up to n has a greatest one, if it has any.
LEMMA GreatestOfSome ==
  ASSUME NEW n \in Nat, NEW S \in SUBSET (1..n), S # {}
  PROVE  \E x \in S : \A y \in S : x >= y
<1> DEFINE R == OpToRel(<, Nat)
<1> DEFINE T == {n - x : x \in S}
<1>1. IsWellFoundedOn(R, Nat)
  BY NatLessThanWellFounded
<1>2. T \subseteq Nat
  OBVIOUS
<1>3. T # {}
  OBVIOUS
<1>4. PICK z \in T : \A y \in T : ~ (<<y, z>> \in R)
  BY <1>1, <1>2, <1>3, WFMin, Zenon
<1>5. \A y \in T : y < z => <<y, z>> \in R
  BY <1>2 DEF OpToRel
<1>6. \A y \in T : ~ (y < z)
  BY <1>4, <1>5, Zenon
<1> HIDE DEF R
<1>7. PICK x \in S : z = n - x
  OBVIOUS
<1>8. ASSUME NEW y \in S PROVE x >= y
  <2>1. n - y \in T
    OBVIOUS
  <2>2. ~ (n - y < n - x)
    BY <1>6, <1>7, <2>1
  <2>3. x \in Nat /\ y \in Nat
    OBVIOUS
  <2> HIDE DEF T
  <2> QED
    BY <2>2, <2>3
<1> QED
  BY <1>8

\* Among the conversations of a page one is the newest, and it is in view when
\* none is chosen (visibleThreads[0] of inbox/page.tsx).
LEMMA NewestInView ==
  ASSUME InboxShape, NEW p \in PageRow, RowsSaid(p)
  PROVE  /\ p.chosen \in Visible(p) => InView(p) = p.chosen
         /\ Visible(p) = {} => InView(p) = Nowhere
         /\ Visible(p) # {} => InView(p) \in Visible(p)
<1>1. Visible(p) \subseteq p.rows /\ Visible(p) \subseteq Threads
  BY DEF Visible, PageRow
<1>2. p.chosen \in Visible(p) => InView(p) = p.chosen
  BY DEF InView
<1>3. Visible(p) = {} => InView(p) = Nowhere
  BY DEF InView
<1>4. ASSUME NEW t \in Visible(p) PROVE Newness(p, t) \in 1..MaxStored
  <2> DEFINE S == IF p.kind = "inbox" /\ MessagesOf(t, p.shown) # {}
                  THEN MessagesOf(t, p.shown) ELSE MessagesOf(t, 1..p.upTo)
  <2>1. p.shown \in SUBSET (1..MaxStored) /\ 1..p.upTo \in SUBSET (1..MaxStored)
    BY DEF PageRow, Ever
  <2>2. S \in SUBSET (1..MaxStored)
    BY <2>1 DEF MessagesOf
  <2>3. MessagesOf(t, 1..p.upTo) # {}
    BY <1>1 DEF RowsSaid, MessagesOf
  <2>4. S # {}
    BY <2>3
  <2>5. Newness(p, t) = Max(S)
    BY DEF Newness
  <2> HIDE DEF S
  <2>6. \E x \in S : \A y \in S : x >= y
    BY <2>2, <2>4, GreatestOfSome
  <2>7. Max(S) \in S
    BY <2>6 DEF Max
  <2> QED
    BY <2>2, <2>5, <2>7
<1>5. ASSUME Visible(p) # {}
      PROVE  \E t \in Visible(p) : \A u \in Visible(p) : Newness(p, t) >= Newness(p, u)
  <2> DEFINE N == {Newness(p, t) : t \in Visible(p)}
  <2>1. N \in SUBSET (1..MaxStored)
    BY <1>4
  <2>2. N # {}
    BY <1>5
  <2>3. PICK x \in N : \A y \in N : x >= y
    BY <2>1, <2>2, GreatestOfSome
  <2> QED
    BY <2>3
<1>6. Visible(p) # {} => InView(p) \in Visible(p)
  BY <1>5 DEF InView
<1> QED
  BY <1>2, <1>3, <1>6

\* After the effect of a render, nothing is chosen only when nothing is shown.
LEMMA RenderPins ==
  ASSUME InboxShape, NEW p \in PageRow, RowsSaid(p)
  PROVE  /\ Pinned(p) = [p EXCEPT !.chosen = Pinned(p).chosen] /\ Pinned(p) \in PageRow
         /\ p.chosen # Nowhere => Pinned(p).chosen = p.chosen
         /\ p.chosen = Nowhere => Pinned(p).chosen = InView(p)
         /\ Visible(Pinned(p)) = Visible(p)
         /\ Pinned(p).chosen = Nowhere => Visible(Pinned(p)) = {}
         /\ p.chosen = Nowhere => Pinned(p).chosen \in {Nowhere} \cup Visible(Pinned(p))
<1>1. InView(p) \in Someplace /\ (p.chosen = Nowhere => (InView(p) = Nowhere <=> Visible(p) = {}))
  <2>1. Visible(p) \subseteq Threads
    BY DEF Visible, PageRow
  <2> QED
    BY <2>1, NewestInView DEF Someplace
<1>2. PICK c \in Someplace : Pinned(p) = [p EXCEPT !.chosen = c] /\ c = IF p.chosen = Nowhere THEN InView(p) ELSE p.chosen
  <2>1. CASE p.chosen = Nowhere
    BY <2>1, <1>1 DEF Pinned
  <2>2. CASE p.chosen # Nowhere
    <3>1. p.chosen \in Someplace /\ p = [p EXCEPT !.chosen = p.chosen]
      BY DEF PageRow
    <3> QED
      BY <2>2, <3>1 DEF Pinned
  <2> QED
    BY <2>1, <2>2
<1>3. /\ Pinned(p) \in PageRow /\ Pinned(p).chosen = c /\ Pinned(p).rows = p.rows
      /\ Pinned(p).found = p.found /\ Pinned(p).channel = p.channel
  BY <1>2 DEF PageRow
<1>4. Visible(Pinned(p)) = Visible(p)
  BY <1>3 DEF Visible
<1>5. Visible(p) # {} => InView(p) \in Visible(p)
  BY NewestInView
<1> QED
  BY <1>1, <1>2, <1>3, <1>4, <1>5

\* A message that is stored leaves those before it where they are (the calls
\* messageThread.create and message.create).
LEMMA StoreNumbers ==
  ASSUME InboxShape, Numbered, NEW t \in Threads, Store(t)
  PROVE  /\ of' \in [Ever -> Someplace] /\ kept' \subseteq Posted' /\ Posted \subseteq Posted'
         /\ Numbered' /\ \A m \in Posted : of'[m] = of[m]
<1>1. PICK n \in 0..MaxStored : Posted = 1..n
  BY DEF Numbered
<1>2. Cardinality(Posted) = n
  BY <1>1, FS_Interval
<1>3. /\ n + 1 \in Ever /\ of' = [of EXCEPT ![n + 1] = t] /\ kept' = kept \cup {n + 1}
      /\ n + 1 <= MaxStored
  BY <1>2, <1>1 DEF Store, Ever
<1>4. of \in [Ever -> Someplace] /\ t \in Someplace /\ t # Nowhere /\ n + 1 \notin Posted
  BY <1>1 DEF InboxShape, Someplace
<1>5. \A m \in Ever : of'[m] = IF m = n + 1 THEN t ELSE of[m]
  BY <1>3, <1>4
<1>6. Posted' = 1..(n + 1)
  <2>1. Posted' = {m \in Ever : of'[m] # Nowhere}
    BY DEF Posted, Ever
  <2>2. \A m \in Ever : of[m] # Nowhere <=> m \in 1..n
    BY <1>1 DEF Posted
  <2>3. \A m \in 1..(n + 1) : m \in Ever /\ (m = n + 1 \/ m \in 1..n)
    BY <1>3 DEF Ever
  <2>4. \A m \in Ever : of'[m] # Nowhere <=> m \in 1..(n + 1)
    BY <2>2, <1>4, <1>5, <1>1
  <2>5. \A m : m \in Posted' <=> m \in 1..(n + 1)
    BY <2>1, <2>3, <2>4
  <2> QED
    BY <2>5
<1>7. Numbered' /\ Posted \subseteq Posted'
  <2>1. n + 1 \in 0..MaxStored
    BY <1>3
  <2> QED
    BY <2>1, <1>6, <1>1 DEF Numbered
<1>8. kept' \subseteq Posted'
  <2>1. kept \subseteq Posted
    BY DEF InboxShape
  <2> QED
    BY <2>1, <1>3, <1>6, <1>7, <1>1
<1>9. \A m \in Posted : of'[m] = of[m]
  BY <1>4, <1>5 DEF Posted
<1> QED
  BY <1>3, <1>4, <1>7, <1>8, <1>9

Messages == of' = of \/ (Posted \subseteq Posted' /\ \A m \in Posted : of'[m] = of[m])

\* A step that leaves what is listed and chosen leaves it in view.
LEMMA SameView ==
  ASSUME InboxInv, Messages, NEW q \in PageRow, page' = q,
         q.rows = page.rows, q.upTo = page.upTo, q.found = page.found, q.kind = page.kind,
         q.channel = page.channel, q.chosen = page.chosen, q.draft \in {page.draft, Nowhere},
         moved' = moved
  PROVE  RowsSaid(page)' /\ PinnedPage' /\ ChosenInView' /\ DraftOfChosen'
<1>1. Visible(page)' = Visible(page)
  BY DEF Visible, Channel
<1>2. RowsSaid(page)'
  <2>1. ASSUME NEW t \in page.rows PROVE \E m \in 1..page.upTo : of'[m] = t
    <3>1. PICK m \in 1..page.upTo : of[m] = t
      BY <2>1 DEF InboxInv, RowsSaid
    <3>2. m \in Ever /\ t \in Threads
      BY <2>1 DEF InboxInv, InboxShape, PageRow, Ever
    <3>3. m \in Posted
      BY <3>1, <3>2 DEF Posted
    <3> QED
      BY <3>1, <3>3 DEF Messages
  <2> QED
    BY <2>1 DEF RowsSaid
<1> QED
  BY <1>1, <1>2 DEF InboxInv, PinnedPage, ChosenInView, DraftOfChosen

\* A list that replaces another, or a search, keeps the choice: if it is not
\* listed any more the view has moved (Show).
LEMMA ShowKeeps ==
  ASSUME InboxInv, of' = of, NEW p \in PageRow, RowsSaid(p), Show(p),
         p.kind = page.kind, p.chosen = page.chosen, p.draft = page.draft
  PROVE  /\ page' \in PageRow /\ page'.kind = page.kind /\ moved' \in BOOLEAN
         /\ RowsSaid(page)' /\ PinnedPage' /\ ChosenInView' /\ DraftOfChosen'
<1>0. InboxShape
  BY DEF InboxInv
<1>1. PICK q \in PageRow : q = Pinned(p)
  BY <1>0, RenderPins
<1>2. /\ q = [p EXCEPT !.chosen = q.chosen] /\ page' = q
      /\ p.chosen # Nowhere => q.chosen = p.chosen
      /\ Visible(q) = Visible(p)
      /\ q.chosen = Nowhere => Visible(q) = {}
  BY <1>0, <1>1, RenderPins DEF Show
<1>3. q.kind = page.kind /\ q.rows = p.rows /\ q.upTo = p.upTo /\ q.draft = page.draft
  <2>1. PICK c \in Someplace : c = q.chosen
    BY DEF PageRow
  <2>2. q = [p EXCEPT !.chosen = c]
    BY <1>2, <2>1
  <2> QED
    BY <2>2 DEF PageRow
<1>4. Visible(page)' = Visible(q)
  BY <1>2, <1>3 DEF Visible, Channel
<1>5. moved' = (moved \/ q.chosen \notin {Nowhere} \cup Visible(q))
  BY <1>2 DEF Show
<1>6. moved' \in BOOLEAN
  BY <1>5
<1>7. RowsSaid(page)'
  BY <1>2, <1>3 DEF RowsSaid
<1>8. PinnedPage' /\ ChosenInView'
  BY <1>2, <1>4, <1>5 DEF PinnedPage, ChosenInView
<1>9. DraftOfChosen'
  <2>1. ASSUME q.draft # Nowhere, ~moved' PROVE q.draft = q.chosen
    <3>1. page.draft # Nowhere /\ ~moved
      BY <2>1, <1>3, <1>5
    <3>2. page.draft = page.chosen
      BY <3>1 DEF InboxInv, DraftOfChosen
    <3> QED
      BY <3>1, <3>2, <1>2, <1>3
  <2> QED
    BY <2>1, <1>2 DEF DraftOfChosen
<1> QED
  BY <1>2, <1>3, <1>6, <1>7, <1>8, <1>9

\* A read that is asked for has seen nothing (load).
LEMMA AskingKeepsLoads ==
  ASSUME InboxShape, LoadsSaid, NEW why \in Purposes, Asking(why), Posted \subseteq Posted'
  PROVE  loads' \in [Purposes -> LoadRow] /\ LoadsSaid'
<1>1. PICK r \in LoadRow : r = [loads[why] EXCEPT !.pc = "sent"] /\ r.pc = "sent"
  <2>1. loads[why] \in LoadRow
    BY DEF InboxShape
  <2>2. [loads[why] EXCEPT !.pc = "sent"]
          = [pc |-> "sent", saw |-> loads[why].saw, upTo |-> loads[why].upTo]
    BY <2>1 DEF LoadRow
  <2>3. [pc |-> "sent", saw |-> loads[why].saw, upTo |-> loads[why].upTo] \in LoadRow
    BY <2>1 DEF LoadRow
  <2> QED
    BY <2>2, <2>3
<1>2. loads' = [loads EXCEPT ![why] = r] /\ loads \in [Purposes -> LoadRow]
  BY <1>1 DEF Asking, InboxShape
<1>3. \A l \in Purposes : loads'[l] = IF l = why THEN r ELSE loads[l]
  BY <1>2
<1> QED
  BY <1>1, <1>2, <1>3 DEF LoadsSaid

\* What waited for a read goes on (the finally of load).
LEMMA SettlingKeeps ==
  ASSUME InboxShape, LoadsSaid, NEW l \in Purposes, LoadSettles(l)
  PROVE  /\ loads' \in [Purposes -> LoadRow] /\ LoadsSaid'
         /\ sending' \in Someplace /\ erasing' \in ErasureRow /\ UNCHANGED <<of, kept, Posted>>
<1>1. NoLoad \in LoadRow /\ NoLoad.pc = "idle" /\ NoErasure \in ErasureRow
  BY DEF NoLoad, LoadRow, NoErasure, ErasureRow, Someplace
<1>2. loads' = [loads EXCEPT ![l] = NoLoad] /\ loads \in [Purposes -> LoadRow]
  BY DEF LoadSettles, InboxShape
<1>3. \A k \in Purposes : loads'[k] = IF k = l THEN NoLoad ELSE loads[k]
  BY <1>2
<1>4. UNCHANGED <<of, kept, Posted>> /\ sending' \in Someplace /\ erasing' \in ErasureRow
  BY <1>1 DEF LoadSettles, InboxShape, Posted, Ever, Someplace
<1>5. LoadsSaid'
  BY <1>1, <1>3, <1>4 DEF LoadsSaid
<1> QED
  BY <1>1, <1>2, <1>4, <1>5

\* Only what is stored, asked for or on its way changes.
LEMMA Backstage ==
  ASSUME InboxInv, UNCHANGED <<page, moved>>, Messages, Numbered', LoadsSaid',
         of' \in [Ever -> Someplace], kept' \subseteq Posted', loads' \in [Purposes -> LoadRow],
         sending' \in Someplace, erasing' \in ErasureRow
  PROVE  InboxInv'
<1>1. page \in PageRow
  BY DEF InboxInv, InboxShape
<1>2. RowsSaid(page)' /\ PinnedPage' /\ ChosenInView' /\ DraftOfChosen'
  BY <1>1, SameView
<1> QED
  BY <1>2 DEF InboxInv, InboxShape, PageRow, Someplace, Ever, ErasureRow, LoadRow

\* The rows stay as they are.
LEMMA SameMessages ==
  ASSUME InboxInv, of' = of, kept' \subseteq kept
  PROVE  /\ Messages /\ Numbered' /\ of' \in [Ever -> Someplace] /\ kept' \subseteq Posted'
         /\ Posted' = Posted
BY DEF InboxInv, InboxShape, Messages, Numbered, Posted, Ever, Someplace

\* A read is answered, and what was chosen stays chosen (inbox/page.tsx:113).
LEMMA AnswerShows ==
  ASSUME InboxInv, NEW l \in Purposes, LoadAnswered(l)
  PROVE  InboxInv'
<1> DEFINE saw == {m \in loads[l].saw : page.kind = "email" => Channel(of[m]) = "EMAIL"}
<1>0. InboxShape /\ LoadsSaid /\ LoadSettles(l) /\ page \in PageRow
  BY DEF InboxInv, InboxShape, LoadAnswered
<1>1. /\ loads' \in [Purposes -> LoadRow] /\ LoadsSaid' /\ sending' \in Someplace
      /\ erasing' \in ErasureRow /\ UNCHANGED <<of, kept, Posted>>
  BY <1>0, SettlingKeeps
<1>2. loads[l] \in LoadRow /\ loads[l].saw \subseteq 1..loads[l].upTo /\ loads[l].saw \subseteq Posted
  BY <1>0 DEF LoadAnswered, LoadsSaid, InboxShape
<1>3. \A m \in saw : of[m] \in Threads /\ m \in 1..loads[l].upTo
  BY <1>2 DEF Posted, InboxShape, InboxInv, Someplace
<1>4. saw \in SUBSET Ever /\ loads[l].upTo \in 0..MaxStored /\ {of[m] : m \in saw} \in SUBSET Threads
  BY <1>2, <1>3 DEF LoadRow
<1>5. Show([page EXCEPT !.rows = {of[m] : m \in saw}, !.shown = saw,
                        !.upTo = loads[l].upTo, !.loading = FALSE])
  BY DEF LoadAnswered
<1>6. PICK p : p = [page EXCEPT !.rows = {of[m] : m \in saw}, !.shown = saw,
                                !.upTo = loads[l].upTo, !.loading = FALSE]
  OBVIOUS
<1> HIDE DEF saw
<1>7. /\ p \in PageRow /\ p.rows = {of[m] : m \in saw} /\ p.upTo = loads[l].upTo
      /\ p.kind = page.kind /\ p.chosen = page.chosen /\ p.draft = page.draft
  BY <1>0, <1>4, <1>6 DEF PageRow
<1>8. RowsSaid(p)
  BY <1>3, <1>7 DEF RowsSaid
<1>9. Show(p)
  BY <1>5, <1>6
<1>10. /\ page' \in PageRow /\ moved' \in BOOLEAN
       /\ RowsSaid(page)' /\ PinnedPage' /\ ChosenInView' /\ DraftOfChosen'
  BY <1>1, <1>7, <1>8, <1>9, ShowKeeps
<1>11. Numbered' /\ of' \in [Ever -> Someplace] /\ kept' \subseteq Posted'
  BY <1>1 DEF InboxInv, InboxShape, Numbered
<1> QED
  BY <1>1, <1>10, <1>11 DEF InboxInv, InboxShape, PageRow, Someplace, Ever, ErasureRow, LoadRow

\* A search shows fewer rows, or more (setSearch).
LEMMA SearchShows ==
  ASSUME InboxInv, NEW found \in Matches, Search(found)
  PROVE  InboxInv'
<1>0. page \in PageRow /\ found \in SUBSET Threads /\ of' = of /\ RowsSaid(page)
  BY DEF InboxInv, InboxShape, Matches, Search
<1>1. PICK p : p = [page EXCEPT !.found = found]
  OBVIOUS
<1>2. /\ p \in PageRow /\ p.rows = page.rows /\ p.upTo = page.upTo
      /\ p.kind = page.kind /\ p.chosen = page.chosen /\ p.draft = page.draft
  BY <1>0, <1>1 DEF PageRow
<1>3. Show(p) /\ RowsSaid(p)
  BY <1>0, <1>1, <1>2 DEF Search, RowsSaid
<1>4. /\ page' \in PageRow /\ moved' \in BOOLEAN
      /\ RowsSaid(page)' /\ PinnedPage' /\ ChosenInView' /\ DraftOfChosen'
  BY <1>0, <1>2, <1>3, ShowKeeps
<1>5. UNCHANGED <<of, kept, loads, sending, erasing, Posted>>
  BY DEF Search, Posted, Ever
<1> QED
  BY <1>4, <1>5 DEF InboxInv, InboxShape, PageRow, Someplace, Ever, ErasureRow, LoadRow,
                    Numbered, LoadsSaid

\* Another conversation is chosen: what was typed is written there now.
LEMMA ChoiceShows ==
  ASSUME InboxInv, NEW t \in Threads, ChooseThread(t)
  PROVE  InboxInv'
<1>0. page \in PageRow /\ t \in Visible(page) /\ t # Nowhere /\ RowsSaid(page) /\ t \in Someplace
  BY DEF InboxInv, InboxShape, ChooseThread, Someplace
<1>1. UNCHANGED <<of, kept, loads, sending, erasing, Posted>> /\ moved' = FALSE
  BY DEF ChooseThread, Posted, Ever
<1>2. PICK d \in {t, Nowhere} : page' = [page EXCEPT !.chosen = t, !.draft = d]
  <2>1. page' = [page EXCEPT !.chosen = t, !.draft = IF page.draft = Nowhere THEN Nowhere ELSE t]
    BY <1>0 DEF ChooseThread, PageRow
  <2> QED
    BY <2>1
<1>3. PICK q : q = [page EXCEPT !.chosen = t, !.draft = d]
  OBVIOUS
<1>4. /\ q \in PageRow /\ q.rows = page.rows /\ q.upTo = page.upTo /\ q.found = page.found
      /\ q.kind = page.kind /\ q.channel = page.channel /\ q.chosen = t /\ q.draft = d
  BY <1>0, <1>2, <1>3 DEF PageRow, Someplace
<1>5. page' = q
  BY <1>2, <1>3
<1>6. Visible(page)' = Visible(page)
  BY <1>4, <1>5 DEF Visible, Channel
<1>7. RowsSaid(page)' /\ PinnedPage' /\ ChosenInView' /\ DraftOfChosen'
  BY <1>0, <1>1, <1>2, <1>4, <1>5, <1>6 DEF RowsSaid, PinnedPage, ChosenInView, DraftOfChosen
<1> QED
  BY <1>1, <1>4, <1>5, <1>7 DEF InboxInv, InboxShape, PageRow, Someplace, Ever, ErasureRow, LoadRow,
                           Numbered, LoadsSaid

\* The other channel shows its newest conversation, and nothing is typed.
LEMMA ChannelShows ==
  ASSUME InboxInv, NEW c \in {"WHATSAPP", "EMAIL"}, ChooseChannel(c)
  PROVE  InboxInv'
<1>0. page \in PageRow /\ RowsSaid(page) /\ Nowhere \in Someplace /\ InboxShape
  BY DEF InboxInv, InboxShape, Someplace
<1>1. UNCHANGED <<of, kept, loads, sending, erasing, Posted>> /\ moved' = FALSE
  BY DEF ChooseChannel, Posted, Ever
<1>2. PICK p : p = [page EXCEPT !.channel = c, !.chosen = Nowhere, !.draft = Nowhere]
  OBVIOUS
<1>3. /\ p \in PageRow /\ p.rows = page.rows /\ p.upTo = page.upTo /\ p.kind = page.kind
      /\ p.chosen = Nowhere /\ p.draft = Nowhere
  BY <1>0, <1>2 DEF PageRow
<1>4. RowsSaid(p)
  BY <1>0, <1>3 DEF RowsSaid
<1>5. PICK q \in PageRow : q = Pinned(p)
  BY <1>0, <1>3, <1>4, RenderPins
<1>6. /\ q = [p EXCEPT !.chosen = q.chosen] /\ page' = q
      /\ q.chosen \in {Nowhere} \cup Visible(q)
      /\ q.chosen = Nowhere => Visible(q) = {}
  BY <1>0, <1>2, <1>3, <1>4, <1>5, RenderPins DEF ChooseChannel
<1>7. q.kind = page.kind /\ q.rows = p.rows /\ q.upTo = p.upTo /\ q.draft = Nowhere
  <2>1. PICK x \in Someplace : x = q.chosen
    BY DEF PageRow
  <2>2. q = [p EXCEPT !.chosen = x]
    BY <1>6, <2>1
  <2> QED
    BY <1>3, <2>2 DEF PageRow
<1>8. Visible(page)' = Visible(q)
  BY <1>6, <1>7 DEF Visible, Channel
<1>9. RowsSaid(page)' /\ PinnedPage' /\ ChosenInView' /\ DraftOfChosen'
  BY <1>0, <1>1, <1>3, <1>4, <1>6, <1>7, <1>8 DEF RowsSaid, PinnedPage, ChosenInView, DraftOfChosen
<1> QED
  BY ZenonT(60), <1>1, <1>5, <1>6, <1>9 DEF InboxInv, InboxShape, PageRow, Someplace, Ever,
     ErasureRow, LoadRow,
                           Numbered, LoadsSaid

\* The text is written to the conversation in view, which is the chosen one.
LEMMA WritingShows ==
  ASSUME InboxInv, Write
  PROVE  InboxInv'
<1>0. page \in PageRow /\ RowsSaid(page) /\ InboxShape /\ PinnedPage /\ ChosenInView
  BY DEF InboxInv, InboxShape
<1>1. UNCHANGED <<of, kept, loads, sending, erasing, Posted, moved>> /\ InView(page) # Nowhere
  BY DEF Write, Posted, Ever
<1>2. Visible(page) # {} /\ InView(page) \in Visible(page) /\ InView(page) \in Someplace
  <2>1. Visible(page) # {} /\ InView(page) \in Visible(page)
    BY <1>0, <1>1, NewestInView
  <2> QED
    BY <1>0, <2>1 DEF Visible, PageRow, Someplace
<1>3. ~moved => InView(page) = page.chosen
  <2>1. ~moved => page.chosen \in Visible(page)
    BY <1>0, <1>2 DEF PinnedPage, ChosenInView
  <2> QED
    BY <1>0, <2>1, NewestInView
<1>4. PICK q : q = [page EXCEPT !.draft = InView(page)]
  OBVIOUS
<1>5. /\ q \in PageRow /\ q.rows = page.rows /\ q.upTo = page.upTo /\ q.found = page.found
      /\ q.kind = page.kind /\ q.channel = page.channel /\ q.chosen = page.chosen
      /\ q.draft = InView(page)
  BY <1>0, <1>2, <1>4 DEF PageRow
<1>6. page' = q
  BY <1>4 DEF Write
<1>7. Visible(page)' = Visible(page)
  BY <1>5, <1>6 DEF Visible, Channel
<1>8. RowsSaid(page)' /\ PinnedPage' /\ ChosenInView' /\ DraftOfChosen'
  BY <1>0, <1>1, <1>3, <1>5, <1>6, <1>7 DEF RowsSaid, PinnedPage, ChosenInView, DraftOfChosen
<1> QED
  BY ZenonT(60), <1>1, <1>5, <1>6, <1>8 DEF InboxInv, InboxShape, PageRow, Someplace, Ever, ErasureRow, LoadRow,
                           Numbered, LoadsSaid

\* A deletion goes on or ends: when it took a whole conversation the view has
\* moved, and otherwise only messages are gone (removeThread, deleteMessage).
LEMMA ErasingShows ==
  ASSUME InboxInv, EraseNext
  PROVE  InboxInv'
<1>0. page \in PageRow /\ RowsSaid(page) /\ InboxShape /\ erasing \in ErasureRow
  BY DEF InboxInv, InboxShape
<1>1. UNCHANGED <<of, loads, sending, Posted>> /\ kept' \subseteq kept
  BY DEF EraseNext, Posted, Ever
<1>2. CASE UNCHANGED <<page, moved>> /\ erasing' = [erasing EXCEPT !.todo = @ \ Doomed]
  <2>1. erasing' \in ErasureRow
    BY <1>0, <1>2 DEF ErasureRow
  <2>2. Messages /\ Numbered' /\ of' \in [Ever -> Someplace] /\ kept' \subseteq Posted'
    BY <1>1, SameMessages
  <2>3. LoadsSaid' /\ loads' \in [Purposes -> LoadRow] /\ sending' \in Someplace
    BY <1>0, <1>1 DEF InboxInv, InboxShape, LoadsSaid
  <2> QED
    BY <1>2, <2>1, <2>2, <2>3, Backstage
<1>3. CASE Erased
  <2>1. erasing' \in ErasureRow
    BY <1>3 DEF Erased, NoErasure, ErasureRow, Someplace
  <2>2. PICK p \in PageRow : /\ page' = Pinned(p) /\ RowsSaid(p) /\ p.kind = page.kind
                             /\ ~erasing.whole => /\ p.rows = page.rows /\ p.found = page.found
                                                  /\ p.channel = page.channel
                                                  /\ p.chosen = page.chosen /\ p.draft = page.draft
    <3>1. CASE erasing.whole
      <4>1. PICK c \in Someplace : page' = Pinned([page EXCEPT !.rows = @ \ {erasing.of},
                                     !.shown = @ \ MessagesOf(erasing.of, Ever), !.chosen = c])
        <5> DEFINE c == IF page.kind = "inbox" \/ page.chosen = erasing.of THEN Nowhere ELSE page.chosen
        <5>1. c \in Someplace
          BY <1>0 DEF PageRow, Someplace
        <5>2. page' = Pinned([page EXCEPT !.rows = @ \ {erasing.of},
                                     !.shown = @ \ MessagesOf(erasing.of, Ever), !.chosen = c])
          BY <1>0, <1>3, <3>1 DEF Erased, PageRow
        <5> QED
          BY <5>1, <5>2
      <4>2. PICK p : p = [page EXCEPT !.rows = @ \ {erasing.of},
                                      !.shown = @ \ MessagesOf(erasing.of, Ever), !.chosen = c]
        OBVIOUS
      <4>3. p \in PageRow /\ p.rows \subseteq page.rows /\ p.upTo = page.upTo /\ p.kind = page.kind
        BY <1>0, <4>2 DEF PageRow
      <4>4. RowsSaid(p)
        BY <1>0, <4>3 DEF RowsSaid
      <4> QED
        BY <3>1, <4>1, <4>2, <4>3, <4>4
    <3>2. CASE ~erasing.whole
      <4>1. PICK p : p = [page EXCEPT !.shown = @ \ erasing.todo]
        OBVIOUS
      <4>2. page' = Pinned(p)
        BY <1>3, <3>2, <4>1 DEF Erased
      <4>3. /\ p \in PageRow /\ p.rows = page.rows /\ p.upTo = page.upTo /\ p.kind = page.kind
            /\ p.found = page.found /\ p.channel = page.channel
            /\ p.chosen = page.chosen /\ p.draft = page.draft
        BY <1>0, <4>1 DEF PageRow
      <4>4. RowsSaid(p)
        BY <1>0, <4>3 DEF RowsSaid
      <4> QED
        BY <3>2, <4>2, <4>3, <4>4
    <3> QED
      BY <3>1, <3>2
  <2>3. PICK q \in PageRow : q = Pinned(p)
    BY <1>0, <2>2, RenderPins
  <2>4. /\ q = [p EXCEPT !.chosen = q.chosen] /\ page' = q
        /\ p.chosen # Nowhere => q.chosen = p.chosen
        /\ Visible(q) = Visible(p)
        /\ q.chosen = Nowhere => Visible(q) = {}
        /\ p.chosen = Nowhere => q.chosen \in {Nowhere} \cup Visible(q)
    BY <1>0, <2>2, <2>3, RenderPins
  <2>5. /\ q.kind = page.kind /\ q.rows = p.rows /\ q.upTo = p.upTo /\ q.draft = p.draft
    <3>1. PICK c \in Someplace : c = q.chosen
      BY DEF PageRow
    <3>2. q = [p EXCEPT !.chosen = c]
      BY <2>4, <3>1
    <3> QED
      BY <2>2, <3>2 DEF PageRow
  <2>6. Visible(page)' = Visible(q)
    BY <2>4, <2>5 DEF Visible, Channel
  <2>7. moved' = (moved \/ erasing.whole) /\ moved' \in BOOLEAN
    BY <1>0, <1>3 DEF Erased, InboxShape, ErasureRow
  <2>8. RowsSaid(page)'
    BY <1>1, <2>2, <2>4, <2>5 DEF RowsSaid
  <2>9. PinnedPage'
    BY <2>4, <2>6 DEF PinnedPage
  <2>10. ASSUME ~erasing.whole, ~moved PROVE /\ q.chosen \in {Nowhere} \cup Visible(q)
                                             /\ q.draft # Nowhere => q.draft = q.chosen
    <3>1. Visible(p) = Visible(page)
      BY <2>2, <2>10 DEF Visible
    <3>2. p.chosen \in {Nowhere} \cup Visible(q)
      BY <2>2, <2>4, <2>10, <3>1 DEF InboxInv, ChosenInView
    <3>3. p.draft # Nowhere => p.draft = p.chosen
      BY <2>2, <2>10 DEF InboxInv, DraftOfChosen
    <3> QED
      BY <2>4, <2>5, <3>2, <3>3
  <2>11. ChosenInView' /\ DraftOfChosen'
    BY <2>4, <2>6, <2>7, <2>10 DEF ChosenInView, DraftOfChosen
  <2>12. Numbered' /\ of' \in [Ever -> Someplace] /\ kept' \subseteq Posted'
    BY <1>1, SameMessages
  <2>13. LoadsSaid' /\ loads' \in [Purposes -> LoadRow] /\ sending' \in Someplace
    BY <1>0, <1>1 DEF InboxInv, InboxShape, LoadsSaid
  <2> QED
    BY <2>1, <2>4, <2>7, <2>8, <2>9, <2>11, <2>12, <2>13
       DEF InboxInv, InboxShape, PageRow, Someplace, Ever, ErasureRow, LoadRow
<1> QED
  BY <1>2, <1>3 DEF EraseNext

\* The button, the end of a deletion that failed, and a read that fails.
LEMMA ReadsShow ==
  ASSUME InboxInv, Reload \/ ReloadAfterFailure \/ \E l \in Purposes : LoadFails(l)
  PROVE  InboxInv'
<1>0. page \in PageRow /\ InboxShape /\ LoadsSaid
  BY DEF InboxInv, InboxShape
<1>1. PICK b \in BOOLEAN : page' = [page EXCEPT !.loading = b]
  BY DEF Reload, ReloadAfterFailure, LoadFails
<1>2. PICK q : q = [page EXCEPT !.loading = b]
  OBVIOUS
<1>3. /\ q \in PageRow /\ q.rows = page.rows /\ q.upTo = page.upTo /\ q.found = page.found
      /\ q.kind = page.kind /\ q.channel = page.channel /\ q.chosen = page.chosen
      /\ q.draft = page.draft
  BY <1>0, <1>2 DEF PageRow
<1>4. /\ of' = of /\ kept' = kept /\ moved' = moved
      /\ loads' \in [Purposes -> LoadRow] /\ LoadsSaid'
      /\ sending' \in Someplace /\ erasing' \in ErasureRow
  <2>1. CASE Reload \/ ReloadAfterFailure
    <3>1. /\ of' = of /\ kept' = kept /\ moved' = moved /\ sending' = sending /\ erasing' = erasing
          /\ Asking("page") \/ Asking("erasure")
      BY <2>1 DEF Reload, ReloadAfterFailure
    <3>2. Posted \subseteq Posted' /\ "page" \in Purposes /\ "erasure" \in Purposes
      BY <3>1 DEF Posted, Ever, Purposes
    <3>3. loads' \in [Purposes -> LoadRow] /\ LoadsSaid'
      BY <1>0, <3>1, <3>2, AskingKeepsLoads
    <3> QED
      BY <1>0, <3>1, <3>3 DEF InboxShape, Someplace, ErasureRow, Ever
  <2>2. ASSUME NEW l \in Purposes, LoadFails(l)
        PROVE  /\ of' = of /\ kept' = kept /\ moved' = moved
               /\ loads' \in [Purposes -> LoadRow] /\ LoadsSaid'
               /\ sending' \in Someplace /\ erasing' \in ErasureRow
    <3>1. LoadSettles(l) /\ moved' = moved
      BY <2>2 DEF LoadFails
    <3> QED
      BY <1>0, <3>1, SettlingKeeps
  <2> QED
    BY <2>1, <2>2
<1>5. Messages /\ Numbered' /\ of' \in [Ever -> Someplace] /\ kept' \subseteq Posted'
  BY <1>4, SameMessages
<1>6. RowsSaid(page)' /\ PinnedPage' /\ ChosenInView' /\ DraftOfChosen'
  BY <1>1, <1>2, <1>3, <1>4, <1>5, SameView
<1>7. page' \in PageRow /\ moved' \in BOOLEAN
  BY <1>0, <1>1, <1>2, <1>3, <1>4 DEF InboxShape
<1> QED
  BY <1>4, <1>5, <1>6, <1>7 DEF InboxInv, InboxShape, PageRow, Someplace, Ever, ErasureRow, LoadRow

\* What was sent is stored and the field is cleared (sendMessage).
LEMMA SendingShows ==
  ASSUME InboxInv, SendAnswered
  PROVE  InboxInv'
<1>0. page \in PageRow /\ InboxShape /\ LoadsSaid /\ Numbered /\ sending \in Threads
  BY DEF InboxInv, InboxShape, SendAnswered, Someplace
<1>1. /\ of' \in [Ever -> Someplace] /\ kept' \subseteq Posted' /\ Posted \subseteq Posted'
      /\ Numbered' /\ \A m \in Posted : of'[m] = of[m]
  BY <1>0, StoreNumbers DEF SendAnswered
<1>2. PICK b \in BOOLEAN : page' = [page EXCEPT !.draft = Nowhere, !.loading = b]
  BY DEF SendAnswered
<1>3. PICK q : q = [page EXCEPT !.draft = Nowhere, !.loading = b]
  OBVIOUS
<1>4. /\ q \in PageRow /\ q.rows = page.rows /\ q.upTo = page.upTo /\ q.found = page.found
      /\ q.kind = page.kind /\ q.channel = page.channel /\ q.chosen = page.chosen
      /\ q.draft = Nowhere
  BY <1>0, <1>3 DEF PageRow, Someplace
<1>5. loads' \in [Purposes -> LoadRow] /\ LoadsSaid'
  <2>1. "send" \in Purposes /\ Asking("send")
    BY DEF SendAnswered, Purposes
  <2> QED
    BY <1>0, <1>1, <2>1, AskingKeepsLoads
<1>6. Messages /\ UNCHANGED <<sending, erasing, moved>>
  BY <1>1 DEF Messages, SendAnswered
<1>7. RowsSaid(page)' /\ PinnedPage' /\ ChosenInView' /\ DraftOfChosen'
  BY <1>2, <1>3, <1>4, <1>6, SameView
<1>8. page' \in PageRow
  BY <1>2, <1>3, <1>4
<1> QED
  BY <1>0, <1>1, <1>5, <1>6, <1>7, <1>8
     DEF InboxInv, InboxShape, PageRow, Someplace, Ever, ErasureRow, LoadRow

\* Messages come and go, and requests are served, behind the page.
LEMMA OthersShowNothing ==
  ASSUME InboxInv,
         \/ \E t \in Threads : MessageArrives(t) \/ SendEmail(t) \/ ClearConversation(t)
         \/ \E m \in Ever : DeletedElsewhere(m)
         \/ \E l \in Purposes : ServeLoad(l)
         \/ PostText \/ SendFails \/ DeleteShown \/ EraseFails
  PROVE  InboxInv'
<1>0. page \in PageRow /\ InboxShape /\ LoadsSaid /\ Numbered /\ erasing \in ErasureRow
  BY DEF InboxInv, InboxShape
<1>1. ASSUME NEW t \in Threads, MessageArrives(t) PROVE InboxInv'
  <2>1. /\ of' \in [Ever -> Someplace] /\ kept' \subseteq Posted' /\ Posted \subseteq Posted'
        /\ Numbered' /\ \A m \in Posted : of'[m] = of[m]
    BY <1>0, <1>1, StoreNumbers DEF MessageArrives
  <2>2. UNCHANGED <<page, loads, sending, erasing, moved>> /\ Messages
    BY <1>1, <2>1 DEF MessageArrives, Messages
  <2>3. LoadsSaid' /\ loads' \in [Purposes -> LoadRow] /\ sending' \in Someplace /\ erasing' \in ErasureRow
    BY <1>0, <2>1, <2>2 DEF LoadsSaid, InboxShape
  <2> QED
    BY <2>1, <2>2, <2>3, Backstage
<1>2. ASSUME UNCHANGED <<page, moved, of, loads>>, kept' \subseteq kept, sending' \in Someplace,
             erasing' \in ErasureRow
      PROVE  InboxInv'
  <2>1. /\ Messages /\ Numbered' /\ of' \in [Ever -> Someplace] /\ kept' \subseteq Posted'
        /\ Posted' = Posted
    BY <1>2, SameMessages
  <2>2. LoadsSaid' /\ loads' \in [Purposes -> LoadRow]
    BY <1>0, <1>2, <2>1 DEF LoadsSaid, InboxShape
  <2> QED
    BY <1>2, <2>1, <2>2, Backstage
<1>3. ASSUME NEW m \in Ever, DeletedElsewhere(m) PROVE InboxInv'
  BY <1>0, <1>2, <1>3 DEF DeletedElsewhere, InboxShape
<1>4. ASSUME NEW t \in Threads, SendEmail(t) PROVE InboxInv'
  BY <1>0, <1>2, <1>4 DEF SendEmail, InboxShape, Someplace
<1>5. CASE PostText
  <2>1. InView(page) \in Someplace
    <3>1. RowsSaid(page)
      BY DEF InboxInv
    <3> QED
      BY <1>0, <3>1, NewestInView DEF Visible, PageRow, Someplace
  <2> QED
    BY <1>0, <1>2, <1>5, <2>1 DEF PostText, InboxShape
<1>6. CASE SendFails
  BY <1>0, <1>2, <1>6 DEF SendFails, InboxShape, Someplace
<1>7. ASSUME NEW t \in Someplace, NEW todo \in SUBSET Ever, NEW whole \in BOOLEAN, Erase(t, todo, whole)
      PROVE  InboxInv'
  <2>1. erasing' \in ErasureRow
    BY <1>7 DEF Erase, NoErasure, ErasureRow
  <2> QED
    BY <1>0, <1>2, <1>7, <2>1 DEF Erase, InboxShape
<1>8. CASE DeleteShown
  <2>1. PICK m \in MessagesOf(InView(page), page.shown) : Erase(InView(page), {m}, FALSE)
    BY <1>8 DEF DeleteShown
  <2>2. m \in Ever
    BY <1>0, <2>1 DEF MessagesOf, PageRow
  <2>3. InView(page) \in Someplace
    <3>1. RowsSaid(page)
      BY DEF InboxInv
    <3> QED
      BY <1>0, <3>1, NewestInView DEF Visible, PageRow, Someplace
  <2> QED
    BY <1>7, <2>1, <2>2, <2>3
<1>9. ASSUME NEW t \in Threads, ClearConversation(t) PROVE InboxInv'
  <2>1. MessagesOf(t, page.shown) \in SUBSET Ever /\ t \in Someplace
    BY <1>0 DEF MessagesOf, PageRow, Someplace
  <2> QED
    BY <1>7, <1>9, <2>1 DEF ClearConversation
<1>10. CASE EraseFails
  <2>1. erasing' \in ErasureRow
    BY <1>0, <1>10 DEF EraseFails, NoErasure, ErasureRow, Someplace
  <2> QED
    BY <1>0, <1>2, <1>10, <2>1 DEF EraseFails, InboxShape
<1>11. ASSUME NEW l \in Purposes, ServeLoad(l) PROVE InboxInv'
  <2>1. PICK n \in 0..MaxStored : Posted = 1..n
    BY <1>0 DEF Numbered
  <2>2. Cardinality(Posted) = n /\ kept \subseteq Posted /\ Posted \subseteq Ever
    <3>1. Cardinality(Posted) = n
      BY <2>1, FS_Interval
    <3>2. kept \subseteq Posted /\ Posted \subseteq Ever
      BY <1>0 DEF InboxShape, Posted
    <3> QED
      BY <3>1, <3>2
  <2>3. PICK r \in LoadRow : /\ r = [pc |-> "answered", saw |-> kept, upTo |-> n]
                             /\ r.saw = kept /\ r.upTo = n
    <3>1. kept \in SUBSET Ever
      BY <2>2
    <3>2. [pc |-> "answered", saw |-> kept, upTo |-> n] \in LoadRow
      BY <2>1, <3>1 DEF LoadRow
    <3> QED
      BY <3>2
  <2>4. loads' = [loads EXCEPT ![l] = r]
    BY <1>0, <1>11, <2>2, <2>3 DEF ServeLoad, InboxShape, LoadRow
  <2>5. loads' \in [Purposes -> LoadRow] /\ \A k \in Purposes : loads'[k] = IF k = l THEN r ELSE loads[k]
    BY <1>0, <2>4 DEF InboxShape
  <2>6. UNCHANGED <<of, kept, page, sending, erasing, moved>>
    BY <1>11 DEF ServeLoad
  <2>7. /\ Messages /\ Numbered' /\ of' \in [Ever -> Someplace] /\ kept' \subseteq Posted'
        /\ Posted' = Posted
    BY <2>6, SameMessages
  <2>8. LoadsSaid'
    BY <1>0, <2>1, <2>2, <2>3, <2>5, <2>7 DEF LoadsSaid
  <2> QED
    BY <1>0, <2>5, <2>6, <2>7, <2>8, Backstage DEF InboxShape
<1> QED
  BY <1>1, <1>3, <1>4, <1>5, <1>6, <1>8, <1>9, <1>10, <1>11

\* What is being written stays under its conversation, for any number of
\* messages and conversations (DraftStaysPut).
THEOREM DraftsStayPut == InboxSpec => []DraftStaysPut
<1>1. InboxInit => InboxInv
  <2> SUFFICES ASSUME InboxInit PROVE InboxInv
    OBVIOUS
  <2>1. PICK kind \in {"inbox", "email"} : page = FirstPage(kind)
    BY DEF InboxInit
  <2>2. /\ page \in PageRow /\ page.rows = {} /\ page.chosen = Nowhere /\ page.draft = Nowhere
    BY <2>1 DEF FirstPage, PageRow, Someplace
  <2>3. \A l \in Purposes : loads[l] \in LoadRow /\ loads[l].pc # "answered"
    BY DEF InboxInit, NoLoad, LoadRow
  <2>4. loads \in [Purposes -> LoadRow]
    <3>1. loads = [l \in Purposes |-> [NoLoad EXCEPT !.pc = IF l = "page" THEN "sent" ELSE "idle"]]
      BY DEF InboxInit
    <3>2. loads = [l \in Purposes |-> loads[l]]
      BY <3>1
    <3> QED
      BY <2>3, <3>2
  <2>5. Posted = {} /\ Posted = 1..0 /\ 0 \in 0..MaxStored
    BY DEF InboxInit, Posted
  <2>6. InboxShape
    BY <2>2, <2>4 DEF InboxInit, InboxShape, NoErasure, ErasureRow, Someplace
  <2>7. Numbered
    BY <2>5 DEF Numbered
  <2>8. Visible(page) = {}
    BY <2>2 DEF Visible
  <2> QED
    BY <2>2, <2>3, <2>6, <2>7, <2>8
       DEF InboxInv, RowsSaid, LoadsSaid, PinnedPage, ChosenInView, DraftOfChosen
<1>2. InboxInv /\ [InboxNext]_inboxVars => InboxInv'
  <2> SUFFICES ASSUME InboxInv, [InboxNext]_inboxVars PROVE InboxInv'
    OBVIOUS
  <2>1. CASE UNCHANGED inboxVars
    <3>1. page \in PageRow /\ InboxShape
      BY DEF InboxInv, InboxShape
    <3>2. UNCHANGED <<of, kept, page, loads, sending, erasing, moved>>
      BY <2>1 DEF inboxVars
    <3>3. /\ Messages /\ Numbered' /\ of' \in [Ever -> Someplace] /\ kept' \subseteq Posted'
          /\ Posted' = Posted
      BY <3>2, SameMessages
    <3>4. LoadsSaid' /\ loads' \in [Purposes -> LoadRow] /\ sending' \in Someplace /\ erasing' \in ErasureRow
      BY <3>1, <3>2, <3>3 DEF InboxInv, LoadsSaid, InboxShape
    <3> QED
      BY <3>2, <3>3, <3>4, Backstage
  <2>2. CASE InboxNext
    BY <2>2, AnswerShows, SearchShows, ChoiceShows, ChannelShows, WritingShows, ErasingShows,
       ReadsShow, SendingShows, OthersShowNothing DEF InboxNext
  <2> QED
    BY <2>1, <2>2
<1>3. InboxInv => DraftStaysPut
  <2> SUFFICES ASSUME InboxInv, page.draft # Nowhere, ~moved PROVE page.draft = InView(page)
    BY DEF DraftStaysPut
  <2>1. page.draft = page.chosen /\ page.chosen \in {Nowhere} \cup Visible(page)
    BY DEF InboxInv, ChosenInView, DraftOfChosen
  <2>2. page.chosen \in Visible(page) /\ InboxShape /\ page \in PageRow /\ RowsSaid(page)
    BY <2>1 DEF InboxInv, InboxShape
  <2> QED
    BY <2>1, <2>2, NewestInView
<1> QED
  BY <1>1, <1>2, <1>3, PTL DEF InboxSpec

HIDE InboxAssumption

----------------------------------------------------------------------------
(* A conversation in the mobile application *)
(* Nothing is said after a deletion: until then the messages of a page are *)
(* a run of numbers, and only its first and its last matter. A press of    *)
(* the button carries what was shown when it was pressed; the newest page  *)
(* may be replaced meanwhile, but only by one that starts no earlier, and  *)
(* slid remembers that it was.                                             *)

USE ThreadAssumption

\* No message twice and none out of order; none left out between two.
Rising(s) == \A i, j \in DOMAIN s : i < j => s[i] < s[j]
Unbroken(s) == \A i \in DOMAIN s : i > 1 => s[i] = s[i - 1] + 1

\* The page that ends with message b, when none was deleted.
Start(b) == IF b > PageSize THEN b - PageSize + 1 ELSE 1
PageTo(pg, b) ==
  /\ pg.items \in Seq(Nat) /\ Len(pg.items) = b - Start(b) + 1
  /\ \A i \in DOMAIN pg.items : pg.items[i] = Start(b) + i - 1
  /\ pg.hasMore = (Start(b) > 1)

\* A rising sequence of n of the numbers 1..n is those numbers.
LEMMA IdentityRises ==
  ASSUME NEW n \in Nat, NEW s \in [1..n -> 1..n], Rising(s)
  PROVE  \A i \in 1..n : s[i] = i
<1> DEFINE Low == {k \in Nat : k + 1 <= n => s[k + 1] >= k + 1}
           High == {k \in Nat : k < n => s[n - k] <= n - k}
<1>1. 0 \in Low
  OBVIOUS
<1>2. ASSUME NEW k \in Nat, k \in Low PROVE k + 1 \in Low
  <2> SUFFICES ASSUME (k + 1) + 1 <= n PROVE s[(k + 1) + 1] >= (k + 1) + 1
    BY k + 1 \in Nat, Zenon
  <2>1. s[k + 1] >= k + 1
    BY <1>2
  <2>2. k + 1 \in DOMAIN s /\ (k + 1) + 1 \in DOMAIN s
    OBVIOUS
  <2>3. s[k + 1] < s[(k + 1) + 1]
    BY <2>2 DEF Rising
  <2>4. s[k + 1] \in Nat /\ s[(k + 1) + 1] \in Nat
    BY <2>2
  <2> QED
    BY <2>1, <2>3, <2>4
<1>3. 0 \in High
  OBVIOUS
<1>4. ASSUME NEW k \in Nat, k \in High PROVE k + 1 \in High
  <2> SUFFICES ASSUME k + 1 < n PROVE s[n - (k + 1)] <= n - (k + 1)
    BY k + 1 \in Nat, Zenon
  <2>1. s[n - k] <= n - k
    BY <1>4
  <2>2. n - k \in DOMAIN s /\ n - (k + 1) \in DOMAIN s /\ n - (k + 1) < n - k
    OBVIOUS
  <2>3. s[n - (k + 1)] < s[n - k]
    BY <2>2 DEF Rising
  <2>4. s[n - k] \in Nat /\ s[n - (k + 1)] \in Nat
    BY SMTT(60), <2>2
  <2> QED
    BY <2>1, <2>3, <2>4
<1> HIDE DEF Low, High
<1>5. \A k \in Nat : k \in Low
  BY <1>1, <1>2, NumbersByInduction
<1>6. \A k \in Nat : k \in High
  BY <1>3, <1>4, NumbersByInduction
<1>7. ASSUME NEW i \in 1..n PROVE s[i] = i
  <2>1. i - 1 \in Nat /\ n - i \in Nat /\ (i - 1) + 1 = i /\ n - (n - i) = i /\ n - i < n
    OBVIOUS
  <2>2. (i - 1) + 1 <= n => s[(i - 1) + 1] >= (i - 1) + 1
    BY <1>5, <2>1 DEF Low
  <2>3. s[n - (n - i)] <= n - (n - i)
    BY <1>6, <2>1 DEF High
  <2> QED
    BY <2>1, <2>2, <2>3
<1> QED
  BY <1>7

\* orderBy createdAt, when none was deleted.
LEMMA OrderOfAll ==
  ASSUME NEW n \in Nat
  PROVE  InOrder(1..n) \in [1..n -> 1..n] /\ \A i \in 1..n : InOrder(1..n)[i] = i
<1>1. Cardinality(1..n) = n
  BY FS_Interval
<1> DEFINE s == [i \in 1..n |-> i]
<1>2. s \in [1..n -> 1..n] /\ \A i, j \in DOMAIN s : i < j => s[i] < s[j]
  OBVIOUS
<1>3. InOrder(1..n) \in [1..n -> 1..n] /\ Rising(InOrder(1..n))
  BY <1>1, <1>2 DEF InOrder, Rising
<1> QED
  BY <1>3, IdentityRises

\* A sequence without its first m elements.
LEMMA LastPart ==
  ASSUME NEW s \in Seq(Nat), NEW m \in Nat, m < Len(s)
  PROVE  LET t == SubSeq(s, m + 1, Len(s))
         IN  t \in Seq(Nat) /\ Len(t) = Len(s) - m /\ \A i \in 1..Len(t) : t[i] = s[m + i]
<1> DEFINE n == Len(s)
<1>1. n \in Nat /\ \A i \in (m + 1)..n : s[i] \in Nat
  OBVIOUS
<1>2. SubSeq(s, m + 1, n) \in Seq(Nat) /\ Len(SubSeq(s, m + 1, n)) = n - m
  BY <1>1, SubSeqProperties
<1>3. \A i \in 1..(n - m) : SubSeq(s, m + 1, n)[i] = s[m + i]
  BY <1>1
<1> QED
  BY <1>2, <1>3

LEMMA NumbersAreSequence ==
  ASSUME NEW n \in Nat, NEW f \in [1..n -> Nat]
  PROVE  f \in Seq(Nat) /\ Len(f) = n
<1>1. f \in Seq(Nat)
  BY SeqDef
<1>2. PICK l \in Nat : l = Len(f) /\ 1..l = 1..n
  <2>1. DOMAIN f = 1..n
    OBVIOUS
  <2> QED
    BY <1>1, <2>1, LenProperties
<1>3. l = n
  <2>1. \A x \in Nat : x \in 1..l <=> x \in 1..n
    BY <1>2
  <2>2. 1 <= l => l <= n
    BY <2>1
  <2>3. 1 <= n => n <= l
    BY <2>1
  <2> QED
    BY <2>2, <2>3
<1> QED
  BY <1>1, <1>2, <1>3

\* What messages returns is the page that ends before the message it was given.
LEMMA PageOfAll ==
  ASSUME erased = {}, written \in Nat, NEW k \in Nat, 1 < k, k <= written + 1
  PROVE  PageTo(PageBefore(k), k - 1)
<1>1. PICK n \in Nat : n = k - 1
  OBVIOUS
<1>2. {m \in Held : Before(m, k)} = 1..n /\ n > 0
  BY <1>1 DEF Held, Before
<1>3. PICK found : found = InOrder({m \in Held : Before(m, k)})
  OBVIOUS
<1>4. found \in [1..n -> 1..n] /\ \A i \in 1..n : found[i] = i
  BY <1>2, <1>3, OrderOfAll
<1>5. found \in Seq(Nat) /\ Len(found) = n
  <2>1. found \in [1..n -> Nat]
    BY <1>4
  <2> QED
    BY <1>1, <2>1, NumbersAreSequence
<1>6. PICK extra \in Nat : extra = IF n > PageSize THEN n - PageSize ELSE 0
  BY <1>1
<1>7. extra < n /\ Start(n) = extra + 1
  BY <1>2, <1>6 DEF Start
<1>8. PICK items : items = SubSeq(found, extra + 1, n)
  OBVIOUS
<1>9. PageBefore(k) = [items |-> items, hasMore |-> extra > 0]
  BY <1>3, <1>5, <1>6, <1>8 DEF PageBefore
<1>10. /\ items \in Seq(Nat) /\ Len(items) = n - extra
       /\ \A i \in 1..Len(items) : items[i] = found[extra + i]
  BY <1>5, <1>7, <1>8, LastPart
<1>11. \A i \in DOMAIN items : items[i] = Start(n) + i - 1
  BY SMTT(60), <1>4, <1>7, <1>10
<1>12. PageBefore(k).items = items /\ PageBefore(k).hasMore = (extra > 0)
  BY <1>9
<1>13. n - Start(n) + 1 = n - extra /\ (extra > 0) = (Start(n) > 1)
  BY <1>7
<1>14. PageTo(PageBefore(k), n)
  BY <1>10, <1>11, <1>12, <1>13 DEF PageTo
<1> QED
  BY <1>1, <1>14

\* Two rising sequences, one after the other.
LEMMA RisingTogether ==
  ASSUME NEW s \in Seq(Nat), NEW t \in Seq(Nat), Rising(s), Rising(t),
         \A i \in DOMAIN s, j \in DOMAIN t : s[i] < t[j]
  PROVE  Rising(s \o t)
<1>1. /\ Len(s \o t) = Len(s) + Len(t) /\ s \o t \in Seq(Nat)
      /\ \A i \in 1..(Len(s) + Len(t)) : (s \o t)[i] = IF i <= Len(s) THEN s[i] ELSE t[i - Len(s)]
  BY ConcatProperties
<1>2. ASSUME NEW i \in DOMAIN (s \o t), NEW j \in DOMAIN (s \o t), i < j
      PROVE  (s \o t)[i] < (s \o t)[j]
  <2>1. i \in 1..(Len(s) + Len(t)) /\ j \in 1..(Len(s) + Len(t)) /\ Len(s) \in Nat /\ Len(t) \in Nat
    BY <1>1
  <2>2. CASE j <= Len(s)
    BY <1>1, <1>2, <2>1, <2>2 DEF Rising
  <2>3. CASE i <= Len(s) /\ j > Len(s)
    <3>1. i \in DOMAIN s /\ j - Len(s) \in DOMAIN t
      BY <2>1, <2>3
    <3> QED
      BY <1>1, <2>1, <2>3, <3>1
  <2>4. CASE i > Len(s)
    <3>1. i - Len(s) \in DOMAIN t /\ j - Len(s) \in DOMAIN t /\ i - Len(s) < j - Len(s)
      BY <1>2, <2>1, <2>4
    <3>2. t[i - Len(s)] < t[j - Len(s)]
      BY <3>1 DEF Rising
    <3> QED
      BY <1>1, <1>2, <2>1, <2>4, <3>2
  <2> QED
    BY <2>1, <2>2, <2>3, <2>4
<1> QED
  BY <1>2 DEF Rising

LEMMA UnbrokenTogether ==
  ASSUME NEW s \in Seq(Nat), NEW t \in Seq(Nat), Unbroken(s), Unbroken(t),
         s # <<>> /\ t # <<>> => s[Len(s)] + 1 = t[1]
  PROVE  Unbroken(s \o t)
<1>1. /\ Len(s \o t) = Len(s) + Len(t) /\ s \o t \in Seq(Nat)
      /\ \A i \in 1..(Len(s) + Len(t)) : (s \o t)[i] = IF i <= Len(s) THEN s[i] ELSE t[i - Len(s)]
  BY ConcatProperties
<1>2. ASSUME NEW i \in DOMAIN (s \o t), i > 1
      PROVE  (s \o t)[i] = (s \o t)[i - 1] + 1
  <2>1. i \in 1..(Len(s) + Len(t)) /\ i - 1 \in 1..(Len(s) + Len(t)) /\ Len(s) \in Nat /\ Len(t) \in Nat
    BY <1>1, <1>2
  <2>2. CASE i <= Len(s)
    <3>1. i \in DOMAIN s
      BY <2>1, <2>2
    <3>2. s[i] = s[i - 1] + 1
      BY <1>2, <3>1 DEF Unbroken
    <3> QED
      BY <1>1, <2>1, <2>2, <3>2
  <2>3. CASE i = Len(s) + 1
    <3>1. Len(s) > 0 /\ Len(t) > 0 /\ i - 1 = Len(s) /\ i - Len(s) = 1
      BY <1>2, <2>1, <2>3
    <3>2. s # <<>> /\ t # <<>>
      BY <3>1
    <3> QED
      BY <1>1, <2>1, <2>3, <3>1, <3>2
  <2>4. CASE i > Len(s) + 1
    <3>1. i - Len(s) \in DOMAIN t /\ i - Len(s) > 1 /\ (i - 1) - Len(s) = (i - Len(s)) - 1
      BY SMTT(60), <1>2, <2>1, <2>4
    <3>2. t[i - Len(s)] = t[(i - Len(s)) - 1] + 1
      BY <3>1 DEF Unbroken
    <3> QED
      BY <1>1, <1>2, <2>1, <2>4, <3>1, <3>2
  <2> QED
    BY <2>1, <2>2, <2>3, <2>4
<1> QED
  BY <1>2 DEF Unbroken

\* A run of messages that ends before message d, and one that stays before it.
UpTo(s, d) == s # <<>> => s[Len(s)] + 1 = d
Below(s, d) == Rising(s) /\ \A i \in DOMAIN s : 1 <= s[i] /\ s[i] < d

\* What a page that ends with b says of its messages.
LEMMA PageRises ==
  ASSUME NEW pg, NEW b \in Nat \ {0}, PageTo(pg, b)
  PROVE  /\ pg.items \in Seq(Nat) /\ pg.items # <<>> /\ pg.items[1] = Start(b)
         /\ pg.items[Len(pg.items)] = b
         /\ Rising(pg.items) /\ Unbroken(pg.items)
         /\ 1 <= Start(b) /\ Start(b) <= b /\ Start(b) \in Nat
         /\ \A i \in DOMAIN pg.items : Start(b) <= pg.items[i] /\ pg.items[i] <= b
         /\ pg.hasMore <=> pg.items[1] # 1
<1>1. Start(b) \in Nat /\ 1 <= Start(b) /\ Start(b) <= b
  BY DEF Start
<1>2. PICK s : s = pg.items
  OBVIOUS
<1>3. PICK a \in Nat : a = Start(b)
  BY <1>1
<1>4. s \in Seq(Nat) /\ Len(s) = b - a + 1 /\ \A i \in DOMAIN s : s[i] = a + i - 1
  BY <1>2, <1>3 DEF PageTo
<1>5. Len(s) \in Nat /\ Len(s) >= 1 /\ DOMAIN s = 1..Len(s) /\ s # <<>>
  BY <1>1, <1>3, <1>4
<1>6. s[1] = a /\ s[Len(s)] = b
  <2>1. 1 \in DOMAIN s /\ Len(s) \in DOMAIN s
    BY <1>5
  <2>2. s[1] = a + 1 - 1 /\ s[Len(s)] = a + Len(s) - 1
    BY <1>4, <2>1
  <2>3. a + Len(s) - 1 = b
    BY <1>4, <1>5
  <2> QED
    BY <2>2, <2>3
<1>7. Rising(s)
  BY <1>4, <1>5 DEF Rising
<1>8. Unbroken(s)
  BY <1>4, <1>5 DEF Unbroken
<1>9. \A i \in DOMAIN s : a <= s[i] /\ s[i] <= b
  <2>1. ASSUME NEW i \in DOMAIN s PROVE a <= s[i] /\ s[i] <= b
    <3>1. s[i] = a + i - 1
      BY <1>4
    <3>2. i \in Nat /\ 1 <= i /\ i <= b - a + 1
      BY <1>4, <1>5
    <3> QED
      BY <3>1, <3>2
  <2> QED
    BY <2>1
<1>10. pg.hasMore <=> s[1] # 1
  <2>1. pg.hasMore = (a > 1)
    BY <1>3 DEF PageTo
  <2>2. a > 1 <=> s[1] # 1
    BY <1>1, <1>3, <1>6
  <2> QED
    BY <2>1, <2>2, Zenon
<1> QED
  BY <1>1, <1>2, <1>3, <1>4, <1>5, <1>6, <1>7, <1>8, <1>9, <1>10

\* The ends of two sequences, one after the other.
LEMMA FirstOfBoth ==
  ASSUME NEW s \in Seq(Nat), NEW t \in Seq(Nat)
  PROVE  /\ s \o t \in Seq(Nat)
         /\ s # <<>> => s \o t # <<>> /\ (s \o t)[1] = s[1]
         /\ s = <<>> => s \o t = t
         /\ t = <<>> => s \o t = s
         /\ t # <<>> => (s \o t)[Len(s \o t)] = t[Len(t)]
<1>1. /\ Len(s \o t) = Len(s) + Len(t) /\ s \o t \in Seq(Nat)
      /\ \A i \in 1..(Len(s) + Len(t)) : (s \o t)[i] = IF i <= Len(s) THEN s[i] ELSE t[i - Len(s)]
  BY ConcatProperties
<1>2. ASSUME s # <<>> PROVE s \o t # <<>> /\ (s \o t)[1] = s[1]
  <2>1. Len(s) \in Nat /\ Len(s) >= 1 /\ Len(t) \in Nat
    BY <1>2
  <2> QED
    BY <1>1, <2>1
<1>3. ASSUME t # <<>> PROVE (s \o t)[Len(s \o t)] = t[Len(t)]
  <2>1. Len(t) \in Nat /\ Len(t) >= 1 /\ Len(s) \in Nat
    BY <1>3
  <2>2. Len(s) + Len(t) \in 1..(Len(s) + Len(t)) /\ ~ (Len(s) + Len(t) <= Len(s)) /\ (Len(s) + Len(t)) - Len(s) = Len(t)
    BY <2>1
  <2> QED
    BY <1>1, <2>2
<1> QED
  BY <1>1, <1>2, <1>3, ConcatEmptySeq

\* A page put in front of what it was read before.
LEMMA PagePrepended ==
  ASSUME NEW pg, NEW c \in Nat, 1 < c, NEW d \in Nat, c <= d, PageTo(pg, c - 1),
         NEW t \in Seq(Nat), Below(t, d), t # <<>> => t[1] = c
  PROVE  LET s == pg.items \o t
         IN  /\ s \in Seq(Nat) /\ s # <<>> /\ Below(s, d)
             /\ pg.hasMore <=> s[1] # 1
             /\ Unbroken(t) /\ UpTo(t, d) /\ (t = <<>> => c = d) => Unbroken(s) /\ UpTo(s, d)
<1>1. PICK p : p = pg.items
  OBVIOUS
<1>2. c - 1 \in Nat \ {0}
  OBVIOUS
<1>3. /\ p \in Seq(Nat) /\ p # <<>> /\ p[Len(p)] = c - 1
      /\ Rising(p) /\ Unbroken(p)
      /\ \A i \in DOMAIN p : 1 <= p[i] /\ p[i] <= c - 1 /\ p[i] \in Nat
      /\ pg.hasMore <=> p[1] # 1
  <2> HIDE DEF PageTo
  <2>1. PICK a \in Nat : a = Start(c - 1) /\ 1 <= a
    BY <1>2, PageRises
  <2>2. /\ p \in Seq(Nat) /\ p # <<>> /\ p[Len(p)] = c - 1 /\ Rising(p) /\ Unbroken(p)
        /\ \A i \in DOMAIN p : a <= p[i] /\ p[i] <= c - 1
        /\ pg.hasMore <=> p[1] # 1
    BY <1>1, <1>2, <2>1, PageRises
  <2> QED
    BY <2>1, <2>2
<1>4. \A j \in DOMAIN t : t[j] \in Nat /\ c <= t[j] /\ 1 <= t[j] /\ t[j] < d
  <2> SUFFICES ASSUME NEW j \in DOMAIN t PROVE t[j] \in Nat /\ c <= t[j] /\ 1 <= t[j] /\ t[j] < d
    OBVIOUS
  <2>1. t # <<>> /\ 1 \in DOMAIN t /\ j \in Nat /\ 1 <= j /\ t[j] \in Nat /\ t[1] \in Nat
    OBVIOUS
  <2>2. 1 < j => t[1] < t[j]
    BY <2>1 DEF Below, Rising
  <2> QED
    BY <2>1, <2>2 DEF Below
<1>5. PICK s : s = p \o t
  OBVIOUS
<1>6. s \in Seq(Nat) /\ s # <<>> /\ s[1] = p[1]
  BY <1>3, <1>5, FirstOfBoth
<1>7. Rising(s)
  <2>1. \A i \in DOMAIN p, j \in DOMAIN t : p[i] < t[j]
    BY <1>3, <1>4
  <2> QED
    BY <1>3, <1>5, <2>1, RisingTogether DEF Below
<1>8. \A i \in DOMAIN s : 1 <= s[i] /\ s[i] < d
  <2>1. /\ DOMAIN s = 1..(Len(p) + Len(t))
        /\ \A i \in 1..(Len(p) + Len(t)) : s[i] = IF i <= Len(p) THEN p[i] ELSE t[i - Len(p)]
    BY <1>3, <1>5, ConcatProperties
  <2> SUFFICES ASSUME NEW i \in DOMAIN s PROVE 1 <= s[i] /\ s[i] < d
    OBVIOUS
  <2>2. Len(p) \in Nat /\ Len(t) \in Nat /\ i \in 1..(Len(p) + Len(t))
    BY <1>3, <2>1
  <2>3. CASE i <= Len(p)
    <3>1. i \in DOMAIN p
      BY <1>3, <2>2, <2>3
    <3> QED
      BY <1>3, <2>1, <2>2, <2>3, <3>1
  <2>4. CASE i > Len(p)
    <3>1. i - Len(p) \in DOMAIN t /\ ~ (i <= Len(p))
      BY <2>2, <2>4
    <3> QED
      BY <1>4, <2>1, <2>2, <3>1
  <2> QED
    BY <2>2, <2>3, <2>4
<1>9. ASSUME Unbroken(t), UpTo(t, d), t = <<>> => c = d PROVE Unbroken(s) /\ UpTo(s, d)
  <2>1. p # <<>> /\ t # <<>> => p[Len(p)] + 1 = t[1]
    BY <1>3
  <2>2. Unbroken(s)
    BY <1>3, <1>5, <1>9, <2>1, UnbrokenTogether
  <2>3. CASE t = <<>>
    <3>1. s = p
      BY <1>3, <1>5, <2>3, FirstOfBoth
    <3> QED
      BY <1>3, <1>9, <2>2, <2>3, <3>1 DEF UpTo
  <2>4. CASE t # <<>>
    <3>1. s[Len(s)] = t[Len(t)]
      BY <1>3, <1>5, <2>4, FirstOfBoth
    <3> QED
      BY <1>9, <2>2, <2>4, <3>1 DEF UpTo
  <2> QED
    BY <2>3, <2>4
<1>10. Below(s, d) /\ (pg.hasMore <=> s[1] # 1)
  BY <1>3, <1>6, <1>7, <1>8 DEF Below
<1> QED
  BY <1>1, <1>5, <1>6, <1>9, <1>10

Pages == [items : Seq(Nat), hasMore : BOOLEAN]
Reads == [pc : {"idle", "sent", "answered"}, page : Pages]
Asks == [pc : {"idle", "sent", "answered"}, before : Nat, older : Seq(Nat), page : Pages]
Views == [loaded : BOOLEAN, failed : BOOLEAN, data : Pages, paged : BOOLEAN, older : Pages,
          draft : BOOLEAN]

ThreadTyped ==
  /\ written \in Nat \ {0} /\ ticket \in 1..MaxTickets
  /\ fetches \in [1..MaxTickets -> Reads] /\ view \in Views /\ taps \in [Taps -> Asks]
  /\ slid \in BOOLEAN

\* A page of the n messages there were, from its first to one of them.
Whole(pg, n) == \E b \in 1..n : PageTo(pg, b)

\* The newest page was read whole, and one under way starts no earlier.
ReadsWhole ==
  /\ \A k \in 1..MaxTickets : fetches[k].pc = "answered" => Whole(fetches[k].page, written)
  /\ view.loaded => Whole(view.data, written)
  /\ view.loaded /\ fetches[ticket].pc = "answered" =>
       view.data.items[1] <= fetches[ticket].page.items[1]

\* What the closure of a press was given: the first message on the screen then,
\* and the older messages that were shown, which start with it.
AskBefore(t, d) ==
  /\ 1 < taps[t].before /\ taps[t].before <= d
  /\ Below(taps[t].older, d)
  /\ taps[t].older # <<>> => taps[t].older[1] = taps[t].before
  /\ ~slid => /\ Unbroken(taps[t].older) /\ UpTo(taps[t].older, d)
              /\ taps[t].older = <<>> => taps[t].before = d
  /\ taps[t].pc = "answered" => PageTo(taps[t].page, taps[t].before - 1)

\* The older messages on the screen.
OlderBefore(d) ==
  /\ view.older.items # <<>> /\ Below(view.older.items, d)
  /\ view.older.hasMore <=> view.older.items[1] # 1
  /\ ~slid => Unbroken(view.older.items) /\ UpTo(view.older.items, d)

AsksBefore(d) == \A t \in Taps : taps[t].pc # "idle" => AskBefore(t, d)

\* All of them come before the newest page, wherever it starts by now.
AllBefore ==
  IF view.loaded
  THEN /\ view.paged => OlderBefore(view.data.items[1])
       /\ ~view.paged => view.older.items = <<>>
       /\ AsksBefore(view.data.items[1])
  ELSE ~view.paged /\ view.older.items = <<>> /\ \A t \in Taps : taps[t].pc = "idle"

ThreadInv == erased = {} => ThreadTyped /\ ReadsWhole /\ AllBefore

LEMMA ThreadInitially == ThreadInit => ThreadInv
<1> SUFFICES ASSUME ThreadInit PROVE ThreadTyped /\ ReadsWhole /\ AllBefore
  BY DEF ThreadInv
<1>1. Page \in Pages
  BY DEF Page, Pages
<1>2. NoFetch \in Reads /\ [NoFetch EXCEPT !.pc = "sent"] \in Reads
  BY <1>1 DEF NoFetch, Reads
<1>3. NoTap \in Asks
  BY <1>1 DEF NoTap, Asks
<1>4. view \in Views
  BY <1>1 DEF Views, ThreadInit
<1>5. ThreadTyped
  <2>1. fetches \in [1..MaxTickets -> Reads]
    BY <1>2 DEF ThreadInit
  <2>2. taps \in [Taps -> Asks]
    BY <1>3 DEF ThreadInit
  <2>3. written \in Nat \ {0}
    BY DEF ThreadInit
  <2>4. ticket \in 1..MaxTickets
    BY DEF ThreadInit
  <2>5. slid \in BOOLEAN
    BY DEF ThreadInit
  <2> QED
    BY <1>4, <2>1, <2>2, <2>3, <2>4, <2>5 DEF ThreadTyped
<1>6. ReadsWhole
  <2>1. ~view.loaded
    BY DEF ThreadInit
  <2>2. ASSUME NEW k \in 1..MaxTickets PROVE fetches[k].pc # "answered"
    BY DEF ThreadInit, NoFetch
  <2> QED
    BY <2>1, <2>2 DEF ReadsWhole
<1>7. AllBefore
  BY DEF ThreadInit, AllBefore, NoTap, Page
<1> QED
  BY <1>5, <1>6, <1>7

LEMMA FirstOfWhole ==
  ASSUME NEW n \in Nat, NEW pg, Whole(pg, n)
  PROVE  /\ pg.items \in Seq(Nat) /\ pg.items # <<>> /\ pg.items[1] \in Nat /\ 1 <= pg.items[1]
         /\ Rising(pg.items) /\ Unbroken(pg.items)
         /\ \A i \in DOMAIN pg.items : pg.items[1] <= pg.items[i]
         /\ pg.hasMore <=> pg.items[1] # 1
<1>1. PICK b \in 1..n : PageTo(pg, b)
  BY DEF Whole
<1>2. b \in Nat \ {0}
  BY <1>1
<1> HIDE DEF PageTo, Start
<1> QED
  BY <1>1, <1>2, PageRises

\* A page that is read later starts at the same message or at a later one.
LEMMA LaterPage ==
  ASSUME NEW n \in Nat \ {0}, NEW new, PageTo(new, n)
  PROVE  Whole(new, n) /\ \A pg : Whole(pg, n) => pg.items[1] <= new.items[1]
<1>1. Whole(new, n)
  BY DEF Whole
<1>2. ASSUME NEW pg, Whole(pg, n) PROVE pg.items[1] <= new.items[1]
  <2>1. PICK b \in 1..n : PageTo(pg, b)
    BY <1>2 DEF Whole
  <2>2. b \in Nat \ {0} /\ b <= n
    BY <2>1
  <2>3. pg.items[1] = Start(b) /\ new.items[1] = Start(n)
    BY <2>1, <2>2, PageRises
  <2>4. Start(b) <= Start(n)
    BY <2>2 DEF Start
  <2> QED
    BY <2>3, <2>4
<1> QED
  BY <1>1, <1>2

LEMMA WholeStays ==
  ASSUME NEW n \in Nat, NEW m \in Nat, n <= m, NEW pg, Whole(pg, n)
  PROVE  Whole(pg, m)
<1>1. PICK b \in 1..n : PageTo(pg, b)
  BY DEF Whole
<1>2. b \in 1..m
  BY <1>1
<1> HIDE DEF PageTo
<1> QED
  BY <1>1, <1>2 DEF Whole

LEMMA OlderPage ==
  ASSUME erased = {}, written \in Nat \ {0}, NEW k \in Nat, 1 < k, k <= written + 1
  PROVE  PageTo(PageBefore(k), k - 1) /\ PageBefore(k) \in Pages
<1>2. PageTo(PageBefore(k), k - 1)
  BY PageOfAll
<1>3. PageBefore(k) \in Pages
  <2>1. PICK i, h : PageBefore(k) = [items |-> i, hasMore |-> h]
    BY DEF PageBefore
  <2>2. i \in Seq(Nat) /\ h \in BOOLEAN
    BY <1>2, <2>1 DEF PageTo
  <2> QED
    BY <2>1, <2>2 DEF Pages
<1> QED
  BY <1>2, <1>3

LEMMA MessagesComeInOrder ==
  ASSUME ThreadInv, erased = {}, written' \in Nat, written <= written',
         UNCHANGED <<erased, ticket, fetches, view, taps, slid>>
  PROVE  ThreadInv'
<1>1. ThreadTyped /\ ReadsWhole /\ AllBefore
  BY DEF ThreadInv
<1>2. ThreadTyped'
  BY <1>1 DEF ThreadTyped
<1>3. ASSUME NEW pg, Whole(pg, written) PROVE Whole(pg, written')
  BY <1>1, <1>3, WholeStays DEF ThreadTyped
<1>4. ReadsWhole'
  BY <1>1, <1>3 DEF ReadsWhole
<1>5. AllBefore'
  BY <1>1 DEF AllBefore, AsksBefore, AskBefore, OlderBefore
<1> QED
  BY <1>2, <1>4, <1>5 DEF ThreadInv
LEMMA NewestPage ==
  ASSUME erased = {}, written \in Nat \ {0}
  PROVE  PageTo(PageBefore(written + 1), written) /\ PageBefore(written + 1) \in Pages
<1>1. PICK k \in Nat : k = written + 1 /\ 1 < k /\ k <= written + 1 /\ k - 1 = written
  OBVIOUS
<1> HIDE DEF PageTo
<1> QED
  BY <1>1, OlderPage

\* What is shown stays.
SamePages ==
  /\ view'.loaded = view.loaded /\ view'.data = view.data
  /\ view'.paged = view.paged /\ view'.older = view.older

LEMMA PagesStay ==
  ASSUME AllBefore, SamePages, UNCHANGED <<taps, slid>>
  PROVE  AllBefore'
BY DEF AllBefore, AsksBefore, AskBefore, OlderBefore, SamePages

LEMMA ViewChanges ==
  ASSUME NEW v \in Views
  PROVE  /\ \A d \in BOOLEAN :
              /\ [v EXCEPT !.draft = d] \in Views
              /\ [v EXCEPT !.draft = d].loaded = v.loaded
              /\ [v EXCEPT !.draft = d].data = v.data
              /\ [v EXCEPT !.draft = d].paged = v.paged
              /\ [v EXCEPT !.draft = d].older = v.older
         /\ \A d \in BOOLEAN :
              /\ [v EXCEPT !.failed = d] \in Views
              /\ [v EXCEPT !.failed = d].loaded = v.loaded
              /\ [v EXCEPT !.failed = d].data = v.data
              /\ [v EXCEPT !.failed = d].paged = v.paged
              /\ [v EXCEPT !.failed = d].older = v.older
BY DEF Views

LEMMA ReadIs ==
  ASSUME NEW r \in Reads
  PROVE  [r EXCEPT !.pc = "sent"] \in Reads /\ [r EXCEPT !.pc = "sent"].pc = "sent"
BY DEF Reads

LEMMA EmptyHanded ==
  /\ NoFetch \in Reads /\ NoFetch.pc = "idle" /\ NoTap \in Asks /\ NoTap.pc = "idle"
BY DEF NoFetch, NoTap, Page, Pages, Reads, Asks

\* What is asked for once more changes nothing of what is shown.
LEMMA RefetchAsks ==
  ASSUME ThreadTyped, ReadsWhole, AllBefore, Refetch, written' = written, UNCHANGED <<taps, slid>>,
         SamePages, view' \in Views
  PROVE  ThreadTyped' /\ ReadsWhole' /\ AllBefore'
<1>1. ticket' \in 1..MaxTickets /\ ticket' = ticket + 1
  BY DEF Refetch, ThreadTyped
<1>2. /\ fetches' \in [1..MaxTickets -> Reads] /\ fetches'[ticket'].pc = "sent"
      /\ \A k \in 1..MaxTickets : k # ticket' => fetches'[k] = fetches[k]
  <2>1. fetches[ticket'] \in Reads
    BY <1>1 DEF ThreadTyped
  <2>2. fetches' = [fetches EXCEPT ![ticket'] = [fetches[ticket'] EXCEPT !.pc = "sent"]]
    BY <1>1 DEF Refetch
  <2> QED
    BY <1>1, <2>1, <2>2, ReadIs DEF ThreadTyped
<1>3. ThreadTyped'
  BY <1>1, <1>2 DEF ThreadTyped
<1>4. ReadsWhole'
  <2>1. ASSUME NEW k \in 1..MaxTickets, fetches'[k].pc = "answered"
        PROVE  Whole(fetches'[k].page, written')
    <3>1. k # ticket'
      BY <1>2, <2>1
    <3>2. fetches'[k] = fetches[k]
      BY <1>2, <3>1
    <3> QED
      BY <2>1, <3>2 DEF ReadsWhole
  <2>2. view'.loaded => Whole(view'.data, written')
    BY DEF ReadsWhole, SamePages
  <2>3. fetches'[ticket'].pc # "answered"
    BY <1>2
  <2> QED
    BY <2>1, <2>2, <2>3 DEF ReadsWhole
<1> QED
  BY <1>3, <1>4, PagesStay

LEMMA FetchIsServed ==
  ASSUME ThreadInv, erased = {}, NEW k \in 1..MaxTickets, ServeFetch(k)
  PROVE  ThreadInv'
<1>1. ThreadTyped /\ ReadsWhole /\ AllBefore
  BY DEF ThreadInv
<1>2. PICK new : new = PageBefore(written + 1)
  OBVIOUS
<1>3. written \in Nat \ {0} /\ ticket \in 1..MaxTickets
  BY <1>1 DEF ThreadTyped
<1>4. PageTo(new, written) /\ new \in Pages
  BY <1>2, <1>3, NewestPage
<1>5. UNCHANGED <<written, erased, ticket, view, taps, slid>>
  BY DEF ServeFetch, threadRows
<1>6. /\ fetches' \in [1..MaxTickets -> Reads]
      /\ fetches'[k].page = new
      /\ \A j \in 1..MaxTickets : j # k => fetches'[j] = fetches[j]
  <2>1. [pc |-> "answered", page |-> new] \in Reads
    BY <1>4 DEF Reads
  <2>2. fetches' = [fetches EXCEPT ![k] = [pc |-> "answered", page |-> new]]
    BY <1>2 DEF ServeFetch
  <2> QED
    BY <1>1, <2>1, <2>2 DEF ThreadTyped
<1>7. ThreadTyped'
  BY <1>1, <1>5, <1>6 DEF ThreadTyped
<1>8. Whole(new, written) /\ \A pg : Whole(pg, written) => pg.items[1] <= new.items[1]
  BY <1>3, <1>4, LaterPage
<1>9. ReadsWhole'
  <2>1. ASSUME NEW j \in 1..MaxTickets, fetches'[j].pc = "answered"
        PROVE  Whole(fetches'[j].page, written')
    BY <1>1, <1>5, <1>6, <1>8, <2>1 DEF ReadsWhole
  <2>2. view'.loaded => Whole(view'.data, written')
    BY <1>1, <1>5 DEF ReadsWhole
  <2>3. ASSUME view'.loaded, fetches'[ticket'].pc = "answered"
        PROVE  view'.data.items[1] <= fetches'[ticket'].page.items[1]
    <3>1. CASE ticket = k
      BY <1>5, <1>6, <1>8, <2>2, <2>3, <3>1
    <3>2. CASE ticket # k
      BY <1>1, <1>3, <1>5, <1>6, <2>3, <3>2 DEF ReadsWhole
    <3> QED
      BY <3>1, <3>2
  <2> QED
    BY <2>1, <2>2, <2>3 DEF ReadsWhole
<1>10. AllBefore'
  BY <1>1, <1>5, PagesStay DEF SamePages
<1> QED
  BY <1>7, <1>9, <1>10 DEF ThreadInv

\* A fetch that is over.
LEMMA FetchEnds ==
  ASSUME ThreadTyped, NEW k \in 1..MaxTickets, fetches' = [fetches EXCEPT ![k] = NoFetch]
  PROVE  /\ fetches' \in [1..MaxTickets -> Reads] /\ fetches'[k].pc = "idle"
         /\ \A j \in 1..MaxTickets : j # k => fetches'[j] = fetches[j]
         /\ \A j \in 1..MaxTickets :
              fetches'[j].pc = "answered" => fetches'[j] = fetches[j] /\ j # k
<1>1. fetches \in [1..MaxTickets -> Reads]
  BY DEF ThreadTyped
<1>2. /\ fetches' \in [1..MaxTickets -> Reads] /\ fetches'[k].pc = "idle"
      /\ \A j \in 1..MaxTickets : j # k => fetches'[j] = fetches[j]
  BY <1>1, EmptyHanded
<1>3. ASSUME NEW j \in 1..MaxTickets, fetches'[j].pc = "answered" PROVE j # k
  BY <1>2, <1>3
<1> QED
  BY <1>2, <1>3

\* The newest page is replaced by one that starts where it did or later.
LEMMA NewestIsShown ==
  ASSUME ThreadInv, erased = {}, NEW k \in 1..MaxTickets, FetchAnswered(k)
  PROVE  ThreadInv'
<1>1. ThreadTyped /\ ReadsWhole /\ AllBefore
  BY DEF ThreadInv
<1>2. UNCHANGED <<written, erased, ticket, taps>> /\ fetches[k].pc = "answered"
  BY DEF FetchAnswered, threadRows
<1>3. /\ fetches' \in [1..MaxTickets -> Reads] /\ fetches'[k].pc = "idle"
      /\ \A j \in 1..MaxTickets :
           fetches'[j].pc = "answered" => fetches'[j] = fetches[j] /\ j # k
  BY <1>1, FetchEnds DEF FetchAnswered
<1>4. written \in Nat \ {0} /\ ticket \in 1..MaxTickets
  BY <1>1 DEF ThreadTyped
<1>5. \A j \in 1..MaxTickets : fetches'[j].pc = "answered" => Whole(fetches'[j].page, written')
  BY <1>1, <1>2, <1>3 DEF ReadsWhole
<1>6. CASE k # ticket
  <2>1. UNCHANGED <<view, slid>>
    BY <1>6 DEF FetchAnswered
  <2>2. ThreadTyped'
    BY <1>1, <1>2, <1>3, <2>1 DEF ThreadTyped
  <2>3. ReadsWhole'
    BY <1>1, <1>2, <1>3, <1>4, <1>5, <2>1 DEF ReadsWhole
  <2>4. AllBefore'
    BY <1>1, <1>2, <2>1, PagesStay DEF SamePages
  <2> QED
    BY <2>2, <2>3, <2>4 DEF ThreadInv
<1>7. CASE k = ticket
  <2>1. PICK new : new = fetches[k].page
    OBVIOUS
  <2>2. new \in Pages /\ Whole(new, written)
    BY <1>1, <1>2, <2>1 DEF ThreadTyped, ReadsWhole, Reads
  <2>3. /\ view' = [view EXCEPT !.loaded = TRUE, !.failed = FALSE, !.data = new]
        /\ slid' = (slid \/ (new # view.data
                              /\ (view.paged \/ \E t \in Taps : taps[t].pc # "idle")))
    BY <1>7, <2>1 DEF FetchAnswered
  <2>4. view \in Views /\ slid \in BOOLEAN
    BY <1>1 DEF ThreadTyped
  <2>5. /\ view' \in Views /\ view'.loaded /\ view'.data = new
        /\ view'.paged = view.paged /\ view'.older = view.older
    BY <2>2, <2>3, <2>4 DEF Views
  <2>6. ThreadTyped'
    BY <1>1, <1>2, <1>3, <2>3, <2>4, <2>5 DEF ThreadTyped
  <2>7. ReadsWhole'
    <3>1. fetches'[ticket'].pc # "answered"
      BY <1>2, <1>3, <1>7
    <3> QED
      BY <1>2, <1>5, <2>2, <2>5, <3>1 DEF ReadsWhole
  <2>8. AllBefore'
    <3>1. CASE ~view.loaded
      <4>1. ~view.paged /\ view.older.items = <<>> /\ \A t \in Taps : taps[t].pc = "idle"
        BY <1>1, <3>1 DEF AllBefore
      <4> QED
        BY <1>2, <2>5, <4>1 DEF AllBefore, AsksBefore
    <3>2. CASE view.loaded
      <4>1. PICK d, e : d = view.data.items[1] /\ e = new.items[1]
        OBVIOUS
      <4>2. d \in Nat /\ e \in Nat /\ d <= e
        <5>1. Whole(view.data, written)
          BY <1>1, <3>2 DEF ReadsWhole
        <5>2. d \in Nat /\ e \in Nat
          BY <1>4, <2>2, <4>1, <5>1, FirstOfWhole
        <5>3. d <= e
          BY <1>1, <1>2, <1>7, <2>1, <3>2, <4>1 DEF ReadsWhole
        <5> QED
          BY <5>2, <5>3
      <4>3. ASSUME NEW s \in Seq(Nat), Below(s, d) PROVE Below(s, e)
        <5>1. \A i \in DOMAIN s : s[i] \in Nat
          OBVIOUS
        <5> QED
          BY <4>2, <4>3, <5>1 DEF Below
      <4>4. ASSUME ~slid', view.paged \/ \E t \in Taps : taps[t].pc # "idle" PROVE ~slid /\ d = e
        BY <2>3, <2>4, <4>1, <4>4
      <4>5. view.older.items \in Seq(Nat) /\ \A t \in Taps : taps[t].older \in Seq(Nat)
                                                            /\ taps[t].before \in Nat
        BY <1>1 DEF ThreadTyped, Views, Asks, Pages
      <4>6. ASSUME view.paged PROVE OlderBefore(e)'
        <5>1. OlderBefore(d)
          BY <1>1, <3>2, <4>1, <4>6 DEF AllBefore
        <5>2. Below(view.older.items, e)
          BY <4>3, <4>5, <5>1 DEF OlderBefore
        <5>3. ~slid' => Unbroken(view.older.items) /\ UpTo(view.older.items, e)
          BY <4>4, <4>6, <5>1 DEF OlderBefore
        <5> QED
          BY <2>5, <5>1, <5>2, <5>3 DEF OlderBefore
      <4>7. ASSUME NEW t \in Taps, taps[t].pc # "idle" PROVE AskBefore(t, e)'
        <5>1. AskBefore(t, d)
          BY <1>1, <3>2, <4>1, <4>7 DEF AllBefore, AsksBefore
        <5>2. Below(taps[t].older, e)
          BY <4>3, <4>5, <5>1 DEF AskBefore
        <5>3. taps[t].before <= e
          BY <4>2, <4>5, <5>1 DEF AskBefore
        <5>4. ~slid' => /\ Unbroken(taps[t].older) /\ UpTo(taps[t].older, e)
                        /\ taps[t].older = <<>> => taps[t].before = e
          BY <4>4, <4>7, <5>1 DEF AskBefore
        <5> HIDE DEF PageTo
        <5> QED
          BY <1>2, <5>1, <5>2, <5>3, <5>4 DEF AskBefore
      <4>8. ~view.paged => view.older.items = <<>>
        BY <1>1, <3>2 DEF AllBefore
      <4> QED
        BY <1>2, <2>5, <4>1, <4>6, <4>7, <4>8 DEF AllBefore, AsksBefore
    <3> QED
      BY <3>1, <3>2
  <2> QED
    BY <2>6, <2>7, <2>8 DEF ThreadInv
<1> QED
  BY <1>6, <1>7
LEMMA FailedFetchEnds ==
  ASSUME ThreadInv, erased = {}, NEW k \in 1..MaxTickets, FetchFails(k)
  PROVE  ThreadInv'
<1>1. ThreadTyped /\ ReadsWhole /\ AllBefore
  BY DEF ThreadInv
<1>2. UNCHANGED <<written, erased, ticket, taps, slid>>
  BY DEF FetchFails, threadRows
<1>3. /\ fetches' \in [1..MaxTickets -> Reads]
      /\ \A j \in 1..MaxTickets :
           fetches'[j].pc = "answered" => fetches'[j] = fetches[j] /\ j # k
  BY <1>1, FetchEnds DEF FetchFails
<1>4. view' \in Views /\ SamePages
  <2>1. view \in Views /\ (~view.loaded) \in BOOLEAN
    BY <1>1 DEF ThreadTyped, Views
  <2>2. view' = [view EXCEPT !.failed = ~view.loaded] \/ view' = view
    BY DEF FetchFails
  <2>3. CASE view' = view
    BY <2>1, <2>3 DEF SamePages
  <2>4. CASE view' = [view EXCEPT !.failed = ~view.loaded]
    BY <2>1, <2>4, ViewChanges DEF SamePages
  <2> QED
    BY <2>2, <2>3, <2>4
<1>5. ThreadTyped'
  BY <1>1, <1>2, <1>3, <1>4 DEF ThreadTyped
<1>6. ReadsWhole'
  BY <1>1, <1>2, <1>3, <1>4 DEF ReadsWhole, SamePages, ThreadTyped
<1>7. AllBefore'
  BY <1>1, <1>2, <1>4, PagesStay
<1> QED
  BY <1>5, <1>6, <1>7 DEF ThreadInv

\* What is read of older messages has nothing to do with the newest.
LEMMA TapChanges ==
  ASSUME ThreadTyped, ReadsWhole, UNCHANGED <<written, ticket, fetches, slid>>,
         view'.loaded = view.loaded, view'.data = view.data, view' \in Views,
         taps' \in [Taps -> Asks]
  PROVE  ThreadTyped' /\ ReadsWhole'
BY DEF ThreadTyped, ReadsWhole

LEMMA OlderIsServed ==
  ASSUME ThreadInv, erased = {}, NEW t \in Taps, ServeTap(t)
  PROVE  ThreadInv'
<1>1. ThreadTyped /\ ReadsWhole /\ AllBefore
  BY DEF ThreadInv
<1>2. UNCHANGED <<written, erased, ticket, fetches, view, slid>> /\ taps[t].pc = "sent"
  BY DEF ServeTap, threadRows
<1>3. PICK k, new : k = taps[t].before /\ new = PageBefore(taps[t].before)
  OBVIOUS
<1>4. view.loaded /\ AsksBefore(view.data.items[1])
  BY <1>1, <1>2 DEF AllBefore
<1>5. taps[t] \in Asks /\ k \in Nat
  BY <1>1, <1>3 DEF ThreadTyped, Asks
<1>6. 1 < k /\ k <= view.data.items[1] /\ AskBefore(t, view.data.items[1])
  BY <1>2, <1>3, <1>4 DEF AsksBefore, AskBefore
<1>7. written \in Nat \ {0} /\ k <= written + 1
  <2>1. PICK b \in 1..written : PageTo(view.data, b)
    BY <1>1, <1>4 DEF ReadsWhole, Whole
  <2>2. written \in Nat \ {0}
    BY <1>1 DEF ThreadTyped
  <2>3. b \in Nat \ {0} /\ b <= written
    BY <2>1, <2>2
  <2>4. view.data.items[1] = Start(b) /\ Start(b) <= b /\ Start(b) \in Nat
    BY <2>1, <2>3, PageRises
  <2> QED
    BY <1>5, <1>6, <2>2, <2>3, <2>4
<1>8. PageTo(new, k - 1) /\ new \in Pages
  BY <1>3, <1>5, <1>6, <1>7, OlderPage
<1>9. /\ taps' \in [Taps -> Asks]
      /\ taps'[t].before = k /\ taps'[t].older = taps[t].older /\ taps'[t].page = new
      /\ \A u \in Taps : u # t => taps'[u] = taps[u]
  <2> HIDE DEF PageTo
  <2>1. /\ [taps[t] EXCEPT !.pc = "answered", !.page = new] \in Asks
        /\ [taps[t] EXCEPT !.pc = "answered", !.page = new].before = k
        /\ [taps[t] EXCEPT !.pc = "answered", !.page = new].older = taps[t].older
        /\ [taps[t] EXCEPT !.pc = "answered", !.page = new].page = new
    BY <1>3, <1>5, <1>8 DEF Asks
  <2>2. taps' = [taps EXCEPT ![t] = [taps[t] EXCEPT !.pc = "answered", !.page = new]]
    BY <1>3 DEF ServeTap
  <2> QED
    BY <1>1, <2>1, <2>2 DEF ThreadTyped
<1>10. ThreadTyped' /\ ReadsWhole'
  <2>1. view' \in Views
    BY <1>1, <1>2 DEF ThreadTyped
  <2> QED
    BY <1>1, <1>2, <1>9, <2>1, TapChanges
<1>11. AllBefore'
  <2>1. PICK d : d = view.data.items[1]
    OBVIOUS
  <2>2. AskBefore(t, d)'
    BY <1>2, <1>3, <1>6, <1>8, <1>9, <2>1 DEF AskBefore
  <2>3. ASSUME NEW u \in Taps, taps'[u].pc # "idle" PROVE AskBefore(u, d)'
    <3>1. CASE u = t
      BY <2>2, <3>1
    <3>2. CASE u # t
      BY <1>2, <1>4, <1>9, <2>1, <2>3, <3>2 DEF AsksBefore, AskBefore
    <3> QED
      BY <3>1, <3>2
  <2>4. view.paged => OlderBefore(d)'
    BY <1>1, <1>2, <1>4, <2>1 DEF AllBefore, OlderBefore
  <2> QED
    BY <1>1, <1>2, <1>4, <2>1, <2>3, <2>4 DEF AllBefore, AsksBefore
<1> QED
  BY <1>2, <1>10, <1>11 DEF ThreadInv

\* A read of older messages that is over.
LEMMA TapEnds ==
  ASSUME ThreadTyped, NEW t \in Taps, taps' = [taps EXCEPT ![t] = NoTap]
  PROVE  /\ taps' \in [Taps -> Asks]
         /\ \A u \in Taps : taps'[u].pc # "idle" => u # t /\ taps'[u] = taps[u]
<1>1. taps \in [Taps -> Asks]
  BY DEF ThreadTyped
<1>2. /\ taps' \in [Taps -> Asks] /\ taps'[t].pc = "idle"
      /\ \A u \in Taps : u # t => taps'[u] = taps[u]
  BY <1>1, EmptyHanded
<1>3. ASSUME NEW u \in Taps, taps'[u].pc # "idle" PROVE u # t
  BY <1>2, <1>3
<1> QED
  BY <1>2, <1>3

LEMMA FailedTapEnds ==
  ASSUME ThreadInv, erased = {}, NEW t \in Taps, OlderFails(t)
  PROVE  ThreadInv'
<1>1. ThreadTyped /\ ReadsWhole /\ AllBefore
  BY DEF ThreadInv
<1>2. UNCHANGED <<written, erased, ticket, fetches, view, slid>> /\ taps[t].pc # "idle"
  BY DEF OlderFails, threadRows
<1>3. /\ taps' \in [Taps -> Asks]
      /\ \A u \in Taps : taps'[u].pc # "idle" => u # t /\ taps'[u] = taps[u]
  BY <1>1, TapEnds DEF OlderFails
<1>4. ThreadTyped' /\ ReadsWhole'
  <2>1. view' \in Views
    BY <1>1, <1>2 DEF ThreadTyped
  <2> QED
    BY <1>1, <1>2, <1>3, <2>1, TapChanges
<1>5. AllBefore'
  <2>1. view.loaded /\ AsksBefore(view.data.items[1])
    BY <1>1, <1>2 DEF AllBefore
  <2> QED
    BY <1>1, <1>2, <1>3, <2>1 DEF AllBefore, AsksBefore, AskBefore, OlderBefore
<1> QED
  BY <1>2, <1>4, <1>5 DEF ThreadInv

LEMMA OlderIsAsked ==
  ASSUME ThreadInv, erased = {}, NEW t \in Taps, LoadOlder(t)
  PROVE  ThreadInv'
<1>1. ThreadTyped /\ ReadsWhole /\ AllBefore
  BY DEF ThreadInv
<1>2. /\ UNCHANGED <<written, erased, ticket, fetches, view, slid>>
      /\ HasMore /\ Shown # <<>>
  BY DEF LoadOlder, threadRows
<1>3. view.loaded
  BY <1>2 DEF Shown
<1>4. PICK c, d, s : c = Shown[1] /\ d = view.data.items[1] /\ s = view.older.items
  OBVIOUS
<1>5. written \in Nat /\ view \in Views /\ slid \in BOOLEAN
  BY <1>1 DEF ThreadTyped
<1>6. Whole(view.data, written)
  BY <1>1, <1>3 DEF ReadsWhole
<1>7. /\ view.data.items \in Seq(Nat) /\ view.data.items # <<>> /\ d \in Nat /\ 1 <= d
      /\ view.data.hasMore <=> d # 1
  BY <1>4, <1>5, <1>6, FirstOfWhole
<1>8. s \in Seq(Nat) /\ Shown = s \o view.data.items
  BY <1>3, <1>4, <1>5 DEF Views, Pages, Shown
<1>9. /\ 1 < c /\ c \in Nat /\ c <= d /\ Below(s, d)
      /\ s # <<>> => s[1] = c
      /\ ~slid => Unbroken(s) /\ UpTo(s, d) /\ (s = <<>> => c = d)
  <2>1. CASE view.paged
    <3>1. /\ s # <<>> /\ Below(s, d) /\ (view.older.hasMore <=> s[1] # 1)
          /\ ~slid => Unbroken(s) /\ UpTo(s, d)
      BY <1>1, <1>3, <1>4, <2>1 DEF AllBefore, OlderBefore
    <3>2. c = s[1]
      BY <1>4, <1>7, <1>8, <3>1, FirstOfBoth
    <3>3. s[1] # 1
      BY <1>2, <2>1, <3>1 DEF HasMore
    <3>4. 1 \in DOMAIN s /\ s[1] \in Nat
      BY <1>8, <3>1
    <3>5. 1 <= s[1] /\ s[1] < d
      BY <3>1, <3>4 DEF Below
    <3> QED
      BY <1>7, <3>1, <3>2, <3>3, <3>4, <3>5
  <2>2. CASE ~view.paged
    <3>1. s = <<>>
      BY <1>1, <1>3, <1>4, <2>2 DEF AllBefore
    <3>2. c = d
      BY <1>4, <1>7, <1>8, <3>1, FirstOfBoth
    <3>3. d # 1
      BY <1>2, <1>7, <2>2 DEF HasMore
    <3>4. Below(s, d) /\ Unbroken(s) /\ UpTo(s, d)
      BY <3>1 DEF Below, Rising, Unbroken, UpTo
    <3> QED
      BY <1>7, <3>1, <3>2, <3>3, <3>4
  <2> QED
    BY <2>1, <2>2
<1>10. /\ taps' \in [Taps -> Asks]
       /\ taps'[t].pc = "sent" /\ taps'[t].before = c /\ taps'[t].older = s
       /\ \A u \in Taps : u # t => taps'[u] = taps[u]
  <2> DEFINE new == [NoTap EXCEPT !.pc = "sent", !.before = c, !.older = s]
  <2>1. new \in Asks /\ new.pc = "sent" /\ new.before = c /\ new.older = s
    BY <1>8, <1>9, EmptyHanded DEF Asks
  <2>2. taps' = [taps EXCEPT ![t] = new]
    BY <1>4 DEF LoadOlder
  <2> HIDE DEF new
  <2> QED
    BY <1>1, <2>1, <2>2 DEF ThreadTyped
<1>11. ThreadTyped' /\ ReadsWhole'
  <2>1. view' \in Views
    BY <1>2, <1>5
  <2> QED
    BY <1>1, <1>2, <1>10, <2>1, TapChanges
<1>12. AllBefore'
  <2>1. AskBefore(t, d)'
    BY <1>2, <1>9, <1>10 DEF AskBefore
  <2>2. ASSUME NEW u \in Taps, taps'[u].pc # "idle" PROVE AskBefore(u, d)'
    <3>1. CASE u = t
      BY <2>1, <3>1
    <3>2. CASE u # t
      BY <1>1, <1>2, <1>3, <1>4, <1>10, <2>2, <3>2 DEF AllBefore, AsksBefore, AskBefore
    <3> QED
      BY <3>1, <3>2
  <2>3. view.paged => OlderBefore(d)'
    BY <1>1, <1>2, <1>3, <1>4 DEF AllBefore, OlderBefore
  <2> QED
    BY <1>1, <1>2, <1>3, <1>4, <2>2, <2>3 DEF AllBefore, AsksBefore
<1> QED
  BY <1>2, <1>11, <1>12 DEF ThreadInv

\* What an older page is put in front of is what its own closure has seen.
LEMMA OlderIsShown ==
  ASSUME ThreadInv, erased = {}, NEW t \in Taps, OlderAnswered(t)
  PROVE  ThreadInv'
<1>1. ThreadTyped /\ ReadsWhole /\ AllBefore
  BY DEF ThreadInv
<1>2. UNCHANGED <<written, erased, ticket, fetches, slid>> /\ taps[t].pc = "answered"
  BY DEF OlderAnswered, threadRows
<1>3. PICK c, d, s, pg : /\ c = taps[t].before /\ d = view.data.items[1]
                         /\ s = taps[t].older /\ pg = taps[t].page
  OBVIOUS
<1>4. view.loaded /\ AsksBefore(d)
  BY <1>1, <1>2, <1>3 DEF AllBefore
<1>5. written \in Nat /\ view \in Views /\ taps[t] \in Asks
  BY <1>1 DEF ThreadTyped
<1>6. c \in Nat /\ s \in Seq(Nat) /\ pg \in Pages
  BY <1>3, <1>5 DEF Asks
<1>7. d \in Nat
  <2>1. Whole(view.data, written)
    BY <1>1, <1>4 DEF ReadsWhole
  <2> QED
    BY <1>3, <1>5, <2>1, FirstOfWhole
<1>8. /\ 1 < c /\ c <= d /\ Below(s, d) /\ PageTo(pg, c - 1)
      /\ s # <<>> => s[1] = c
      /\ ~slid => Unbroken(s) /\ UpTo(s, d) /\ (s = <<>> => c = d)
  BY <1>2, <1>3, <1>4 DEF AsksBefore, AskBefore
<1>9. PICK all : all = pg.items \o s
  OBVIOUS
<1>10. /\ all \in Seq(Nat) /\ all # <<>> /\ Below(all, d)
       /\ pg.hasMore <=> all[1] # 1
       /\ ~slid => Unbroken(all) /\ UpTo(all, d)
  <2> HIDE DEF PageTo
  <2> QED
    BY <1>6, <1>7, <1>8, <1>9, PagePrepended
<1>11. /\ view' \in Views /\ view'.loaded = view.loaded /\ view'.data = view.data
       /\ view'.paged /\ view'.older.items = all /\ view'.older.hasMore = pg.hasMore
  <2>1. [items |-> all, hasMore |-> pg.hasMore] \in Pages
    BY <1>6, <1>10 DEF Pages
  <2>2. PICK o \in Pages : o = [items |-> all, hasMore |-> pg.hasMore]
    BY <2>1
  <2>3. view' = [view EXCEPT !.paged = TRUE, !.older = o]
    BY <1>3, <1>9, <2>2 DEF OlderAnswered
  <2>4. /\ view' \in Views /\ view'.loaded = view.loaded /\ view'.data = view.data
        /\ view'.paged /\ view'.older = o
    BY <1>5, <2>2, <2>3 DEF Views
  <2> QED
    BY <2>2, <2>4
<1>12. /\ taps' \in [Taps -> Asks]
       /\ \A u \in Taps : taps'[u].pc # "idle" => u # t /\ taps'[u] = taps[u]
  BY <1>1, TapEnds DEF OlderAnswered
<1>13. ThreadTyped' /\ ReadsWhole'
  BY <1>1, <1>2, <1>11, <1>12, TapChanges
<1>14. AllBefore'
  <2>1. OlderBefore(d)'
    BY <1>2, <1>10, <1>11 DEF OlderBefore
  <2>2. ASSUME NEW u \in Taps, taps'[u].pc # "idle" PROVE AskBefore(u, d)'
    BY <1>2, <1>4, <1>12, <2>2 DEF AsksBefore, AskBefore
  <2> QED
    BY <1>3, <1>4, <1>11, <2>1, <2>2 DEF AllBefore, AsksBefore
<1> QED
  BY <1>2, <1>13, <1>14 DEF ThreadInv

LEMMA ThreadMoves ==
  ASSUME ThreadInv, [ThreadNext]_threadVars
  PROVE  ThreadInv'
<1> SUFFICES ASSUME erased' = {} PROVE ThreadInv'
  BY DEF ThreadInv
<1>1. CASE UNCHANGED threadVars
  <2>1. erased = {} /\ written \in Nat
    BY <1>1 DEF threadVars, threadRows, ThreadInv, ThreadTyped
  <2> QED
    BY <1>1, <2>1, MessagesComeInOrder DEF threadVars, threadRows
<1>2. ASSUME NEW m \in 1..MaxPosts, MessageErased(m) PROVE ThreadInv'
  BY <1>2 DEF MessageErased
<1>3. ASSUME ThreadNext, \A m \in 1..MaxPosts : ~MessageErased(m) PROVE ThreadInv'
  <2>1. erased = {}
    BY <1>3 DEF ThreadNext, MessageComes, MarkRead, ServeReply, RetryThread, TypeReply, SendReply,
      ReplySent, ReplyFails, ServeFetch, FetchAnswered, FetchFails, ServeTap, LoadOlder,
      OlderAnswered, OlderFails, threadRows
  <2>2. ThreadTyped /\ ReadsWhole /\ AllBefore /\ written \in Nat /\ view \in Views
    BY <2>1 DEF ThreadInv, ThreadTyped
  <2>3. CASE MessageComes \/ ServeReply
    <3>1. written' \in Nat /\ written <= written'
      BY <2>2, <2>3 DEF MessageComes, ServeReply
    <3>2. UNCHANGED <<erased, ticket, fetches, view, taps, slid>>
      BY <2>3 DEF MessageComes, ServeReply
    <3> QED
      BY <2>1, <3>1, <3>2, MessagesComeInOrder
  <2>4. CASE MarkRead \/ SendReply \/ ReplyFails
    <3>1. UNCHANGED <<written, erased, ticket, fetches, view, taps, slid>>
      BY <2>4 DEF MarkRead, SendReply, ReplyFails, threadRows
    <3> QED
      BY <2>1, <2>2, <3>1, MessagesComeInOrder
  <2>5. CASE RetryThread \/ ReplySent
    <3>1. Refetch /\ UNCHANGED <<written, erased, taps, slid>>
      BY <2>5 DEF RetryThread, ReplySent, threadRows
    <3>2. view' \in Views /\ SamePages
      <4>1. CASE RetryThread
        BY <2>2, <4>1 DEF RetryThread, SamePages
      <4>2. CASE ReplySent
        BY <2>2, <4>2, ViewChanges DEF ReplySent, SamePages
      <4> QED
        BY <2>5, <4>1, <4>2
    <3> QED
      BY <2>2, <3>1, <3>2, RefetchAsks DEF ThreadInv
  <2>6. CASE TypeReply
    <3>1. UNCHANGED <<written, erased, ticket, fetches, taps, slid>>
      BY <2>6 DEF TypeReply, threadRows
    <3>2. view' \in Views /\ SamePages
      BY <2>2, <2>6, ViewChanges DEF TypeReply, SamePages
    <3>3. ThreadTyped'
      BY <2>2, <3>1, <3>2 DEF ThreadTyped
    <3>4. ReadsWhole'
      BY <2>2, <3>1, <3>2 DEF ReadsWhole, SamePages
    <3> QED
      BY <2>2, <3>1, <3>2, <3>3, <3>4, PagesStay DEF ThreadInv
  <2>7. ASSUME NEW k \in 1..MaxTickets, ServeFetch(k) \/ FetchAnswered(k) \/ FetchFails(k)
        PROVE  ThreadInv'
    BY <2>1, <2>7, FetchIsServed, NewestIsShown, FailedFetchEnds
  <2>8. ASSUME NEW t \in Taps, ServeTap(t) \/ LoadOlder(t) \/ OlderAnswered(t) \/ OlderFails(t)
        PROVE  ThreadInv'
    BY <2>1, <2>8, OlderIsServed, OlderIsAsked, OlderIsShown, FailedTapEnds
  <2> QED
    BY <1>3, <2>3, <2>4, <2>5, <2>6, <2>7, <2>8 DEF ThreadNext
<1> QED
  BY <1>1, <1>2, <1>3

LEMMA ThreadHolds == ASSUME ThreadInv PROVE ThreadInOrder
<1> SUFFICES ASSUME view.loaded, erased = {}
             PROVE  /\ Rising(Shown) /\ (~HasMore => Shown[1] = 1)
                    /\ ~slid => Unbroken(Shown)
  BY DEF ThreadInOrder, Rising, Unbroken
<1>1. ThreadTyped /\ ReadsWhole /\ AllBefore
  BY DEF ThreadInv
<1>2. PICK d, s, n : d = view.data.items[1] /\ s = view.older.items /\ n = view.data.items
  OBVIOUS
<1>3. /\ n \in Seq(Nat) /\ n # <<>> /\ n[1] = d /\ d \in Nat /\ 1 <= d
      /\ Rising(n) /\ Unbroken(n) /\ \A i \in DOMAIN n : d <= n[i]
      /\ view.data.hasMore <=> d # 1
  <2>1. Whole(view.data, written) /\ written \in Nat
    BY <1>1 DEF ReadsWhole, ThreadTyped
  <2> QED
    BY <1>2, <2>1, FirstOfWhole
<1>4. s \in Seq(Nat) /\ Shown = s \o n
  BY <1>1, <1>2 DEF ThreadTyped, Views, Pages, Shown
<1>5. CASE ~view.paged
  <2>1. s = <<>>
    BY <1>1, <1>2, <1>5 DEF AllBefore
  <2>2. Shown = n
    BY <1>3, <1>4, <2>1, FirstOfBoth
  <2> QED
    BY <1>3, <1>5, <2>2 DEF HasMore
<1>6. CASE view.paged
  <2>1. /\ s # <<>> /\ Below(s, d) /\ (view.older.hasMore <=> s[1] # 1)
        /\ ~slid => Unbroken(s) /\ UpTo(s, d)
    BY <1>1, <1>2, <1>6 DEF AllBefore, OlderBefore
  <2>2. \A i \in DOMAIN s, j \in DOMAIN n : s[i] < n[j]
    <3>1. \A i \in DOMAIN s : s[i] \in Nat /\ s[i] < d
      BY <1>4, <2>1 DEF Below
    <3>2. \A j \in DOMAIN n : n[j] \in Nat /\ d <= n[j]
      BY <1>3
    <3> QED
      BY <1>3, <3>1, <3>2
  <2>3. Rising(Shown)
    BY <1>3, <1>4, <2>1, <2>2, RisingTogether DEF Below
  <2>4. ~slid => Unbroken(Shown)
    BY <1>3, <1>4, <2>1, UnbrokenTogether DEF UpTo
  <2>5. Shown[1] = s[1]
    BY <1>3, <1>4, <2>1, FirstOfBoth
  <2> QED
    BY <1>6, <2>1, <2>3, <2>4, <2>5 DEF HasMore
<1> QED
  BY <1>5, <1>6

\* A conversation with older messages put in front shows each once and in order,
\* for any page size and any number of presses (ThreadInOrder).
THEOREM ThreadsAreInOrder == ThreadSpec => []ThreadInOrder
<1>1. ThreadInv /\ [ThreadNext]_threadVars => ThreadInv'
  BY ThreadMoves
<1> QED
  BY <1>1, ThreadInitially, ThreadHolds, PTL DEF ThreadSpec

HIDE ThreadAssumption

----------------------------------------------------------------------------
(* What a tenant inherits *)
(* The walks of the code are loops over the parents; here they are a       *)
(* recursive function over a tree that grows, and nothing says yet that    *)
(* there is one. That every walk ends is the invariant: a tenant is made   *)
(* under one that exists, and never moves.                                 *)

\* The last position is the greatest, and some position always is.
LEMMA LastIsMax ==
  ASSUME NEW n \in Nat, NEW s \in SUBSET (1..n), n \in s
  PROVE  Max(s) = n
<1>1. \A y \in s : n >= y
  OBVIOUS
<1>2. ASSUME NEW x \in s, \A y \in s : x >= y PROVE x = n
  BY <1>2
<1> QED
  BY <1>1, <1>2 DEF Max

LEMMA MaxOfSome ==
  ASSUME NEW n \in Nat, NEW s \in SUBSET (1..n), s # {}
  PROVE  Max(s) \in s
<1> DEFINE S == {m \in Nat : \A r \in SUBSET (1..m) : r # {} => Max(r) \in r}
<1>1. 0 \in S
  <2>1. \A r \in SUBSET (1..0) : r = {}
    OBVIOUS
  <2> QED
    BY <2>1, 0 \in Nat, Zenon
<1>2. ASSUME NEW m \in Nat, m \in S PROVE m + 1 \in S
  <2>1. ASSUME NEW r \in SUBSET (1..(m + 1)), r # {} PROVE Max(r) \in r
    <3>1. CASE m + 1 \in r
      BY <3>1, LastIsMax, m + 1 \in Nat
    <3>2. CASE m + 1 \notin r
      <4>1. r \in SUBSET (1..m)
        BY <3>2
      <4> QED
        BY <1>2, <2>1, <4>1, Zenon
    <3> QED
      BY <3>1, <3>2
  <2> QED
    BY <2>1, m + 1 \in Nat, Zenon
<1> HIDE DEF S
<1>3. n \in S
  BY <1>1, <1>2, NumbersByInduction
<1> QED
  BY <1>3, Zenon DEF S

\* What a fold over the first n positions says: the last one comes last.
FoldsUp(it, n, base, step) ==
  \A s \in SUBSET (1..n) :
    it[s] = IF s = {} THEN base ELSE step[<<it[s \ {Max(s)}], Max(s)>>]

\* A fold over a sequence takes its positions from the first to the last.
LEMMA FoldOverPositions ==
  ASSUME NEW V, NEW base \in V, NEW n \in Nat, NEW step \in [V \X (1..n) -> V]
  PROVE  \E it \in [SUBSET (1..n) -> V] : FoldsUp(it, n, base, step)
<1> DEFINE pick == [s \in SUBSET (1..n) |-> Max(s)]
<1>1. \A s \in SUBSET (1..n) : pick[s] = Max(s) /\ (s # {} => pick[s] \in s)
  BY MaxOfSome
<1> HIDE DEF pick
<1>2. IsFiniteSet(1..n)
  BY FS_Interval
<1>3. PICK it \in [SUBSET (1..n) -> V] : IsFold(it, 1..n, base, step, pick)
  BY <1>1, <1>2, FoldExists
<1>4. ASSUME NEW s \in SUBSET (1..n)
      PROVE  it[s] = IF s = {} THEN base ELSE step[<<it[s \ {Max(s)}], Max(s)>>]
  BY <1>1, <1>3, Zenon DEF IsFold
<1> QED
  BY <1>3, <1>4 DEF FoldsUp

USE TenantsAssumption

\* The equation of the walk: what the loop over the parents collects.
Walks(up) ==
  up = [x \in Existing |-> IF parent[x] = Unset THEN <<x>> ELSE Append(up[parent[x]], x)]

Paths == Seq(Tenants) \ {<<>>}

\* The walk of every tenant ends, and what it collects is a path of tenants.
WalksEnd ==
  /\ \E up : Walks(up)
  /\ \A up : Walks(up) => \A x \in Existing : up[x] \in Paths

TreeInv == TenantsTypeOK /\ WalksEnd

\* What the walks of the code return (Ancestry) is such a path.
LEMMA PathOfTenants ==
  ASSUME TreeInv, NEW t \in Existing
  PROVE  Ancestry(t) \in Paths
<1> DEFINE UP == CHOOSE up : up = [x \in Existing |-> IF parent[x] = Unset THEN <<x>> ELSE Append(up[parent[x]], x)]
<1>1. Ancestry(t) = UP[t]
  BY DEF Ancestry
<1>2. Walks(UP)
  <2>1. \E up : Walks(up)
    BY DEF TreeInv, WalksEnd
  <2> QED
    BY <2>1, Zenon DEF Walks
<1> QED
  BY <1>1, <1>2 DEF TreeInv, WalksEnd

LEMMA TreeTyped == TenantsInit => TenantsTypeOK
BY DEF TenantsInit, TenantsTypeOK, Existing, Flags, Layer, NewLayer, TenantTypes

LEMMA WalksInitially == TenantsInit => WalksEnd
<1> SUFFICES ASSUME TenantsInit PROVE WalksEnd
  OBVIOUS
<1>1. Existing = {Platform} /\ parent[Platform] = Unset
  BY DEF TenantsInit, Existing
<1>2. ASSUME NEW up PROVE Walks(up) <=> up = [x \in {Platform} |-> <<x>>]
  BY <1>1 DEF Walks
<1>3. \E up : Walks(up)
  BY <1>2
<1>4. ASSUME NEW up, Walks(up), NEW x \in Existing PROVE up[x] \in Paths
  <2>1. up[x] = <<Platform>>
    BY <1>1, <1>2, <1>4
  <2> QED
    BY <2>1 DEF Paths
<1> QED
  BY <1>3, <1>4 DEF WalksEnd

\* A tenant is made under one whose walk ends, so that its own does.
LEMMA WalksGrow ==
  ASSUME TreeInv, NEW u \in Tenants, NEW p \in Tenants, NEW t \in Tenants, NEW kind \in TenantTypes,
         CreateTenant(u, p, t, kind)
  PROVE  WalksEnd'
<1>1. /\ Existing' = Existing \cup {t} /\ t \notin Existing /\ p \in Existing
      /\ parent'[t] = p /\ p # Unset
      /\ \A x \in Existing : parent'[x] = parent[x] /\ parent[x] \in Existing \cup {Unset}
  BY DEF CreateTenant, Existing, TreeInv, TenantsTypeOK 
<1>2. ASSUME NEW up, Walks(up)
      PROVE  \E new : Walks(new)'
  <2> DEFINE new == [x \in Existing \cup {t} |-> IF x = t THEN Append(up[p], t) ELSE up[x]]
  <2>1. ASSUME NEW x \in Existing
        PROVE  new[x] = IF parent'[x] = Unset THEN <<x>> ELSE Append(new[parent'[x]], x)
    <3>1. up[x] = IF parent[x] = Unset THEN <<x>> ELSE Append(up[parent[x]], x)
      BY <1>2 DEF Walks
    <3> QED
      BY <1>1, <3>1
  <2>2. new[t] = IF parent'[t] = Unset THEN <<t>> ELSE Append(new[parent'[t]], t)
    BY <1>1
  <2>3. new = [x \in Existing' |-> new[x]]
    BY <1>1
  <2>4. \A x \in Existing' : new[x] = IF parent'[x] = Unset THEN <<x>> ELSE Append(new[parent'[x]], x)
    BY <1>1, <2>1, <2>2
  <2> HIDE DEF new
  <2>5. new = [x \in Existing' |-> IF parent'[x] = Unset THEN <<x>> ELSE Append(new[parent'[x]], x)]
    BY <2>3, <2>4
  <2>6. \E f : f = [x \in Existing' |-> IF parent'[x] = Unset THEN <<x>> ELSE Append(f[parent'[x]], x)]
    BY <2>5
  <2> QED
    BY <2>6 DEF Walks
<1>3. ASSUME NEW new, Walks(new)', NEW x \in Existing' PROVE new[x] \in Paths
  <2> DEFINE up == [y \in Existing |-> new[y]]
  <2>1. ASSUME NEW y \in Existing'
        PROVE  new[y] = IF parent'[y] = Unset THEN <<y>> ELSE Append(new[parent'[y]], y)
    BY <1>3 DEF Walks
  <2>2. Walks(up)
    BY <1>1, <2>1 DEF Walks
  <2>3. \A y \in Existing : up[y] \in Paths
    BY <2>2 DEF TreeInv, WalksEnd
  <2>4. \A y \in Existing : new[y] \in Paths
    BY <2>3
  <2>5. new[t] = Append(new[p], t)
    BY <1>1, <2>1
  <2> QED
    BY SMTT(60), <1>1, <2>4, <2>5 DEF Paths
<1> QED
  BY <1>2, <1>3 DEF WalksEnd, TreeInv

\* The status of resolveTenantBranding is off as soon as one layer is.
LEMMA FeatureFolds ==
  ASSUME TenantsTypeOK, NEW c \in Seq(Tenants)
  PROVE  FoldLeft(LAMBDA found, x : NextFlag(found, flag[x]), "none", c) = "off"
           <=> \E i \in DOMAIN c : flag[c[i]] = "off"
<1> DEFINE n == Len(c)
<1> DEFINE Fold(it) == it = [s \in SUBSET DOMAIN c |->
             IF s = {} THEN "none" ELSE NextFlag(it[s \ {Max(s)}], flag[c[Max(s)]])]
<1> DEFINE IT == CHOOSE it : Fold(it)
<1>1. FoldLeft(LAMBDA found, x : NextFlag(found, flag[x]), "none", c) = IT[DOMAIN c]
  BY DEF FoldLeft, MapThenFoldSet
<1>2. n \in Nat /\ DOMAIN c = 1..n
  OBVIOUS
<1>3. \A i \in 1..n : flag[c[i]] \in Flags
  BY DEF TenantsTypeOK
<1>4. \E it : Fold(it)
  <2> DEFINE step == [p \in Flags \X (1..n) |-> NextFlag(p[1], flag[c[p[2]]])]
  <2>1. step \in [Flags \X (1..n) -> Flags]
    BY <1>3 DEF NextFlag
  <2>2. \A v \in Flags, i \in 1..n : step[<<v, i>>] = NextFlag(v, flag[c[i]])
    OBVIOUS
  <2> HIDE DEF step
  <2>3. PICK it \in [SUBSET (1..n) -> Flags] : FoldsUp(it, n, "none", step)
    <3>1. n \in Nat /\ "none" \in Flags
      BY <1>2 DEF Flags
    <3> HIDE DEF n
    <3> QED
      BY <2>1, <3>1, FoldOverPositions
  <2>4. ASSUME NEW s \in SUBSET (1..n)
        PROVE  it[s] = IF s = {} THEN "none" ELSE NextFlag(it[s \ {Max(s)}], flag[c[Max(s)]])
    <3>1. CASE s = {}
      BY <2>3, <3>1 DEF FoldsUp
    <3>2. CASE s # {}
      <4>1. Max(s) \in 1..n
        BY <1>2, <3>2, MaxOfSome
      <4>2. s \ {Max(s)} \in SUBSET (1..n)
        OBVIOUS
      <4>3. it[s \ {Max(s)}] \in Flags
        BY <4>2
      <4> QED
        BY <2>2, <2>3, <3>2, <4>1, <4>3 DEF FoldsUp
    <3> QED
      BY <3>1, <3>2
  <2>5. Fold(it)
    BY <1>2, <2>4
  <2> QED
    BY <2>5
<1>5. Fold(IT)
  BY <1>4, Zenon
<1> HIDE DEF IT
<1>6. IT[{}] = "none"
  BY <1>5
<1>7. ASSUME NEW k \in Nat, k + 1 \in 1..n
      PROVE  IT[1..(k + 1)] = NextFlag(IT[1..k], flag[c[k + 1]])
  <2>1. Max(1..(k + 1)) = k + 1
    BY LastIsMax
  <2>2. (1..(k + 1)) \ {k + 1} = 1..k
    OBVIOUS
  <2>3. 1..(k + 1) \in SUBSET (1..n) /\ 1..(k + 1) # {}
    <3>1. n \in Nat
      BY <1>2
    <3>2. k + 1 <= n /\ k + 1 \in 1..(k + 1)
      BY <1>7, <3>1
    <3>3. \A m \in Nat : k + 1 <= m => 1..(k + 1) \subseteq 1..m
      OBVIOUS
    <3> QED
      BY <3>1, <3>2, <3>3, Zenon
  <2> QED
    BY <1>2, <1>5, <2>1, <2>2, <2>3
<1> DEFINE Off(k) == IT[1..k] = "off" <=> \E i \in 1..k : flag[c[i]] = "off"
<1> DEFINE S == {k \in Nat : k <= n => IT[1..k] \in Flags /\ Off(k)}
<1>8. 0 \in S
  <2>1. 1..0 = {}
    OBVIOUS
  <2> QED
    BY <1>6, <2>1 DEF Flags
<1>9. ASSUME NEW k \in Nat, k \in S PROVE k + 1 \in S
  <2> SUFFICES ASSUME k + 1 <= n PROVE IT[1..(k + 1)] \in Flags /\ Off(k + 1)
    BY k + 1 \in Nat, Zenon
  <2>1. k + 1 \in 1..n /\ k <= n
    BY <1>2
  <2>2. IT[1..k] \in Flags /\ Off(k)
    BY <1>9, <2>1
  <2>3. IT[1..(k + 1)] = NextFlag(IT[1..k], flag[c[k + 1]])
    BY <1>7, <2>1
  <2>4. flag[c[k + 1]] \in Flags
    BY <1>3, <2>1
  <2>5. 1..(k + 1) = (1..k) \cup {k + 1}
    OBVIOUS
  <2>6. (\E i \in 1..(k + 1) : flag[c[i]] = "off")
          <=> (flag[c[k + 1]] = "off" \/ \E i \in 1..k : flag[c[i]] = "off")
    BY <2>5, Zenon
  <2> QED
    BY <2>2, <2>3, <2>4, <2>6 DEF NextFlag, Flags
<1> HIDE DEF S
<1>10. n \in S
  BY <1>2, <1>8, <1>9, NumbersByInduction
<1>11. n <= n => Off(n)
  BY <1>10 DEF S
<1>12. Off(n)
  BY <1>2, <1>11
<1> QED
  BY <1>1, <1>2, <1>12, Zenon

\* What a field of the brand may be.
Values == Tenants \cup {Unset}

\* The layers among the first k of a path that set the field, from below the
\* last one that does not inherit.
SeenAt(c, k) ==
  {i \in 1..k : /\ brand[c[i]].value # Unset
                /\ \A j \in 1..k : ~brand[c[j]].inherits => i >= j}

\* The brand is the value that was set nearest, not above the last layer that
\* does not inherit.
LEMMA BrandFolds ==
  ASSUME TenantsTypeOK, NEW c \in Seq(Tenants)
  PROVE  LET seen == SeenAt(c, Len(c))
             result == FoldLeft(LAMBDA found, x : OverLayer(found, brand[x]), Unset, c)
         IN  /\ seen = {} => result = Unset
             /\ seen # {} => \E i \in seen : (\A j \in seen : j <= i) /\ result = brand[c[i]].value
<1> DEFINE n == Len(c)
<1> DEFINE Fold(it) == it = [s \in SUBSET DOMAIN c |->
             IF s = {} THEN Unset ELSE OverLayer(it[s \ {Max(s)}], brand[c[Max(s)]])]
<1> DEFINE IT == CHOOSE it : Fold(it)
<1>1. FoldLeft(LAMBDA found, x : OverLayer(found, brand[x]), Unset, c) = IT[DOMAIN c]
  BY DEF FoldLeft, MapThenFoldSet
<1>2. n \in Nat /\ DOMAIN c = 1..n
  OBVIOUS
<1>3. \A i \in 1..n : brand[c[i]] \in Layer
  BY DEF TenantsTypeOK
<1>4. \E it : Fold(it)
  <2> DEFINE step == [p \in Values \X (1..n) |-> OverLayer(p[1], brand[c[p[2]]])]
  <2>1. step \in [Values \X (1..n) -> Values]
    BY <1>3 DEF OverLayer, Layer, Values
  <2>2. \A v \in Values, i \in 1..n : step[<<v, i>>] = OverLayer(v, brand[c[i]])
    OBVIOUS
  <2> HIDE DEF step
  <2>3. PICK it \in [SUBSET (1..n) -> Values] : FoldsUp(it, n, Unset, step)
    <3>1. n \in Nat /\ Unset \in Values
      BY <1>2 DEF Values
    <3> HIDE DEF n
    <3> QED
      BY <2>1, <3>1, FoldOverPositions
  <2>4. ASSUME NEW s \in SUBSET (1..n)
        PROVE  it[s] = IF s = {} THEN Unset ELSE OverLayer(it[s \ {Max(s)}], brand[c[Max(s)]])
    <3>1. CASE s = {}
      BY <2>3, <3>1 DEF FoldsUp
    <3>2. CASE s # {}
      <4>1. Max(s) \in 1..n
        BY <1>2, <3>2, MaxOfSome
      <4>2. s \ {Max(s)} \in SUBSET (1..n)
        OBVIOUS
      <4>3. it[s \ {Max(s)}] \in Values
        BY <4>2
      <4> QED
        BY <2>2, <2>3, <3>2, <4>1, <4>3 DEF FoldsUp
    <3> QED
      BY <3>1, <3>2
  <2>5. Fold(it)
    BY <1>2, <2>4
  <2> QED
    BY <2>5
<1>5. Fold(IT)
  BY <1>4, Zenon
<1> HIDE DEF IT
<1>6. IT[{}] = Unset
  BY <1>5
<1>7. ASSUME NEW k \in Nat, k + 1 \in 1..n
      PROVE  IT[1..(k + 1)] = OverLayer(IT[1..k], brand[c[k + 1]])
  <2>1. Max(1..(k + 1)) = k + 1
    BY LastIsMax
  <2>2. (1..(k + 1)) \ {k + 1} = 1..k
    OBVIOUS
  <2>3. 1..(k + 1) \in SUBSET (1..n) /\ 1..(k + 1) # {}
    <3>1. n \in Nat
      BY <1>2
    <3>2. k + 1 <= n /\ k + 1 \in 1..(k + 1)
      BY <1>7, <3>1
    <3>3. \A m \in Nat : k + 1 <= m => 1..(k + 1) \subseteq 1..m
      OBVIOUS
    <3> QED
      BY <3>1, <3>2, <3>3, Zenon
  <2> QED
    BY <1>2, <1>5, <2>1, <2>2, <2>3
<1> DEFINE Nearest(k) ==
             /\ IT[1..k] \in Values
             /\ SeenAt(c, k) = {} => IT[1..k] = Unset
             /\ SeenAt(c, k) # {} =>
                  \E i \in SeenAt(c, k) : (\A j \in SeenAt(c, k) : j <= i) /\ IT[1..k] = brand[c[i]].value
<1> DEFINE S == {k \in Nat : k <= n => Nearest(k)}
<1>8. 0 \in S
  <2>1. 1..0 = {} /\ SeenAt(c, 0) = {}
    BY DEF SeenAt
  <2> QED
    BY <1>6, <2>1 DEF Values
<1>9. ASSUME NEW k \in Nat, k \in S PROVE k + 1 \in S
  <2> SUFFICES ASSUME k + 1 <= n PROVE Nearest(k + 1)
    BY k + 1 \in Nat, Zenon
  <2>1. k + 1 \in 1..n /\ k <= n
    BY <1>2
  <2>2. Nearest(k)
    BY <1>9, <2>1
  <2> DEFINE layer == brand[c[k + 1]]
  <2>3. IT[1..(k + 1)] = OverLayer(IT[1..k], layer)
    BY <1>7, <2>1
  <2>4. layer \in Layer
    BY <1>3, <2>1
  <2>5. 1..(k + 1) = (1..k) \cup {k + 1}
    OBVIOUS
  <2> HIDE DEF Nearest
  <2>6. CASE layer.value # Unset
    <3>1. k + 1 \in SeenAt(c, k + 1)
      BY <2>5, <2>6 DEF SeenAt
    <3>2. \A j \in SeenAt(c, k + 1) : j <= k + 1
      BY DEF SeenAt
    <3>3. IT[1..(k + 1)] = layer.value /\ layer.value \in Values
      BY <2>3, <2>4, <2>6 DEF OverLayer, Layer, Values
    <3> QED
      BY <3>1, <3>2, <3>3 DEF Nearest
  <2>7. CASE layer.value = Unset /\ layer.inherits
    <3>1. SeenAt(c, k + 1) = SeenAt(c, k)
      BY <2>5, <2>7 DEF SeenAt
    <3>2. IT[1..(k + 1)] = IT[1..k]
      BY <2>3, <2>7 DEF OverLayer
    <3> QED
      BY <2>2, <3>1, <3>2 DEF Nearest
  <2>8. CASE layer.value = Unset /\ ~layer.inherits
    <3>1. SeenAt(c, k + 1) = {}
      BY <2>5, <2>8 DEF SeenAt
    <3>2. IT[1..(k + 1)] = Unset
      BY <2>3, <2>8 DEF OverLayer
    <3> QED
      BY <3>1, <3>2 DEF Nearest, Values
  <2> QED
    BY <2>4, <2>6, <2>7, <2>8 DEF Layer
<1> HIDE DEF S
<1>10. n \in S
  BY <1>2, <1>8, <1>9, NumbersByInduction
<1>11. n <= n => Nearest(n)
  BY <1>10 DEF S
<1>12. Nearest(n)
  BY <1>2, <1>11
<1> QED
  BY <1>1, <1>2, <1>12, Zenon

LEMMA InheritanceHolds == TreeInv => InheritanceAgrees
<1> SUFFICES ASSUME TreeInv PROVE InheritanceAgrees
  OBVIOUS
<1>1. ASSUME NEW t \in Existing PROVE ShownFeature(t) = "off" <=> ~GuardAllows(t)
  <2>1. Ancestry(t) \in Seq(Tenants)
    BY PathOfTenants DEF Paths
  <2> QED
    BY <2>1, FeatureFolds DEF TreeInv, ShownFeature, GuardAllows
<1>2. ASSUME NEW t \in Existing
      PROVE  LET c == Ancestry(t)
                 setAt == {i \in DOMAIN c : brand[c[i]].value # Unset}
                 cut == {i \in DOMAIN c : ~brand[c[i]].inherits}
                 seen == {i \in setAt : \A j \in cut : i >= j}
             IN  ShownBrand(t) = IF seen = {} THEN Unset
                                 ELSE brand[c[CHOOSE i \in seen : \A j \in seen : j <= i]].value
  <2> DEFINE c == Ancestry(t)
             seen == {i \in {j \in DOMAIN c : brand[c[j]].value # Unset} :
                        \A j \in {m \in DOMAIN c : ~brand[c[m]].inherits} : i >= j}
  <2>1. c \in Seq(Tenants)
    BY PathOfTenants DEF Paths
  <2>2. DOMAIN c = 1..Len(c) /\ Len(c) \in Nat
    BY <2>1
  <2>3. seen = SeenAt(c, Len(c))
    BY <2>2 DEF SeenAt
  <2>4. seen \subseteq Nat
    BY <2>3, <2>2 DEF SeenAt
  <2>5. /\ seen = {} => ShownBrand(t) = Unset
        /\ seen # {} => \E i \in seen : (\A j \in seen : j <= i) /\ ShownBrand(t) = brand[c[i]].value
    BY <2>1, <2>3, BrandFolds DEF TreeInv, ShownBrand
  <2>6. ASSUME seen # {}
        PROVE  ShownBrand(t) = brand[c[CHOOSE i \in seen : \A j \in seen : j <= i]].value
    <3>1. PICK i \in seen : (\A j \in seen : j <= i) /\ ShownBrand(t) = brand[c[i]].value
      BY <2>5, <2>6
    <3> DEFINE m == CHOOSE x \in seen : \A j \in seen : j <= x
    <3>2. m \in seen /\ \A j \in seen : j <= m
      BY <3>1
    <3> HIDE DEF m
    <3>3. m = i
      BY <2>4, <3>1, <3>2
    <3> QED
      BY <3>1, <3>3 DEF m
  <2> QED
    BY <2>5, <2>6
<1> QED
  BY <1>1, <1>2 DEF InheritanceAgrees, ShownIsGuarded, BrandOfNearest

LEMMA TreeStaysTyped == TenantsTypeOK /\ [TenantsNext]_tenantVars => TenantsTypeOK'
<1> USE DEF TenantsTypeOK
<1> SUFFICES ASSUME TenantsTypeOK, [TenantsNext]_tenantVars PROVE TenantsTypeOK'
  OBVIOUS
<1>1. ASSUME NEW u \in Tenants, NEW p \in Tenants, NEW t \in Tenants, NEW kind \in TenantTypes,
             CreateTenant(u, p, t, kind)
      PROVE  TenantsTypeOK'
  <2>1. Existing' = Existing \cup {t} /\ t \notin Existing /\ kind # "PLATFORM"
    BY <1>1 DEF CreateTenant, Existing, Hierarchy
  <2>2. \A x \in Existing' : parent'[x] \in Existing' \cup {Unset}
    BY <1>1, <2>1 DEF CreateTenant
  <2>3. \A x \in Existing' : type'[x] \in TenantTypes /\ (type'[x] = "PLATFORM" <=> x = Platform)
    BY <1>1, <2>1 DEF CreateTenant
  <2>4. DOMAIN type' = Existing'
    BY <1>1, <2>1 DEF CreateTenant
  <2> QED
    BY <1>1, <2>1, <2>2, <2>3, <2>4 DEF CreateTenant
<1>2. ASSUME NEW u \in Tenants, NEW t \in Tenants, DisableFeature(u, t)
      PROVE  TenantsTypeOK'
  BY <1>2 DEF DisableFeature, Flags, Existing
<1>3. ASSUME NEW u \in Tenants, NEW t \in Tenants, CheckEnable(u, t)
      PROVE  TenantsTypeOK'
  BY <1>3 DEF CheckEnable, MayGovern, Existing
<1>4. ASSUME NEW t \in Tenants, EnableFeature(t)
      PROVE  TenantsTypeOK'
  BY <1>4 DEF EnableFeature, Flags, Existing
<1>5. ASSUME NEW t \in Tenants, UpdateBrand(t)
      PROVE  TenantsTypeOK'
  BY <1>5 DEF UpdateBrand, Layer, Existing
<1>6. CASE UNCHANGED tenantVars
  BY <1>6 DEF tenantVars, Existing
<1> QED
  BY <1>1, <1>2, <1>3, <1>4, <1>5, <1>6 DEF TenantsNext, GrowTree, GovernFeature, Restyle

LEMMA WalksStay == TreeInv /\ [TenantsNext]_tenantVars => WalksEnd'
<1> SUFFICES ASSUME TreeInv, [TenantsNext]_tenantVars PROVE WalksEnd'
  OBVIOUS
<1>1. CASE parent' = parent
  BY <1>1 DEF TreeInv, WalksEnd, Walks, Existing
<1>2. CASE GrowTree
  BY <1>2, WalksGrow DEF GrowTree
<1>3. GovernFeature \/ Restyle \/ UNCHANGED tenantVars => parent' = parent
  BY DEF GovernFeature, Restyle, DisableFeature, CheckEnable, EnableFeature, UpdateBrand, tenantVars
<1> QED
  BY <1>1, <1>2, <1>3 DEF TenantsNext

\* Whatever the tree has grown to, the feature a tenant is shown is the one its
\* requests are let through for, and its brand is that of the nearest layer
\* (InheritanceAgrees).
THEOREM InheritanceIsOne == TenantsSpec => []InheritanceAgrees
<1>1. TenantsInit => TreeInv
  BY TreeTyped, WalksInitially DEF TreeInv
<1>2. TreeInv /\ [TenantsNext]_tenantVars => TreeInv'
  BY TreeStaysTyped, WalksStay DEF TreeInv
<1> QED
  BY <1>1, <1>2, InheritanceHolds, PTL DEF TenantsSpec

HIDE TenantsAssumption
=============================================================================
