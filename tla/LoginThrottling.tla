--------------------------- MODULE LoginThrottling ---------------------------
(***************************************************************************)
(* The counters and locks that slow down failed logins                     *)
(* (infra/security/auth-defense.service.ts), as AuthService.login uses     *)
(* them, for the logins of one account: one key for the account, one for   *)
(* the account with each address. They are kept in Redis, and in the       *)
(* memory of the process whenever Redis does not answer.                   *)
(***************************************************************************)
EXTENDS Naturals, FiniteSets, Functions, TLC

CONSTANTS
  Logins,                   \* slots for logins in progress
  Ips,                      \* addresses they come from
  Processes,                \* instances of the API
  AccountLimit,             \* AUTH_ACCOUNT_FAILURE_LIMIT
  ComboLimit,               \* AUTH_COMBO_FAILURE_LIMIT
  MaxSwitches               \* times Redis goes away or comes back

ASSUME ThrottlingAssumption ==
  /\ AccountLimit \in Nat \ {0} /\ ComboLimit \in Nat \ {0} /\ MaxSwitches \in Nat
  /\ IsFiniteSet(Logins) /\ Processes # {}
  /\ {"redis"} \cap Processes = {} /\ {"account"} \cap Ips = {}

VARIABLES
  redisUp,                  \* does Redis answer
  failures,                 \* of each store and key: the counter
  lockedOut,                \* of each store: the keys that are locked
  login,                    \* of each slot: its local variables
  switches,                 \* how often Redis went away or came back
  guesses                   \* history: attempts let through since the counter
                            \* or the lock of the key last ended

throttleVars == <<redisUp, failures, lockedOut, login, switches, guesses>>

Stores == Processes \cup {"redis"}
LoginKeys == Ips \cup {"account"}
FailureLimit(k) == IF k = "account" THEN AccountLimit ELSE ComboLimit
LoginPCs == {"idle", "checking", "counted"}
NoLogin == [pc |-> "idle", keys |-> {}, process |-> CHOOSE p \in Processes : TRUE, due |-> {}]

ThrottlingInit ==
  /\ redisUp \in BOOLEAN
  /\ failures = [s \in Stores |-> [k \in LoginKeys |-> 0]]
  /\ lockedOut = [s \in Stores |-> {}]
  /\ login = [l \in Logins |-> NoLogin]
  /\ switches = 0
  /\ guesses = [s \in Stores |-> [k \in LoginKeys |-> 0]]

LoginAt(l, pc) == login[l].pc = pc

\* Where a login reads and writes now.
StoreOf(l) == IF redisUp THEN "redis" ELSE login[l].process

\* A login reads and writes in Redis, or else in the memory of its process.
MayUse(l, s) == s \in {"redis", login[l].process}

\* Those of the logins L that were let through for k and are not counted yet.
Verifying(s, k, L) == {l \in L : MayUse(l, s) /\ LoginAt(l, "checking") /\ k \in login[l].keys}
InProgress(s, k, L) == Cardinality(Verifying(s, k, L))

\* A store in use: Redis, or the memory of the processes without it.
InUse(s) == redisUp = (s = "redis")

\* The counting of guesses starts again for the keys K of store s, with what
\* the logins L have in progress. A store out of use counts none.
StartOver(s, K, L) ==
  [guesses EXCEPT ![s] = [k \in LoginKeys |->
     IF k \in K /\ InUse(s) THEN InProgress(s, k, L) ELSE @[k]]]

\* Counters are only compared with their limit.
Bumped(count, K) ==
  [k \in LoginKeys |-> IF k \in K /\ count[k] < FailureLimit(k) THEN count[k] + 1 ELSE count[k]]

\* A variant that locks one failure late.
ReachedLate(count, K) == {k \in K : count[k] >= FailureLimit(k)}

Reached(count, K) == {k \in K : count[k] + 1 >= FailureLimit(k)}

----------------------------------------------------------------------------
(* login *)

\* assertAllowed lets the login pass; the password is verified next.
Attempt(l, p, ip) ==
  LET keys == {"account", ip}
      s == IF redisUp THEN "redis" ELSE p
  IN  /\ LoginAt(l, "idle")
      /\ lockedOut[s] \cap keys = {}
      /\ login' = [login EXCEPT ![l] = [NoLogin EXCEPT !.pc = "checking", !.keys = keys, !.process = p]]
      /\ guesses' = [guesses EXCEPT ![s] = [k \in LoginKeys |-> IF k \in keys THEN @[k] + 1 ELSE @[k]]]
      /\ UNCHANGED <<redisUp, failures, lockedOut, switches>>

\* recordFailure: the first MULTI counts and tells which limits are reached.
CountFailure(l) ==
  /\ LoginAt(l, "checking") /\ redisUp
  /\ failures' = [failures EXCEPT !["redis"] = Bumped(@, login[l].keys)]
  /\ login' = [login EXCEPT ![l].pc = "counted",
                            ![l].due = Reached(failures["redis"], login[l].keys)]
  /\ UNCHANGED <<redisUp, lockedOut, switches, guesses>>

\* The second MULTI sets the locks.
LockOut(l) ==
  /\ LoginAt(l, "counted") /\ redisUp
  /\ lockedOut' = [lockedOut EXCEPT !["redis"] = @ \cup login[l].due]
  /\ login' = [login EXCEPT ![l] = NoLogin]
  /\ UNCHANGED <<redisUp, failures, switches, guesses>>

\* Either MULTI fails: the process counts and locks in its own memory.
CountLocally(l) ==
  LET p == login[l].process
      keys == login[l].keys
  IN  /\ ~LoginAt(l, "idle") /\ ~redisUp
      /\ failures' = [failures EXCEPT ![p] = Bumped(@, keys)]
      /\ lockedOut' = [lockedOut EXCEPT ![p] = @ \cup Reached(failures[p], keys)]
      /\ login' = [login EXCEPT ![l] = NoLogin]
      /\ UNCHANGED <<redisUp, switches, guesses>>

\* recordSuccess forgets the keys of the login where it can reach them.
Succeed(l) ==
  LET s == StoreOf(l)
      keys == login[l].keys
  IN  /\ LoginAt(l, "checking")
      /\ failures' = [failures EXCEPT ![s] = [k \in LoginKeys |-> IF k \in keys THEN 0 ELSE @[k]]]
      /\ lockedOut' = [lockedOut EXCEPT ![s] = @ \ keys]
      /\ guesses' = StartOver(s, keys, Logins \ {l})
      /\ login' = [login EXCEPT ![l] = NoLogin]
      /\ UNCHANGED <<redisUp, switches>>

----------------------------------------------------------------------------
(* The clock, Redis and the processes *)

WindowEnds(s, k) ==
  /\ failures[s][k] > 0
  /\ failures' = [failures EXCEPT ![s][k] = 0]
  /\ guesses' = StartOver(s, {k}, Logins)
  /\ UNCHANGED <<redisUp, lockedOut, login, switches>>

LockEnds(s, k) ==
  /\ k \in lockedOut[s]
  /\ lockedOut' = [lockedOut EXCEPT ![s] = @ \ {k}]
  /\ guesses' = StartOver(s, {k}, Logins)
  /\ UNCHANGED <<redisUp, failures, login, switches>>

RedisSwitches ==
  /\ switches < MaxSwitches
  /\ switches' = switches + 1
  /\ redisUp' = ~redisUp
  /\ guesses' = [s \in Stores |-> [k \in LoginKeys |->
                   IF InUse(s) THEN 0 ELSE InProgress(s, k, Logins)]]
  /\ UNCHANGED <<failures, lockedOut, login>>

ThrottledLogin(l) ==
  \/ \E p \in Processes, ip \in Ips : Attempt(l, p, ip)
  \/ CountFailure(l)
  \/ LockOut(l)
  \/ CountLocally(l)
  \/ Succeed(l)

ThrottlingNext ==
  \/ \E l \in Logins : ThrottledLogin(l)
  \/ \E s \in Stores, k \in LoginKeys : WindowEnds(s, k) \/ LockEnds(s, k)
  \/ RedisSwitches

ThrottlingSpec == ThrottlingInit /\ [][ThrottlingNext]_throttleVars

----------------------------------------------------------------------------
ThrottlingTypeOK ==
  /\ redisUp \in BOOLEAN /\ switches \in 0..MaxSwitches
  /\ failures \in [Stores -> [LoginKeys -> Nat]]
  /\ lockedOut \in [Stores -> SUBSET LoginKeys]
  /\ login \in [Logins -> [pc : LoginPCs, keys : SUBSET LoginKeys,
                           process : Processes, due : SUBSET LoginKeys]]
  /\ guesses \in [Stores -> [LoginKeys -> Nat]]

\* The lock is read before the password is verified and set after it: however
\* logins overlap, no more than the limit, less one, and the logins in progress
\* get through before the lock closes (assertAllowed, recordFailure).
AttemptsAreBounded ==
  \A s \in Stores, k \in LoginKeys :
    guesses[s][k] < FailureLimit(k) + Cardinality(Logins)
=============================================================================
