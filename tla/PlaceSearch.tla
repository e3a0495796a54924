----------------------------- MODULE PlaceSearch -----------------------------
(***************************************************************************)
(* The search of businesses on a map: POST of                              *)
(* apps/web/app/api/prospecting/search/route.ts. All requests share one    *)
(* process: a chain of promises that keeps the calls to the public         *)
(* geocoder apart, a cache of answers and a window that limits a client.   *)
(* Times are kept as what is left of them, in ticks.                       *)
(***************************************************************************)
EXTENDS Naturals, Sequences

CONSTANTS
  Searches,                 \* searches that run at the same time
  CacheKeys,                \* what is searched for, and where
  Interval,                 \* UPSTREAM_INTERVAL_MS
  Ttl,                      \* CACHE_TTL_MS
  Window,                   \* CLIENT_WINDOW_MS
  ClientLimit               \* CLIENT_LIMIT

ASSUME PlaceSearchAssumption ==
  /\ Interval \in Nat \ {0}
  /\ Ttl \in Nat \ {0}
  /\ Window \in Nat \ {0}
  /\ ClientLimit \in Nat \ {0}

VARIABLES
  search,                   \* the requests: what for, and what they wait for
  queue,                    \* upstreamQueue: the jobs chained, oldest first
  pause,                    \* what is left of the timer of the jobs that started
  since,                    \* ticks since lastUpstreamAt, at most Interval
  cached,                   \* what is left of each cache entry, 0 when expired
  window                    \* the client's window: what is left of it, its count

placeVars == <<search, queue, pause, since, cached, window>>

SearchPCs == {"idle", "session", "quota", "body", "locate", "located", "find", "found"}
NotStarted == Interval + 1
Less(n) == IF n = 0 THEN 0 ELSE n - 1

PlaceInit ==
  /\ search \in [Searches -> [pc : {"idle"}, key : CacheKeys]]
  /\ queue = <<>>
  /\ pause = [q \in Searches |-> NotStarted]
  /\ since = Interval
  /\ cached = [k \in CacheKeys |-> 0]
  /\ window = [left |-> 0, count |-> 0]

SearchAt(q, pc) == search[q].pc = pc
SearchGoto(q, pc) == search' = [search EXCEPT ![q].pc = pc]

----------------------------------------------------------------------------
(* scheduleUpstream *)

\* then(...) on the chain: the job waits for all those before it.
Enqueue(q, pc) ==
  /\ SearchGoto(q, pc)
  /\ queue' = Append(queue, q)

\* A variant in which the jobs are not chained.
Queued(q) == \E i \in DOMAIN queue : queue[i] = q

Chained(q) == queue # <<>> /\ Head(queue) = q

StartPause(q) ==
  /\ Chained(q) /\ pause[q] = NotStarted
  /\ pause' = [pause EXCEPT ![q] = Interval - since]
  /\ UNCHANGED <<search, queue, since, cached, window>>

\* A variant that chains the next job to one that never settles.
Unsettled == queue

\* The chain behind a job, which goes on whether it failed or not.
Rest == Tail(queue)

\* The timer fired: the call goes out, and the next job may start.
EndPause(q) ==
  /\ Chained(q) /\ pause[q] = 0
  /\ since' = 0
  /\ queue' = Rest
  /\ pause' = [pause EXCEPT ![q] = NotStarted]
  /\ SearchGoto(q, IF SearchAt(q, "locate") THEN "located" ELSE "found")
  /\ UNCHANGED <<cached, window>>

----------------------------------------------------------------------------
(* POST *)

Post(q, key) ==
  /\ SearchAt(q, "idle")
  /\ search' = [search EXCEPT ![q] = [pc |-> "session", key |-> key]]
  /\ UNCHANGED <<queue, pause, since, cached, window>>

\* validateSession asks the API; without a session the answer is 401.
ValidateSession(q) ==
  /\ SearchAt(q, "session")
  /\ \E pc \in {"quota", "idle"} : SearchGoto(q, pc)
  /\ UNCHANGED <<queue, pause, since, cached, window>>

\* consumeClientQuota: a request above the limit gets 429.
ConsumeQuota(q) ==
  /\ SearchAt(q, "quota")
  /\ IF window.left = 0 \/ window.count < ClientLimit
     THEN /\ window' = IF window.left = 0 THEN [left |-> Window, count |-> 1]
                       ELSE [window EXCEPT !.count = @ + 1]
          /\ SearchGoto(q, "body")
     ELSE SearchGoto(q, "idle") /\ UNCHANGED window
  /\ UNCHANGED <<queue, pause, since, cached>>

\* request.json is awaited: bodies of several requests come in any order, and a
\* request whose body is refused, or does not come, keeps its place in the window.
ReadBody(q) ==
  /\ SearchAt(q, "body")
  /\ Enqueue(q, "locate") \/ (SearchGoto(q, "idle") /\ UNCHANGED queue)
  /\ UNCHANGED <<pause, since, cached, window>>

\* geocodeCity or reverseGeocode answers or fails; then the cache is looked up.
Located(q) ==
  /\ SearchAt(q, "located")
  /\ \/ SearchGoto(q, "idle") /\ UNCHANGED queue
     \/ cached[search[q].key] = 0 /\ Enqueue(q, "find")
  /\ UNCHANGED <<pause, since, cached, window>>

\* searchBusinesses answers and the cache is filled, or it fails with 502.
Found(q) ==
  /\ SearchAt(q, "found")
  /\ \/ cached' = [cached EXCEPT ![search[q].key] = Ttl]
     \/ UNCHANGED cached
  /\ SearchGoto(q, "idle")
  /\ UNCHANGED <<queue, pause, since, window>>

PlaceTick ==
  /\ since' = IF since = Interval THEN since ELSE since + 1
  /\ pause' = [q \in Searches |-> IF pause[q] = NotStarted THEN pause[q] ELSE Less(pause[q])]
  /\ cached' = [k \in CacheKeys |-> Less(cached[k])]
  /\ window' = [window EXCEPT !.left = Less(@)]
  /\ UNCHANGED <<search, queue>>

Serve(q) ==
  \/ ValidateSession(q) \/ ConsumeQuota(q) \/ ReadBody(q) \/ Located(q) \/ Found(q)
  \/ StartPause(q) \/ EndPause(q)

PlaceNext ==
  \/ PlaceTick
  \/ \E q \in Searches : Serve(q) \/ \E k \in CacheKeys : Post(q, k)

PlaceSpec == PlaceInit /\ [][PlaceNext]_placeVars

\* Timers fire, and the process, the API, the geocoder and the client that sends
\* the body answer or time out.
PlaceFair == WF_placeVars(PlaceTick) /\ \A q \in Searches : WF_placeVars(Serve(q))

----------------------------------------------------------------------------
(* Properties *)

PlaceTypeOK ==
  /\ search \in [Searches -> [pc : SearchPCs, key : CacheKeys]]
  /\ queue \in Seq(Searches)
  /\ pause \in [Searches -> 0..NotStarted]
  /\ since \in 0..Interval
  /\ cached \in [CacheKeys -> 0..Ttl]
  /\ window \in [left : 0..Window, count : 0..ClientLimit]

\* However many searches run, two calls to the geocoder are never closer than
\* UPSTREAM_INTERVAL_MS: a job computes its wait from the call before it, and
\* that call is made before the job starts (route.ts:264).
UpstreamPaced ==
  [][\A q \in Searches :
       \/ SearchAt(q, "locate") /\ search'[q].pc = "located"
       \/ SearchAt(q, "find") /\ search'[q].pc = "found"
       => since = Interval]_placeVars

\* Every search is answered, although those before it in the chain may fail.
SearchAnswered ==
  \A q \in Searches : ~SearchAt(q, "idle") ~> SearchAt(q, "idle")
=============================================================================
