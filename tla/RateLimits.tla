------------------------------ MODULE RateLimits ------------------------------
(***************************************************************************)
(* The two guards every request passes: common/pre-auth-rate-limit.guard.ts*)
(* and common/rate-limit.guard.ts. They differ in whom they count          *)
(* together and in the limit. A counter belongs to a caller and a window   *)
(* of time; it is kept in Redis, and in a map of the process when Redis    *)
(* does not answer. The map has a bound, and forgets counters to keep it.  *)
(***************************************************************************)
EXTENDS Naturals, Sequences, SequencesExt, FiniteSets

CONSTANTS
  Clients,                  \* addresses or principals, with their group of paths
  Instances,                \* processes of the API
  LimitMax,                 \* requests of a caller in a window
  MapSize,                  \* counters a process keeps (20 000)
  LastWindow                \* bound: windows

ASSUME LimitsAssumption ==
  /\ LimitMax \in Nat \ {0} /\ MapSize \in Nat \ {0} /\ LastWindow \in Nat
  /\ "redis" \notin Instances

VARIABLES
  window,                   \* the window that the clock is in
  counters,                 \* in Redis: of each caller in this window
  fallback,                 \* of each process: its counters, the oldest first
  guarded,                  \* history: requests let through in this window, by
                            \* the store that counted them
  evicted                   \* history: counters of this window that were forgotten

limitVars == <<window, counters, fallback, guarded, evicted>>

LimitsInit ==
  /\ window = 1
  /\ counters = [c \in Clients |-> 0]
  /\ fallback = [i \in Instances |-> <<>>]
  /\ guarded = [s \in Instances \cup {"redis"} |-> [c \in Clients |-> 0]]
  /\ evicted = [i \in Instances |-> {}]

Key(c) == [caller |-> c, window |-> window]
Passes(count) == count <= LimitMax

\* incr is atomic; counts beyond the limit are alike.
Bump(count) == IF Passes(count) THEN count + 1 ELSE count

LetThrough(s, c, count) ==
  guarded' = [guarded EXCEPT ![s][c] = IF Passes(count) THEN Bump(@) ELSE @]

CountInRedis(c) ==
  /\ counters' = [counters EXCEPT ![c] = Bump(@)]
  /\ LetThrough("redis", c, counters'[c])
  /\ UNCHANGED <<window, fallback, evicted>>

----------------------------------------------------------------------------
(* The map of a process *)

\* A variant that counts a known caller anew.
KnownForgotten(i, c) == {}

\* The entry of a caller in this window. It lives as long as a window lasts,
\* and so until the window is over.
Known(i, c) ==
  {n \in DOMAIN fallback[i] : fallback[i][n].caller = c /\ fallback[i][n].window = window}

\* trimFallback: what has expired goes, n entries of the windows before this
\* one; then the oldest until there is room for one more.
Trimmed(f, n) ==
  LET alive == SubSeq(f, n + 1, Len(f))
  IN  IF Len(f) < MapSize THEN f
      ELSE IF Len(alive) < MapSize THEN alive
      ELSE SubSeq(alive, Len(alive) - MapSize + 2, Len(alive))

\* Entries expire in the window after their own, the older ones first.
MayExpire(f) ==
  {n \in 0..Len(f) :
     /\ \A k \in 1..n : f[k].window < window
     /\ \A k \in DOMAIN f : f[k].window + 1 < window => k <= n}

\* Redis fails: at the incr, or after it at the expire.
CountLocal(i, c) ==
  /\ \/ UNCHANGED counters
     \/ counters[c] = 0 /\ counters' = [counters EXCEPT ![c] = 1]
  /\ IF Known(i, c) # {}
     THEN \E n \in Known(i, c) :
            /\ fallback' = [fallback EXCEPT ![i][n].count = Bump(@)]
            /\ LetThrough(i, c, fallback'[i][n].count)
            /\ UNCHANGED evicted
     ELSE \E n \in MayExpire(fallback[i]) :
            LET trimmed == Trimmed(fallback[i], n)
                lost == {e \in Range(fallback[i]) : e.window = window} \ Range(trimmed)
            IN  /\ fallback' = [fallback EXCEPT ![i] =
                                  Append(trimmed, [caller |-> c, window |-> window, count |-> 1])]
                /\ LetThrough(i, c, 1)
                /\ evicted' = [evicted EXCEPT ![i] = @ \cup {e.caller : e \in lost}]
  /\ UNCHANGED window

\* Keys of a window that is over are not asked for again.
NextWindow ==
  /\ window < LastWindow
  /\ window' = window + 1
  /\ counters' = [c \in Clients |-> 0]
  /\ guarded' = [s \in DOMAIN guarded |-> [c \in Clients |-> 0]]
  /\ evicted' = [i \in Instances |-> {}]
  /\ UNCHANGED fallback

\* A process starts again with an empty map.
RestartInstance(i) ==
  /\ fallback' = [fallback EXCEPT ![i] = <<>>]
  /\ evicted' = [evicted EXCEPT ![i] = Clients]
  /\ UNCHANGED <<window, counters, guarded>>

LimitsNext ==
  \/ \E c \in Clients : CountInRedis(c)
  \/ \E i \in Instances, c \in Clients : CountLocal(i, c)
  \/ \E i \in Instances : RestartInstance(i)
  \/ NextWindow

LimitsSpec == LimitsInit /\ [][LimitsNext]_limitVars

----------------------------------------------------------------------------
(* Properties *)

LimitsTypeOK ==
  /\ window \in 1..LastWindow
  /\ counters \in [Clients -> 0..LimitMax + 1]
  /\ \A i \in Instances : Len(fallback[i]) <= MapSize
  /\ evicted \in [Instances -> SUBSET Clients]

\* However Redis comes and goes, a caller gets no more than LimitMax requests of
\* a window past each store, as long as the process did not start again or
\* forget its counter to make room; and an entry left from an earlier window
\* never counts for the present one.
LimitHolds ==
  /\ \A c \in Clients : guarded["redis"][c] <= LimitMax
  /\ \A i \in Instances, c \in Clients :
       c \notin evicted[i] => guarded[i][c] <= LimitMax
=============================================================================
