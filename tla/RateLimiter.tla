----------------------------- MODULE RateLimiter -----------------------------
(***************************************************************************)
(* The per-client rate limiter: a map from client addresses to the         *)
(* instants of their granted requests, pruned for one client at each of    *)
(* its requests, and for all of them by an hourly clean-up that a request  *)
(* runs in passing.  Allow holds the limiter's mutex throughout, so it is  *)
(* one step.                                                               *)
(*                                                                         *)
(* Instants are numbers; no two requests read the same one from the clock, *)
(* so the timestamps of a client are a set.  A client that is not in the   *)
(* map has the empty set.                                                  *)
(*                                                                         *)
(* A definition introduced as a mutant is no part of the specification: it *)
(* is the definition that follows it with a plausible bug, for which the   *)
(* property that the README pairs it with must fail.                       *)
(***************************************************************************)
EXTENDS Integers, FiniteSets

CONSTANTS
  Clients,          \* client addresses
  Limit,            \* common.RateLimitRequests
  Window,           \* common.RateLimitWindow
  CleanupInterval,  \* common.CleanupInterval
  MaxEntries,       \* common.MaxRateLimiterEntries
  MaxStep,          \* bound on the time between two requests
  MaxTime           \* bound on time

ASSUME LimiterAssumption ==
  /\ IsFiniteSet(Clients)
  /\ Limit \in Nat
  /\ Window \in Nat \ {0, 1}
  /\ CleanupInterval \in Nat /\ CleanupInterval >= Window
  /\ MaxEntries \in Nat
  /\ MaxStep \in Nat \ {0}
  /\ MaxTime \in Nat

VARIABLES
  clock,        \* the last instant that was read
  requests,     \* the timestamps of each client
  lastCleanup,  \* the instant of the last clean-up
  \* --- history
  grants,       \* each client's grants in the last window, the forgotten ones too
  evicted       \* the time before which a client was forgotten

limiter == <<clock, requests, lastCleanup, grants, evicted>>

Instants == 1 .. MaxTime + MaxStep + 1

\* The timestamps after a cutoff.
After(ts, cutoff) == {t \in ts : t > cutoff}

\* Mutant: the entries to delete are taken in the random order of a Go map.
ColdestAny(out, live) ==
  LET entries == {c \in Clients : live[c] # {}}
      kept    == entries \ out
  IN  IF Cardinality(entries) <= MaxEntries THEN out = {}
      ELSE /\ out \subseteq entries
           /\ Cardinality(kept) = MaxEntries \div 2

\* The clients that an eviction may delete from the map, which has live
\* timestamps only: none while there is room, else the coldest ones, down to
\* half the room.
Coldest(out, live) ==
  LET entries == {c \in Clients : live[c] # {}}
      kept    == entries \ out
  IN  IF Cardinality(entries) <= MaxEntries THEN out = {}
      ELSE /\ out \subseteq entries
           /\ Cardinality(kept) = MaxEntries \div 2
           /\ \A a \in out, b \in kept : \A t \in live[a] : \E u \in live[b] : t <= u

\* Mutant: one request too many.
JudgeOneMore(k, granted, now, map) ==
  LET valid == After(map[k], now - Window)
  IN  /\ granted = (Cardinality(valid) <= Limit)
      /\ requests' = [map EXCEPT ![k] = IF granted THEN valid \cup {now} ELSE valid]
      /\ grants' = [c \in Clients |->
                      After(grants[c], clock' - Window)
                        \cup IF granted /\ c = k THEN {now} ELSE {}]

\* The request of client k at the instant now, and whether it is granted.
Judge(k, granted, now, map) ==
  LET valid == After(map[k], now - Window)
  IN  /\ granted = (Cardinality(valid) < Limit)
      /\ requests' = [map EXCEPT ![k] = IF granted THEN valid \cup {now} ELSE valid]
      /\ grants' = [c \in Clients |->
                      After(grants[c], clock' - Window)
                        \cup IF granted /\ c = k THEN {now} ELSE {}]

AllowOnly(k, granted, now) ==
  /\ now - lastCleanup <= CleanupInterval
  /\ clock' = now
  /\ Judge(k, granted, now, requests)
  /\ UNCHANGED <<lastCleanup, evicted>>

\* Mutant: the time of the clean-up is not recorded.
AllowAndCleanUpUnrecorded(k, granted, now) ==
  /\ now - lastCleanup > CleanupInterval
  /\ UNCHANGED lastCleanup
  /\ clock' \in {now, now + 1}
  /\ LET live == [c \in Clients |-> After(requests[c], clock' - Window)]
     IN  \E out \in SUBSET Clients :
           /\ Coldest(out, live)
           /\ Judge(k, granted, now, [c \in Clients |-> IF c \in out THEN {} ELSE live[c]])
           /\ evicted' = [c \in Clients |-> IF c \in out THEN clock ELSE evicted[c]]

\* The clean-up reads the clock for itself.
AllowAndCleanUp(k, granted, now) ==
  /\ now - lastCleanup > CleanupInterval
  /\ lastCleanup' = now
  /\ clock' \in {now, now + 1}
  /\ LET live == [c \in Clients |-> After(requests[c], clock' - Window)]
     IN  \E out \in SUBSET Clients :
           /\ Coldest(out, live)
           /\ Judge(k, granted, now, [c \in Clients |-> IF c \in out THEN {} ELSE live[c]])
           /\ evicted' = [c \in Clients |-> IF c \in out THEN clock ELSE evicted[c]]

Allow(k, granted) ==
  /\ clock < MaxTime
  /\ \E now \in clock + 1 .. clock + MaxStep :
       AllowOnly(k, granted, now) \/ AllowAndCleanUp(k, granted, now)

\* The zero time of lastCleanup is longer ago than any interval.
LimiterInit ==
  /\ clock       = 0
  /\ requests    = [c \in Clients |-> {}]
  /\ lastCleanup = -CleanupInterval
  /\ grants      = [c \in Clients |-> {}]
  /\ evicted     = [c \in Clients |-> 0]

LimiterNext == \E k \in Clients, granted \in BOOLEAN : Allow(k, granted)

LimiterSpec == LimiterInit /\ [][LimiterNext]_limiter

-----------------------------------------------------------------------------
(* Properties.                                                             *)

LimiterTypeOK ==
  /\ clock \in 0 .. MaxTime + MaxStep + 1
  /\ requests \in [Clients -> SUBSET Instants]
  /\ lastCleanup \in Int
  /\ grants \in [Clients -> SUBSET Instants]
  /\ evicted \in [Clients -> 0 .. MaxTime]

\* No client is granted more than Limit requests in a window, not counting
\* those that an eviction has forgotten (middleware/ratelimit.go, Allow).
WindowKept == \A c \in Clients : Cardinality(After(grants[c], evicted[c])) <= Limit

\* Even a client that is forgotten, again and again, is granted at most twice
\* the limit in a window: the clean-ups are further apart than that.
TwiceAtMost == \A c \in Clients : Cardinality(grants[c]) <= 2 * Limit

\* The map with its pruning now and then is as good as one that is always up
\* to date, and forgets a live client only for want of room.
Ideal == INSTANCE SlidingWindow WITH
  window <- [c \in Clients |-> After(requests[c], clock - Window)],
  Width  <- Window

IsSlidingWindow == Ideal!WSpec

=============================================================================
