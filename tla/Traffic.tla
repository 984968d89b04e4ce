------------------------------- MODULE Traffic -------------------------------
(***************************************************************************)
(* What a request to /v1/ passes on its way to its handler: the rate       *)
(* limiter, then the concurrency limit, a channel used as a semaphore with *)
(* a gauge beside it.  A request that is refused a slot has used up its    *)
(* quota all the same.                                                     *)
(*                                                                         *)
(* A definition introduced as a mutant is no part of the specification: it *)
(* is the definition that follows it with a plausible bug, for which the   *)
(* property that the README pairs it with must fail.                       *)
(***************************************************************************)
EXTENDS RateLimiter

CONSTANTS
  Servers,       \* goroutines that serve requests
  MaxConcurrent  \* common.MaxConcurrentRequests

ASSUME TrafficAssumption ==
  /\ IsFiniteSet(Servers)
  /\ MaxConcurrent \in Nat

VARIABLES
  pc,     \* next step of each server
  slots,  \* number of elements in ConcurrencySem
  gauge   \* metrics.ConcurrencyActive

concurrency == <<pc, slots, gauge>>
vars == <<limiter, concurrency>>

Steps == {"idle", "acquire", "inc", "serve", "release", "dec"}

GoTo(s, step) == pc' = [pc EXCEPT ![s] = step]

\* RateLimitWithMetrics: the request of a client is let through, or answered 429.
RateLimit(s) ==
  /\ pc[s] = "idle"
  /\ \E k \in Clients, granted \in BOOLEAN :
       /\ Allow(k, granted)
       /\ GoTo(s, IF granted THEN "acquire" ELSE "idle")
  /\ UNCHANGED <<slots, gauge>>

\* Mutant: one slot too many.
AcquireOneMore(s) ==
  /\ pc[s] = "acquire"
  /\ slots <= MaxConcurrent
  /\ slots' = slots + 1
  /\ GoTo(s, "inc")
  /\ UNCHANGED <<limiter, gauge>>

\* ConcurrencyLimitWithMetrics: a slot, if there is one ...
Acquire(s) ==
  /\ pc[s] = "acquire"
  /\ slots < MaxConcurrent
  /\ slots' = slots + 1
  /\ GoTo(s, "inc")
  /\ UNCHANGED <<limiter, gauge>>

\* Mutant: the deferred function is set up before the slot is taken.
RejectReleases(s) ==
  /\ pc[s] = "acquire"
  /\ slots = MaxConcurrent
  /\ GoTo(s, "release")
  /\ UNCHANGED <<limiter, slots, gauge>>

\* ... and else a 503.
Reject(s) ==
  /\ pc[s] = "acquire"
  /\ slots = MaxConcurrent
  /\ GoTo(s, "idle")
  /\ UNCHANGED <<limiter, slots, gauge>>

Inc(s) ==
  /\ pc[s] = "inc"
  /\ gauge' = gauge + 1
  /\ GoTo(s, "serve")
  /\ UNCHANGED <<limiter, slots>>

\* Mutant: what is not deferred does not run when the handler panics.
ServeWithoutDefer(s) ==
  /\ pc[s] = "serve"
  /\ \E step \in {"release", "idle"} : GoTo(s, step)
  /\ UNCHANGED <<limiter, slots, gauge>>

\* The handler returns or panics: the deferred function runs in both cases.
Serve(s) ==
  /\ pc[s] = "serve"
  /\ GoTo(s, "release")
  /\ UNCHANGED <<limiter, slots, gauge>>

Release(s) ==
  /\ pc[s] = "release"
  /\ slots' = slots - 1
  /\ GoTo(s, "dec")
  /\ UNCHANGED <<limiter, gauge>>

\* Mutant: the gauge is set to the number of slots instead.
DecSet(s) ==
  /\ pc[s] = "dec"
  /\ gauge' = slots
  /\ GoTo(s, "idle")
  /\ UNCHANGED <<limiter, slots>>

Dec(s) ==
  /\ pc[s] = "dec"
  /\ gauge' = gauge - 1
  /\ GoTo(s, "idle")
  /\ UNCHANGED <<limiter, slots>>

Init ==
  /\ LimiterInit
  /\ pc    = [s \in Servers |-> "idle"]
  /\ slots = 0
  /\ gauge = 0

\* A request that the limiter has let through.
Handle(s) == Acquire(s) \/ Reject(s) \/ Inc(s) \/ Serve(s) \/ Release(s) \/ Dec(s)

\* The end of time.
Rest == clock >= MaxTime /\ (\A s \in Servers : pc[s] = "idle") /\ UNCHANGED vars

Next ==
  \/ \E s \in Servers : RateLimit(s) \/ Handle(s)
  \/ Rest

Spec == Init /\ [][Next]_vars

-----------------------------------------------------------------------------
(* Properties.                                                             *)

TypeOK ==
  /\ LimiterTypeOK
  /\ pc \in [Servers -> Steps]
  /\ slots \in 0 .. MaxConcurrent
  /\ gauge \in Nat

\* The servers that have a slot, and those that the gauge counts.
Holders == {s \in Servers : pc[s] \in {"inc", "serve", "release"}}
Counted == {s \in Servers : pc[s] \in {"serve", "release", "dec"}}

\* No more than MaxConcurrent requests are ever served at a time, and a slot is
\* taken only by one of them: none leaks, whichever way handlers end.
SlotsKept == slots = Cardinality(Holders) /\ Cardinality(Holders) <= MaxConcurrent

\* The gauge counts the requests between their two updates of it, however these
\* interleave: it may pass MaxConcurrent, by the slots that have been taken again
\* while their last holder is yet to count itself out, and it returns to zero.
GaugeTracks == gauge = Cardinality(Counted)

\* A 503 is given only while MaxConcurrent other requests are being served.
RejectJustified ==
  [][\A s \in Servers : pc[s] = "acquire" /\ pc'[s] = "idle" =>
       Cardinality(Holders \ {s}) >= MaxConcurrent]_vars

=============================================================================
