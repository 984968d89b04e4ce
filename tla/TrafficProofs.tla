---------------------------- MODULE TrafficProofs ----------------------------
(***************************************************************************)
(* Proofs about Traffic: behind it the limiter is the one of RateLimiter,  *)
(* no slot leaks, the gauge counts, and a 503 is only given for want of a  *)
(* slot.                                                                   *)
(***************************************************************************)
EXTENDS Traffic, RateLimiterProofs

\* Requests move the limiter as it moves by itself.
LEMMA TrafficIsLimiter == Spec => LimiterSpec
<1>1. Init => LimiterInit
  BY DEF Init
<1>2. [Next]_vars => [LimiterNext]_limiter
  BY DEF Next, vars, Rest, RateLimit, Handle, Acquire, Reject, Inc, Serve, Release, Dec,
         LimiterNext
<1>. QED
  BY <1>1, <1>2, PTL DEF Spec, LimiterSpec

\* No client is granted more than Limit requests in a window, not counting
\* those that an eviction has forgotten (middleware/ratelimit.go, Allow).
THEOREM TrafficWindowKept == Spec => []WindowKept
  BY TrafficIsLimiter, WindowKeptHolds, PTL

\* Even a client that is forgotten is granted at most twice the limit in a
\* window, since clean-ups are further apart than that.
THEOREM TrafficTwiceAtMost == Spec => []TwiceAtMost
  BY TrafficIsLimiter, TwiceAtMostHolds, PTL

\* What passes the limiter is what an ideal sliding window lets pass.
THEOREM TrafficIsSlidingWindow == Spec => IsSlidingWindow
  BY TrafficIsLimiter, IsSlidingWindowHolds, PTL

-----------------------------------------------------------------------------
\* The slots and the gauge, each against the servers that account for it.
SlotsInv ==
  /\ pc \in [Servers -> Steps]
  /\ slots = Cardinality(Holders) /\ slots <= MaxConcurrent
  /\ gauge = Cardinality(Counted)

\* Sets of servers are counted.
LEMMA ServersCounted ==
  ASSUME NEW S \in SUBSET Servers
  PROVE  IsFiniteSet(S) /\ Cardinality(S) \in Nat
BY TrafficAssumption, FS_Subset, FS_CardinalityType DEF TrafficAssumption

\* A server more, a server less.
LEMMA ServerJoinsOrLeaves ==
  ASSUME NEW S \in SUBSET Servers, NEW s \in Servers
  PROVE  /\ s \notin S => Cardinality(S \cup {s}) = Cardinality(S) + 1
         /\ s \in S => Cardinality(S \ {s}) = Cardinality(S) - 1
BY ServersCounted, FS_AddElement, FS_RemoveElement

\* Each step of a request keeps the books.
LEMMA HandleSlots ==
  ASSUME SlotsInv, NEW s \in Servers, RateLimit(s) \/ Handle(s)
  PROVE  SlotsInv'
<1>. USE DEF SlotsInv, GoTo, Steps
<1>1. Holders \in SUBSET Servers /\ Counted \in SUBSET Servers
  BY DEF Holders, Counted
<1>2. /\ Cardinality(Holders) \in Nat /\ Cardinality(Counted) \in Nat
      /\ MaxConcurrent \in Nat
  BY <1>1, ServersCounted, TrafficAssumption DEF TrafficAssumption
<1>3. CASE RateLimit(s) \/ Reject(s)
  <2>1. PICK step \in {"idle", "acquire"} :
          /\ pc' = [pc EXCEPT ![s] = step]
          /\ pc[s] \in {"idle", "acquire"}
          /\ UNCHANGED <<slots, gauge>>
    BY <1>3 DEF RateLimit, Reject
  <2>2. Holders' = Holders /\ Counted' = Counted
    BY <2>1 DEF Holders, Counted
  <2>. QED
    BY <2>1, <2>2
<1>4. CASE Acquire(s)
  <2>1. pc' \in [Servers -> Steps] /\ slots' = slots + 1 /\ slots < MaxConcurrent /\ gauge' = gauge
    BY <1>4 DEF Acquire
  <2>2. Holders' = Holders \cup {s} /\ s \notin Holders /\ Counted' = Counted
    BY <1>4 DEF Acquire, Holders, Counted
  <2>. QED
    BY <1>1, <1>2, <2>1, <2>2, ServerJoinsOrLeaves
<1>5. CASE Inc(s)
  <2>1. pc' \in [Servers -> Steps] /\ slots' = slots /\ gauge' = gauge + 1
    BY <1>5 DEF Inc
  <2>2. Holders' = Holders /\ Counted' = Counted \cup {s} /\ s \notin Counted
    BY <1>5 DEF Inc, Holders, Counted
  <2>. QED
    BY <1>1, <1>2, <2>1, <2>2, ServerJoinsOrLeaves
<1>6. CASE Serve(s)
  <2>1. pc' \in [Servers -> Steps] /\ slots' = slots /\ gauge' = gauge
    BY <1>6 DEF Serve
  <2>2. Holders' = Holders /\ Counted' = Counted
    BY <1>6 DEF Serve, Holders, Counted
  <2>. QED
    BY <2>1, <2>2
<1>7. CASE Release(s)
  <2>1. pc' \in [Servers -> Steps] /\ slots' = slots - 1 /\ gauge' = gauge
    BY <1>7 DEF Release
  <2>2. Holders' = Holders \ {s} /\ s \in Holders /\ Counted' = Counted
    BY <1>7 DEF Release, Holders, Counted
  <2>. QED
    BY <1>1, <1>2, <2>1, <2>2, ServerJoinsOrLeaves
<1>8. CASE Dec(s)
  <2>1. pc' \in [Servers -> Steps] /\ slots' = slots /\ gauge' = gauge - 1
    BY <1>8 DEF Dec
  <2>2. Holders' = Holders /\ Counted' = Counted \ {s} /\ s \in Counted
    BY <1>8 DEF Dec, Holders, Counted
  <2>. QED
    BY <1>1, <1>2, <2>1, <2>2, ServerJoinsOrLeaves
<1>. QED
  BY <1>3, <1>4, <1>5, <1>6, <1>7, <1>8 DEF Handle

\* The books are always kept.
LEMMA SlotsInvariant == Spec => []SlotsInv
<1>1. Init => SlotsInv
  <2>. SUFFICES ASSUME Init PROVE SlotsInv
    OBVIOUS
  <2>1. Holders = {} /\ Counted = {}
    BY DEF Init, Holders, Counted
  <2>2. Cardinality({}) = 0
    BY FS_EmptySet
  <2>. QED
    BY <2>1, <2>2, TrafficAssumption DEF Init, SlotsInv, Steps, TrafficAssumption
<1>2. SlotsInv /\ [Next]_vars => SlotsInv'
  <2>. SUFFICES ASSUME SlotsInv, [Next]_vars PROVE SlotsInv'
    OBVIOUS
  <2>1. CASE UNCHANGED vars \/ Rest
    BY <2>1 DEF Rest, vars, concurrency, SlotsInv, Holders, Counted
  <2>. QED
    BY <2>1, HandleSlots DEF Next
<1>. QED
  BY <1>1, <1>2, PTL DEF Spec

\* The variables keep their types.
THEOREM TypeCorrect == Spec => []TypeOK
<1>1. LimiterTypeOK /\ SlotsInv => TypeOK
  <2>1. Holders \in SUBSET Servers /\ Counted \in SUBSET Servers
    BY DEF Holders, Counted
  <2>2. Cardinality(Holders) \in Nat /\ Cardinality(Counted) \in Nat
    BY <2>1, ServersCounted
  <2>. QED
    BY <2>2, TrafficAssumption DEF SlotsInv, TypeOK, TrafficAssumption
<1>. QED
  BY <1>1, TrafficIsLimiter, LimiterTypeCorrect, SlotsInvariant, PTL

\* No slot leaks, and no more than MaxConcurrent requests are served at a time
\* (middleware/ratelimit_instrumented.go, ConcurrencyLimitWithMetrics).
THEOREM SlotsKeptHolds == Spec => []SlotsKept
<1>1. SlotsInv => SlotsKept
  BY DEF SlotsInv, SlotsKept
<1>. QED
  BY <1>1, SlotsInvariant, PTL

\* The gauge counts the requests between their two updates of it.
THEOREM GaugeTracksHolds == Spec => []GaugeTracks
<1>1. SlotsInv => GaugeTracks
  BY DEF SlotsInv, GaugeTracks
<1>. QED
  BY <1>1, SlotsInvariant, PTL

\* A 503 is given only while MaxConcurrent other requests are being served.
THEOREM RejectJustifiedHolds == Spec => RejectJustified
<1>. DEFINE Justified ==
       \A s \in Servers : pc[s] = "acquire" /\ pc'[s] = "idle" =>
         Cardinality(Holders \ {s}) >= MaxConcurrent
<1>1. SlotsInv /\ [Next]_vars => [Justified]_vars
  <2>. SUFFICES ASSUME SlotsInv, Next, NEW s \in Servers, pc[s] = "acquire", pc'[s] = "idle"
                PROVE  Cardinality(Holders \ {s}) >= MaxConcurrent
    OBVIOUS
  <2>1. Reject(s)
    BY DEF SlotsInv, Next, Rest, vars, concurrency, RateLimit, Handle, GoTo,
           Acquire, Reject, Inc, Serve, Release, Dec
  <2>2. Holders \ {s} = Holders
    BY DEF Holders
  <2>. QED
    BY <2>1, <2>2, TrafficAssumption DEF Reject, SlotsInv, TrafficAssumption
<1>. QED
  BY <1>1, SlotsInvariant, PTL DEF Spec, RejectJustified

=============================================================================
