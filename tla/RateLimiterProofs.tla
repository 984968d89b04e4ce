-------------------------- MODULE RateLimiterProofs --------------------------
(***************************************************************************)
(* Proofs about RateLimiter: no client gets more than its limit in a       *)
(* window unless it is forgotten, none more than twice the limit even so,  *)
(* and the limiter implements SlidingWindow.                               *)
(***************************************************************************)
EXTENDS RateLimiter, FiniteSetTheorems, TLAPS

\* Instants are past ones; a client was last forgotten before the last clean-up.
Chronology ==
  /\ clock \in 0 .. MaxTime + MaxStep + 1
  /\ requests \in [Clients -> SUBSET (1 .. clock)]
  /\ grants \in [Clients -> SUBSET (1 .. clock)]
  /\ lastCleanup \in Int /\ lastCleanup <= clock
  /\ evicted \in [Clients -> 0 .. MaxTime]
  /\ \A c \in Clients : evicted[c] <= clock /\ (evicted[c] = 0 \/ evicted[c] < lastCleanup)

\* The limiter remembers what it granted a client since it last forgot it ...
Remembered == \A c \in Clients : After(grants[c], evicted[c]) \subseteq requests[c]

\* ... and that is within the limit ...
WithinLimit == \A c \in Clients : Cardinality(requests[c]) <= Limit

\* The instants of a set up to a cutoff.
UpTo(ts, cutoff) == {t \in ts : t <= cutoff}

\* ... as was what it forgot then.
ForgottenWithinLimit == \A c \in Clients : Cardinality(UpTo(grants[c], evicted[c])) <= Limit

LimiterInv == Chronology /\ Remembered /\ WithinLimit /\ ForgottenWithinLimit

-----------------------------------------------------------------------------
\* Sets of past instants are finite, and so counted.
LEMMA PastFinite ==
  ASSUME NEW n \in Nat, NEW S \in SUBSET (1 .. n)
  PROVE  IsFiniteSet(S) /\ Cardinality(S) \in Nat
<1>1. IsFiniteSet(1 .. n)
  BY FS_Interval
<1>2. IsFiniteSet(S)
  BY <1>1, FS_Subset
<1>. QED
  BY <1>2, FS_CardinalityType

\* What bounds a set of instants bounds its subsets.
LEMMA PartBounded ==
  ASSUME NEW n \in Nat, NEW S \in SUBSET (1 .. n), NEW T \in SUBSET S,
         NEW m \in Nat, Cardinality(S) <= m
  PROVE  Cardinality(T) <= m
<1>1. Cardinality(T) <= Cardinality(S)
  BY PastFinite, FS_Subset
<1>2. Cardinality(S) \in Nat /\ Cardinality(T) \in Nat
  BY PastFinite
<1>. QED
  BY <1>1, <1>2

\* One more instant.
LEMMA OneMoreBounded ==
  ASSUME NEW n \in Nat, NEW S \in SUBSET (1 .. n), NEW t, NEW m \in Nat, Cardinality(S) < m
  PROVE  Cardinality(S \cup {t}) <= m
<1>1. IsFiniteSet(S) /\ Cardinality(S) \in Nat
  BY PastFinite
<1>2. Cardinality(S \cup {t}) = IF t \in S THEN Cardinality(S) ELSE Cardinality(S) + 1
  BY <1>1, FS_AddElement
<1>. QED
  BY <1>1, <1>2

\* Two bounded sets together.
LEMMA TwoBounded ==
  ASSUME NEW n \in Nat, NEW S \in SUBSET (1 .. n), NEW T \in SUBSET (1 .. n),
         NEW m \in Nat, Cardinality(S) <= m, Cardinality(T) <= m
  PROVE  Cardinality(S \cup T) <= 2 * m
<1>1. /\ IsFiniteSet(S) /\ Cardinality(S) \in Nat
      /\ IsFiniteSet(T) /\ Cardinality(T) \in Nat
      /\ Cardinality(S \cap T) \in Nat
  BY PastFinite
<1>2. Cardinality(S \cup T) = Cardinality(S) + Cardinality(T) - Cardinality(S \cap T)
  BY <1>1, FS_Union
<1>. QED
  BY <1>1, <1>2

-----------------------------------------------------------------------------
\* What a judgement does to the map, given the one that the clean-up left.
LEMMA JudgeEffect ==
  ASSUME Chronology, WithinLimit, LimiterAssumption,
         NEW k \in Clients, NEW granted \in BOOLEAN,
         NEW now \in clock + 1 .. clock + MaxStep, clock' \in {now, now + 1}, clock < MaxTime,
         NEW map \in [Clients -> SUBSET (1 .. clock)],
         \A c \in Clients : map[c] \subseteq requests[c],
         Judge(k, granted, now, map)
  PROVE  /\ requests' \in [Clients -> SUBSET (1 .. clock')]
         /\ grants' \in [Clients -> SUBSET (1 .. clock')]
         /\ WithinLimit'
<1>. USE DEF LimiterAssumption
<1>1. clock \in Nat /\ MaxStep \in Nat /\ now \in Nat /\ now > clock /\ clock' \in Nat /\ clock' >= now
  BY DEF Chronology
<1>2. DEFINE valid == After(map[k], now - Window)
<1>3. valid \subseteq map[k] /\ valid \in SUBSET (1 .. clock)
  BY DEF After
<1>4. requests' = [map EXCEPT ![k] = IF granted THEN valid \cup {now} ELSE valid]
  BY DEF Judge
<1>5. requests' \in [Clients -> SUBSET (1 .. clock')]
  <2>1. 1 .. clock \subseteq 1 .. clock' /\ now \in 1 .. clock'
    BY <1>1
  <2>. HIDE DEF valid
  <2>. QED
    BY <1>3, <1>4, <2>1
<1>6. grants' \in [Clients -> SUBSET (1 .. clock')]
  <2>1. 1 .. clock \subseteq 1 .. clock' /\ now \in 1 .. clock'
    BY <1>1
  <2>2. \A c \in Clients : grants[c] \subseteq 1 .. clock
    BY DEF Chronology
  <2>. QED
    BY <2>1, <2>2 DEF Judge, After
<1>7. ASSUME NEW c \in Clients PROVE Cardinality(requests'[c]) <= Limit
  <2>1. requests[c] \in SUBSET (1 .. clock) /\ Cardinality(requests[c]) <= Limit
    BY DEF Chronology, WithinLimit
  <2>2. Cardinality(map[c]) <= Limit
    BY <1>1, <2>1, PartBounded
  <2>3. CASE c # k
    BY <1>4, <2>2, <2>3
  <2>4. CASE c = k /\ ~granted
    <3>1. requests'[c] = valid
      BY <1>4, <2>4
    <3>. HIDE DEF valid
    <3>. QED
      BY <1>1, <1>3, <2>2, <2>4, <3>1, PartBounded
  <2>5. CASE c = k /\ granted
    <3>1. requests'[c] = valid \cup {now}
      BY <1>4, <2>5
    <3>2. Cardinality(valid) < Limit
      BY <2>5 DEF Judge
    <3>. HIDE DEF valid
    <3>. QED
      BY <1>1, <1>3, <3>1, <3>2, OneMoreBounded
  <2>. QED
    BY <2>3, <2>4, <2>5
<1>. QED
  BY <1>5, <1>6, <1>7 DEF WithinLimit

\* A request without clean-up.
LEMMA AllowOnlyInv ==
  ASSUME LimiterInv, LimiterAssumption, NEW k \in Clients, NEW granted \in BOOLEAN,
         NEW now \in clock + 1 .. clock + MaxStep, clock < MaxTime, AllowOnly(k, granted, now)
  PROVE  LimiterInv'
<1>. USE DEF LimiterAssumption, LimiterInv
<1>1. clock \in Nat /\ now \in Nat /\ now > clock /\ clock' = now /\ now <= MaxTime + MaxStep + 1
  BY DEF Chronology, AllowOnly
<1>2. requests \in [Clients -> SUBSET (1 .. clock)]
  BY DEF Chronology
<1>3. /\ requests' \in [Clients -> SUBSET (1 .. clock')]
      /\ grants' \in [Clients -> SUBSET (1 .. clock')]
      /\ WithinLimit'
  BY <1>1, <1>2, JudgeEffect DEF AllowOnly
<1>4. Chronology'
  BY <1>1, <1>3 DEF Chronology, AllowOnly
<1>5. ASSUME NEW c \in Clients
      PROVE  /\ After(grants'[c], evicted'[c]) \subseteq requests'[c]
             /\ UpTo(grants'[c], evicted'[c]) \subseteq UpTo(grants[c], evicted[c])
  <2>1. evicted'[c] = evicted[c] /\ evicted[c] \in Nat /\ evicted[c] <= clock
    BY DEF AllowOnly, Chronology
  <2>2. grants'[c] = After(grants[c], now - Window) \cup IF granted /\ c = k THEN {now} ELSE {}
    BY <1>1 DEF AllowOnly, Judge
  <2>3. requests'[c] = IF c = k THEN After(requests[k], now - Window)
                                      \cup IF granted THEN {now} ELSE {}
                       ELSE requests[c]
    BY <1>2 DEF AllowOnly, Judge
  <2>4. After(grants[c], evicted[c]) \subseteq requests[c]
    BY DEF Remembered
  <2>. QED
    BY <1>1, <2>1, <2>2, <2>3, <2>4 DEF After, UpTo
<1>6. ForgottenWithinLimit'
  <2>1. ASSUME NEW c \in Clients PROVE Cardinality(UpTo(grants'[c], evicted'[c])) <= Limit
    <3>1. UpTo(grants[c], evicted[c]) \in SUBSET (1 .. clock)
      BY DEF Chronology, UpTo
    <3>. QED
      BY <1>1, <1>5, <3>1, PartBounded DEF ForgottenWithinLimit
  <2>. QED
    BY <2>1 DEF ForgottenWithinLimit
<1>. QED
  BY <1>3, <1>4, <1>5, <1>6 DEF Remembered

\* A request with a clean-up: whoever it forgets has been remembered for longer
\* than a window, so that what it forgets is all that was granted in one.
LEMMA AllowAndCleanUpInv ==
  ASSUME LimiterInv, LimiterAssumption, NEW k \in Clients, NEW granted \in BOOLEAN,
         NEW now \in clock + 1 .. clock + MaxStep, clock < MaxTime, AllowAndCleanUp(k, granted, now)
  PROVE  LimiterInv'
<1>. USE DEF LimiterAssumption, LimiterInv
<1>1. /\ clock \in Nat /\ now \in Nat /\ now > clock /\ now <= MaxTime + MaxStep
      /\ clock' \in {now, now + 1} /\ lastCleanup' = now /\ now - lastCleanup > CleanupInterval
  BY DEF Chronology, AllowAndCleanUp
<1>2. DEFINE live == [c \in Clients |-> After(requests[c], clock' - Window)]
<1>3. PICK out \in SUBSET Clients :
        /\ Judge(k, granted, now, [c \in Clients |-> IF c \in out THEN {} ELSE live[c]])
        /\ evicted' = [c \in Clients |-> IF c \in out THEN clock ELSE evicted[c]]
  BY DEF AllowAndCleanUp
<1>4. DEFINE map == [c \in Clients |-> IF c \in out THEN {} ELSE live[c]]
<1>5. /\ map \in [Clients -> SUBSET (1 .. clock)]
      /\ \A c \in Clients : map[c] = IF c \in out THEN {} ELSE After(requests[c], clock' - Window)
      /\ \A c \in Clients : map[c] \subseteq requests[c]
  BY DEF Chronology, After
<1>6. Judge(k, granted, now, map)
  BY <1>3
<1>. HIDE DEF map, live
<1>7. /\ requests' \in [Clients -> SUBSET (1 .. clock')]
      /\ grants' \in [Clients -> SUBSET (1 .. clock')]
      /\ WithinLimit'
  BY <1>1, <1>5, <1>6, JudgeEffect
<1>8. Chronology'
  BY <1>1, <1>3, <1>7 DEF Chronology
<1>9. ASSUME NEW c \in Clients
      PROVE  /\ After(grants'[c], evicted'[c]) \subseteq requests'[c]
             /\ Cardinality(UpTo(grants'[c], evicted'[c])) <= Limit
  <2>1. /\ evicted[c] \in Nat /\ evicted[c] <= clock
        /\ evicted[c] = 0 \/ evicted[c] < lastCleanup
        /\ grants[c] \in SUBSET (1 .. clock) /\ requests[c] \in SUBSET (1 .. clock)
        /\ lastCleanup \in Int
    BY DEF Chronology
  <2>2. grants'[c] = After(grants[c], clock' - Window) \cup IF granted /\ c = k THEN {now} ELSE {}
    BY <1>6 DEF Judge
  <2>3. requests'[c] = IF c = k THEN After(map[k], now - Window)
                                      \cup IF granted THEN {now} ELSE {}
                       ELSE map[c]
    BY <1>5, <1>6 DEF Judge
  <2>4. After(grants[c], evicted[c]) \subseteq requests[c]
    BY DEF Remembered
  <2>5. CASE c \in out
    <3>1. evicted'[c] = clock
      BY <1>3, <2>5
    <3>2. After(grants[c], clock' - Window) \subseteq requests[c]
      BY <1>1, <2>1, <2>4 DEF After
    <3>3. UpTo(grants'[c], clock) \subseteq requests[c]
      BY <1>1, <2>2, <3>2 DEF UpTo
    <3>4. Cardinality(requests[c]) <= Limit
      BY DEF WithinLimit
    <3>5. Cardinality(UpTo(grants'[c], evicted'[c])) <= Limit
      BY <1>1, <2>1, <3>1, <3>3, <3>4, PartBounded
    <3>6. After(grants'[c], evicted'[c]) \subseteq IF granted /\ c = k THEN {now} ELSE {}
      BY <1>1, <2>1, <2>2, <3>1 DEF After
    <3>. QED
      BY <2>3, <3>5, <3>6
  <2>6. CASE c \notin out
    <3>1. evicted'[c] = evicted[c]
      BY <1>3, <2>6
    <3>2. map[c] = After(requests[c], clock' - Window)
      BY <1>5, <2>6
    <3>3. After(grants'[c], evicted'[c]) \subseteq requests'[c]
      BY <1>1, <2>1, <2>2, <2>3, <2>4, <3>1, <3>2 DEF After
    <3>4. UpTo(grants'[c], evicted'[c]) \subseteq UpTo(grants[c], evicted[c])
      BY <1>1, <2>1, <2>2, <3>1 DEF UpTo, After
    <3>5. UpTo(grants[c], evicted[c]) \in SUBSET (1 .. clock)
      BY <2>1 DEF UpTo
    <3>6. Cardinality(UpTo(grants[c], evicted[c])) <= Limit
      BY DEF ForgottenWithinLimit
    <3>. QED
      BY <1>1, <3>3, <3>4, <3>5, <3>6, PartBounded
  <2>. QED
    BY <2>5, <2>6
<1>. QED
  BY <1>7, <1>8, <1>9 DEF Remembered, ForgottenWithinLimit

\* The inductive invariant.
THEOREM LimiterInvariant == LimiterSpec => []LimiterInv
<1>. USE LimiterAssumption
<1>1. LimiterInit => LimiterInv
  <2>. SUFFICES ASSUME LimiterInit PROVE LimiterInv
    OBVIOUS
  <2>1. Chronology
    BY DEF LimiterInit, Chronology, LimiterAssumption
  <2>2. \A c \in Clients : requests[c] = {} /\ UpTo(grants[c], evicted[c]) = {}
                             /\ After(grants[c], evicted[c]) = {}
    BY DEF LimiterInit, UpTo, After
  <2>3. Cardinality({}) <= Limit
    BY FS_EmptySet DEF LimiterAssumption
  <2>4. Remembered
    BY <2>2 DEF Remembered
  <2>5. WithinLimit /\ ForgottenWithinLimit
    BY <2>2, <2>3, Zenon DEF WithinLimit, ForgottenWithinLimit
  <2>. QED
    BY <2>1, <2>4, <2>5 DEF LimiterInv
<1>2. LimiterInv /\ [LimiterNext]_limiter => LimiterInv'
  <2>. SUFFICES ASSUME LimiterInv, [LimiterNext]_limiter PROVE LimiterInv'
    OBVIOUS
  <2>1. CASE UNCHANGED limiter
    BY <2>1 DEF limiter, LimiterInv, Chronology, Remembered, WithinLimit, ForgottenWithinLimit
  <2>2. CASE LimiterNext
    BY <2>2, AllowOnlyInv, AllowAndCleanUpInv DEF LimiterNext, Allow
  <2>. QED
    BY <2>1, <2>2
<1>. QED
  BY <1>1, <1>2, PTL DEF LimiterSpec

-----------------------------------------------------------------------------
\* The limiter's variables keep their types.
THEOREM LimiterTypeCorrect == LimiterSpec => []LimiterTypeOK
<1>1. LimiterInv => LimiterTypeOK
  BY LimiterAssumption DEF LimiterInv, Chronology, LimiterTypeOK, Instants, LimiterAssumption
<1>. QED
  BY <1>1, LimiterInvariant, PTL

\* No client is granted more than Limit requests in a window, not counting
\* those that an eviction has forgotten (middleware/ratelimit.go, Allow).
THEOREM WindowKeptHolds == LimiterSpec => []WindowKept
<1>1. LimiterInv => WindowKept
  <2>. SUFFICES ASSUME LimiterInv, NEW c \in Clients
                PROVE  Cardinality(After(grants[c], evicted[c])) <= Limit
    BY DEF WindowKept
  <2>1. /\ clock \in Nat /\ requests[c] \in SUBSET (1 .. clock)
        /\ Limit \in Nat /\ Cardinality(requests[c]) <= Limit
        /\ After(grants[c], evicted[c]) \in SUBSET requests[c]
    BY LimiterAssumption
    DEF LimiterInv, Chronology, WithinLimit, Remembered, LimiterAssumption
  <2>. QED
    BY <2>1, PartBounded
<1>. QED
  BY <1>1, LimiterInvariant, PTL

\* Even a client that is forgotten is granted at most twice the limit in a
\* window, since clean-ups are further apart than that.
THEOREM TwiceAtMostHolds == LimiterSpec => []TwiceAtMost
<1>1. LimiterInv => TwiceAtMost
  <2>. SUFFICES ASSUME LimiterInv, NEW c \in Clients
                PROVE  Cardinality(grants[c]) <= 2 * Limit
    BY DEF TwiceAtMost
  <2>1. /\ clock \in Nat /\ evicted[c] \in Nat /\ Limit \in Nat
        /\ grants[c] \in SUBSET (1 .. clock) /\ requests[c] \in SUBSET (1 .. clock)
        /\ Cardinality(requests[c]) <= Limit
        /\ Cardinality(UpTo(grants[c], evicted[c])) <= Limit
        /\ After(grants[c], evicted[c]) \in SUBSET requests[c]
    BY LimiterAssumption
    DEF LimiterInv, Chronology, WithinLimit, Remembered, ForgottenWithinLimit, LimiterAssumption
  <2>2. Cardinality(After(grants[c], evicted[c])) <= Limit
    BY <2>1, PartBounded
  <2>3. grants[c] = After(grants[c], evicted[c]) \cup UpTo(grants[c], evicted[c])
    BY <2>1 DEF After, UpTo
  <2>4. /\ After(grants[c], evicted[c]) \in SUBSET (1 .. clock)
        /\ UpTo(grants[c], evicted[c]) \in SUBSET (1 .. clock)
    BY <2>1 DEF UpTo
  <2>. QED
    BY <2>1, <2>2, <2>3, <2>4, TwoBounded
<1>. QED
  BY <1>1, LimiterInvariant, PTL

-----------------------------------------------------------------------------
\* A grant is in the window of a clock that is one instant ahead.
LEMMA AheadByOne ==
  ASSUME NEW now \in Nat, NEW ahead \in Nat, ahead <= now + 1, Window \in Nat, Window >= 2
  PROVE  now > ahead - Window
OBVIOUS

\* The two modules count alike.
LEMMA SameCount == \A S : Ideal!Cardinality(S) = Cardinality(S)
  BY DEF Cardinality, Ideal!Cardinality, IsFiniteSet, Ideal!IsFiniteSet

\* A judgement over what the clean-up left is the ideal limiter's answer over
\* what it may still know: that the map holds older timestamps makes no
\* difference, nor that the clean-up's clock is ahead of the request's.
LEMMA JudgeIsAsk ==
  ASSUME Chronology, LimiterAssumption,
         NEW k \in Clients, NEW granted \in BOOLEAN,
         NEW now \in clock + 1 .. clock + MaxStep, clock' \in {now, now + 1},
         NEW out \in SUBSET Clients,
         NEW left, left = [c \in Clients |-> After(requests[c], clock' - Window)],
         Ideal!MayForget(out, left),
         NEW map \in [Clients -> SUBSET (1 .. clock)],
         \A c \in out : map[c] = {},
         \A c \in Clients \ out : After(map[c], clock' - Window) = left[c],
         After(map[k], now - Window) = IF k \in out THEN {} ELSE left[k],
         Judge(k, granted, now, map)
  PROVE  Ideal!Ask
<1>1. /\ clock \in Nat /\ now \in Nat /\ now > clock /\ clock' \in Nat /\ clock' >= now
      /\ Window \in Nat /\ now > clock' - Window /\ now \in clock + 1 .. clock'
  <2>1. clock \in Nat /\ MaxStep \in Nat /\ Window \in Nat /\ Window >= 2
    BY DEF Chronology, LimiterAssumption
  <2>2. now \in Nat /\ now > clock
    BY <2>1
  <2>3. clock' \in Nat /\ clock' >= now /\ clock' <= now + 1
    BY <2>2
  <2>4. now > clock' - Window
    BY <2>1, <2>2, <2>3, AheadByOne
  <2>5. now \in clock + 1 .. clock'
    BY <2>1, <2>2, <2>3
  <2>. QED
    BY <2>1, <2>2, <2>3, <2>4, <2>5
<1>2. DEFINE window == [c \in Clients |-> After(requests[c], clock - Window)]
             known  == [c \in Clients |-> IF c \in out THEN {} ELSE left[c]]
<1>3. left = [c \in Clients |-> {t \in window[c] : t > clock' - Window}]
  <2>1. ASSUME NEW c \in Clients
        PROVE  After(requests[c], clock' - Window) = {t \in window[c] : t > clock' - Window}
    BY <1>1 DEF After, Chronology
  <2>. HIDE DEF window
  <2>. QED
    BY <2>1, Zenon
<1>4. requests' = [map EXCEPT ![k] = IF granted THEN known[k] \cup {now} ELSE known[k]]
  BY DEF Judge
<1>5. granted = (Cardinality(known[k]) < Limit)
  BY DEF Judge
<1>6. ASSUME NEW c \in Clients
      PROVE  After(requests'[c], clock' - Window)
               = IF c = k /\ granted THEN known[c] \cup {now} ELSE known[c]
  <2>1. known[c] = After(known[c], clock' - Window)
    BY DEF After
  <2>2. CASE c = k
    <3>1. requests'[c] = IF granted THEN known[c] \cup {now} ELSE known[c]
      BY <1>4, <2>2, Zenon
    <3>. HIDE DEF known
    <3>. QED
      BY <1>1, <2>1, <2>2, <3>1 DEF After
  <2>3. CASE c # k
    <3>1. requests'[c] = map[c]
      BY <1>4, <2>3
    <3>. QED
      BY <2>3, <3>1 DEF After
  <2>. QED
    BY <2>2, <2>3
<1>7. window' = IF granted THEN [known EXCEPT ![k] = @ \cup {now}] ELSE known
  <2>1. window' = [c \in Clients |-> IF c = k /\ granted THEN known[c] \cup {now} ELSE known[c]]
    BY <1>6, Zenon
  <2>. QED
    BY <2>1
<1>8. Ideal!Answer(k, now, known)
  BY <1>5, <1>7, SameCount DEF Ideal!Answer
<1>. HIDE DEF window
<1>9. clock' > clock
  BY <1>1
<1>. QED
  BY <1>1, <1>3, <1>8, <1>9, Zenon DEF Ideal!Ask, window

\* The rate limiter implements the ideal one.
THEOREM IsSlidingWindowHolds == LimiterSpec => IsSlidingWindow
<1>1. LimiterInit => Ideal!WInit
  BY DEF LimiterInit, Ideal!WInit, After
<1>2. LimiterInv /\ [LimiterNext]_limiter => [Ideal!Ask]_(Ideal!wvars)
  <2>. SUFFICES ASSUME LimiterInv, [LimiterNext]_limiter
                PROVE  Ideal!Ask \/ UNCHANGED Ideal!wvars
    OBVIOUS
  <2>1. CASE UNCHANGED limiter
    BY <2>1 DEF limiter, Ideal!wvars, After
  <2>2. CASE LimiterNext
    <3>1. PICK k \in Clients, granted \in BOOLEAN, now \in clock + 1 .. clock + MaxStep :
            AllowOnly(k, granted, now) \/ AllowAndCleanUp(k, granted, now)
      BY <2>2 DEF LimiterNext, Allow
    <3>2. DEFINE left == [c \in Clients |-> After(requests[c], clock' - Window)]
    <3>3. CASE AllowOnly(k, granted, now)
      <4>1. Ideal!MayForget({}, left)
        BY DEF Ideal!MayForget
      <4>2. clock' = now /\ Judge(k, granted, now, requests)
        BY <3>3 DEF AllowOnly
      <4>3. requests \in [Clients -> SUBSET (1 .. clock)]
        BY DEF LimiterInv, Chronology
      <4>4. \A c \in Clients : After(requests[c], clock' - Window) = left[c]
        OBVIOUS
      <4>. HIDE DEF left
      <4>. QED
        BY <4>1, <4>2, <4>3, <4>4, JudgeIsAsk, LimiterAssumption DEF LimiterInv, left
    <3>4. CASE AllowAndCleanUp(k, granted, now)
      <4>1. PICK out \in SUBSET Clients :
              /\ Coldest(out, left)
              /\ Judge(k, granted, now, [c \in Clients |-> IF c \in out THEN {} ELSE left[c]])
        BY <3>4 DEF AllowAndCleanUp
      <4>2. DEFINE map == [c \in Clients |-> IF c \in out THEN {} ELSE left[c]]
      <4>3. clock' \in {now, now + 1}
        BY <3>4 DEF AllowAndCleanUp
      <4>4. Ideal!MayForget(out, left)
        <5>1. \A S \in SUBSET Clients : Cardinality(S) \in Nat
          BY FS_Subset, FS_CardinalityType, LimiterAssumption DEF LimiterAssumption
        <5>2. Cardinality({c \in Clients : left[c] # {}}) \in Nat /\ MaxEntries \in Nat
          BY <5>1, LimiterAssumption DEF LimiterAssumption
        <5>3. CASE Cardinality({c \in Clients : left[c] # {}}) <= MaxEntries
          BY <4>1, <5>3, Zenon DEF Coldest, Ideal!MayForget
        <5>4. CASE Cardinality({c \in Clients : left[c] # {}}) > MaxEntries
          <6>1. ~(Cardinality({c \in Clients : left[c] # {}}) <= MaxEntries)
            BY <5>2, <5>4
          <6>. HIDE DEF left
          <6>. QED
            BY <4>1, <5>4, <6>1, SameCount, Zenon DEF Coldest, Ideal!MayForget
        <5>. QED
          BY <5>2, <5>3, <5>4
      <4>5. map \in [Clients -> SUBSET (1 .. clock)] /\ \A c \in out : map[c] = {}
        BY DEF LimiterInv, Chronology, After
      <4>6. \A c \in Clients \ out : After(map[c], clock' - Window) = left[c]
        BY DEF After
      <4>7. After(map[k], now - Window) = IF k \in out THEN {} ELSE left[k]
        BY <4>3, LimiterAssumption DEF After, LimiterInv, Chronology, LimiterAssumption
      <4>8. Judge(k, granted, now, map)
        BY <4>1
      <4>. HIDE DEF map
      <4>. QED
        BY <4>3, <4>4, <4>5, <4>6, <4>7, <4>8, JudgeIsAsk, LimiterAssumption DEF LimiterInv
    <3>. QED
      BY <3>1, <3>3, <3>4
  <2>. QED
    BY <2>1, <2>2
<1>. QED
  BY <1>1, <1>2, LimiterInvariant, PTL DEF LimiterSpec, IsSlidingWindow, Ideal!WSpec

=============================================================================
