------------------------------ MODULE Telemetry ------------------------------
(***************************************************************************)
(* Two metric families and the scraper that prints them: a counter family  *)
(* and a histogram family with the same labels.  A family is a map from    *)
(* label values ("keys") to children; a read-write lock guards the map,    *)
(* the children themselves are cells that are updated atomically, one by   *)
(* one.  A process that looks for a child holds the read lock for the one  *)
(* step; a process that adds a child needs the write lock; the scraper     *)
(* holds the read lock while it prints the family, cell by cell, straight  *)
(* to the network.  A writer that waits keeps new readers out: this is     *)
(* what Go's RWMutex does, modelled as its callers use it.                 *)
(*                                                                         *)
(* The scraper reads the children in the order of their labels; Rank is    *)
(* that order.  The sum of a histogram, which grows with every positive    *)
(* duration, is kept as the number of the observations that it includes.   *)
(*                                                                         *)
(* A definition introduced as a mutant is no part of the specification.    *)
(***************************************************************************)
EXTENDS Naturals, FiniteSets

CONSTANTS
  Calls,   \* the processes that count
  Keys,    \* the label values
  Rank,    \* the order of the keys
  Les,     \* how many bounded buckets a histogram has
  Latency  \* the first bucket that each process's duration is in; Les + 1: none

ASSUME TelemetryAssumption ==
  /\ IsFiniteSet(Calls)
  /\ Keys # {} /\ IsFiniteSet(Keys)
  /\ Rank \in [Keys -> Nat]
  /\ \A j, k \in Keys : Rank[j] = Rank[k] => j = k
  /\ Les \in Nat \ {0}
  /\ Latency \in [Calls -> 1 .. Les + 1]

VARIABLES
  at,        \* each process's next step inside Add or Observe
  on,        \* the key that it counts under
  seen,      \* the value of the counter, or the sum, that it has read
  le,        \* the bucket that it comes to next
  series,    \* the keys in the counter's map
  value,     \* the counter's children
  hseries,   \* the keys in the histogram's map
  sum, count, bucket,   \* the histogram's children
  scan,      \* what the scraper prints: nothing, the counter, the histogram
  left,      \* the keys that it has yet to print
  shown,     \* the values of the counter that it has printed
  cell,      \* the cell of a histogram child that it prints next
  row        \* the cells of that child that it has printed

process == <<at, on, seen, le>>
counter == <<series, value>>
histogram == <<hseries, sum, count, bucket>>
scraper == <<scan, left, shown, cell, row>>
telemetry == <<process, counter, histogram, scraper>>

\* The cells of a histogram child in the order in which they are printed: the
\* bounded buckets, the +Inf bucket, the sum, the count.
Inf   == Les + 1
Sum   == Les + 2
Count == Les + 3

None == [i \in 1 .. Sum |-> 0]

-----------------------------------------------------------------------------
(* Add(1) on the counter.                                                  *)

\* A process calls Add with the label values k.
BeginAdd(c, k) ==
  /\ at[c] = "idle"
  /\ at' = [at EXCEPT ![c] = "find"]
  /\ on' = [on EXCEPT ![c] = k]

\* No process waits for the write lock.
NoWriter(step) == \A d \in Calls : at[d] # step

\* The child is looked for under the read lock.
Find(c) ==
  /\ at[c] = "find"
  /\ NoWriter("create")
  /\ at' = [at EXCEPT ![c] = IF on[c] \in series THEN "load" ELSE "lock"]
  /\ UNCHANGED <<on, seen, le, counter, histogram, scraper>>

\* The write lock is asked for: from here on the process is a writer that waits.
Lock(c) ==
  /\ at[c] = "lock"
  /\ at' = [at EXCEPT ![c] = "create"]
  /\ UNCHANGED <<on, seen, le, counter, histogram, scraper>>

\* Mutant: a child that another process has added meanwhile is replaced.
CreateUnchecked(c) ==
  /\ at[c] = "create"
  /\ scan # "counter"
  /\ series' = series \cup {on[c]}
  /\ value' = [value EXCEPT ![on[c]] = 0]
  /\ at' = [at EXCEPT ![c] = "load"]
  /\ UNCHANGED <<on, seen, le, histogram, scraper>>

\* The child is looked for once more under the write lock, and added.
Create(c) ==
  /\ at[c] = "create"
  /\ scan # "counter"
  /\ series' = series \cup {on[c]}
  /\ at' = [at EXCEPT ![c] = "load"]
  /\ UNCHANGED <<on, seen, le, value, histogram, scraper>>

Load(c) ==
  /\ at[c] = "load"
  /\ seen' = [seen EXCEPT ![c] = value[on[c]]]
  /\ at' = [at EXCEPT ![c] = "swap"]
  /\ UNCHANGED <<on, le, counter, histogram, scraper>>

\* Mutant: a plain store in place of the compare-and-swap.
SwapBlindly(c) ==
  /\ at[c] = "swap"
  /\ value' = [value EXCEPT ![on[c]] = seen[c] + 1]
  /\ seen' = [seen EXCEPT ![c] = 0]
  /\ at' = [at EXCEPT ![c] = "idle"]
  /\ UNCHANGED <<on, le, series, histogram, scraper>>

\* The compare-and-swap: it succeeds unless the value has changed.
Swap(c) ==
  /\ at[c] = "swap"
  /\ value[on[c]] = seen[c]
  /\ value' = [value EXCEPT ![on[c]] = seen[c] + 1]
  /\ seen' = [seen EXCEPT ![c] = 0]
  /\ at' = [at EXCEPT ![c] = "idle"]
  /\ UNCHANGED <<on, le, series, histogram, scraper>>

\* Mutant: the compare-and-swap may fail although the value has not changed.
SwapFailsAnyTime(c) ==
  /\ at[c] = "swap"
  /\ at' = [at EXCEPT ![c] = "load"]
  /\ UNCHANGED <<on, seen, le, counter, histogram, scraper>>

SwapFails(c) ==
  /\ at[c] = "swap"
  /\ value[on[c]] # seen[c]
  /\ at' = [at EXCEPT ![c] = "load"]
  /\ UNCHANGED <<on, seen, le, counter, histogram, scraper>>

-----------------------------------------------------------------------------
(* Observe on the histogram.                                               *)

\* A process calls Observe with the label values k.
BeginObserve(c, k) ==
  /\ at[c] = "idle"
  /\ at' = [at EXCEPT ![c] = "hfind"]
  /\ on' = [on EXCEPT ![c] = k]

HFind(c) ==
  /\ at[c] = "hfind"
  /\ NoWriter("hcreate")
  /\ at' = [at EXCEPT ![c] = IF on[c] \in hseries THEN "hload" ELSE "hlock"]
  /\ UNCHANGED <<on, seen, le, counter, histogram, scraper>>

HLock(c) ==
  /\ at[c] = "hlock"
  /\ at' = [at EXCEPT ![c] = "hcreate"]
  /\ UNCHANGED <<on, seen, le, counter, histogram, scraper>>

HCreate(c) ==
  /\ at[c] = "hcreate"
  /\ scan # "histogram"
  /\ hseries' = hseries \cup {on[c]}
  /\ at' = [at EXCEPT ![c] = "hload"]
  /\ UNCHANGED <<on, seen, le, counter, sum, count, bucket, scraper>>

\* The sum is added to by a loop like that of Add.
HLoad(c) ==
  /\ at[c] = "hload"
  /\ seen' = [seen EXCEPT ![c] = sum[on[c]]]
  /\ at' = [at EXCEPT ![c] = "hswap"]
  /\ UNCHANGED <<on, le, counter, histogram, scraper>>

\* Mutant: a plain store in place of the compare-and-swap.
HSwapBlindly(c) ==
  /\ at[c] = "hswap"
  /\ sum' = [sum EXCEPT ![on[c]] = seen[c] + 1]
  /\ seen' = [seen EXCEPT ![c] = 0]
  /\ at' = [at EXCEPT ![c] = "hcount"]
  /\ UNCHANGED <<on, le, counter, hseries, count, bucket, scraper>>

HSwap(c) ==
  /\ at[c] = "hswap"
  /\ sum[on[c]] = seen[c]
  /\ sum' = [sum EXCEPT ![on[c]] = seen[c] + 1]
  /\ seen' = [seen EXCEPT ![c] = 0]
  /\ at' = [at EXCEPT ![c] = "hcount"]
  /\ UNCHANGED <<on, le, counter, hseries, count, bucket, scraper>>

HSwapFails(c) ==
  /\ at[c] = "hswap"
  /\ sum[on[c]] # seen[c]
  /\ at' = [at EXCEPT ![c] = "hload"]
  /\ UNCHANGED <<on, seen, le, counter, histogram, scraper>>

HCount(c) ==
  /\ at[c] = "hcount"
  /\ count' = [count EXCEPT ![on[c]] = @ + 1]
  /\ le' = [le EXCEPT ![c] = 1]
  /\ at' = [at EXCEPT ![c] = "hbucket"]
  /\ UNCHANGED <<on, seen, counter, hseries, sum, bucket, scraper>>

\* The next bucket, which the observation belongs to from its first one on.
HBucket(c) ==
  /\ at[c] = "hbucket"
  /\ bucket' = IF Latency[c] <= le[c]
               THEN [bucket EXCEPT ![on[c]][le[c]] = @ + 1] ELSE bucket
  /\ le' = [le EXCEPT ![c] = IF @ < Les THEN @ + 1 ELSE 0]
  /\ at' = [at EXCEPT ![c] = IF le[c] < Les THEN @ ELSE "idle"]
  /\ UNCHANGED <<on, seen, counter, hseries, sum, count, scraper>>

-----------------------------------------------------------------------------
(* The scraper.                                                            *)

\* Gather takes the read lock of the counter and collects its keys.
ScrapeCounter ==
  /\ scan = "nothing"
  /\ NoWriter("create")
  /\ scan' = "counter"
  /\ left' = series
  /\ UNCHANGED <<process, counter, histogram, shown, cell, row>>

\* Mutant: the keys are not sorted, and come in the reversed order.
FirstReversed(k) == k \in left /\ \A j \in left : Rank[j] <= Rank[k]

\* The keys are printed in their order.
First(k) == k \in left /\ \A j \in left : Rank[k] <= Rank[j]

PrintCounter(k) ==
  /\ scan = "counter"
  /\ First(k)
  /\ shown' = [shown EXCEPT ![k] = value[k]]
  /\ left' = left \ {k}
  /\ UNCHANGED <<process, counter, histogram, scan, cell, row>>

\* The counter is done: its lock is released, and the histogram's taken once
\* no writer waits for it.
CounterDone ==
  /\ scan = "counter"
  /\ left = {}
  /\ scan' = "between"
  /\ shown' = [k \in Keys |-> 0]
  /\ UNCHANGED <<process, counter, histogram, left, cell, row>>

ScrapeHistogram ==
  /\ scan = "between"
  /\ NoWriter("hcreate")
  /\ scan' = "histogram"
  /\ left' = hseries
  /\ cell' = 1
  /\ UNCHANGED <<process, counter, histogram, shown, row>>

\* What a cell of the child k holds.
Reading(k, i) ==
  IF i = Sum THEN sum[k]
  ELSE IF i < Inf THEN bucket[k][i] ELSE count[k]

PrintCell(k) ==
  /\ scan = "histogram"
  /\ First(k)
  /\ cell < Count
  /\ row' = [row EXCEPT ![cell] = Reading(k, cell)]
  /\ cell' = cell + 1
  /\ UNCHANGED <<process, counter, histogram, scan, left, shown>>

\* The count, which is no less than what the +Inf bucket showed, is the last
\* cell of a child.
PrintCount(k) ==
  /\ scan = "histogram"
  /\ First(k)
  /\ cell = Count
  /\ left' = left \ {k}
  /\ cell' = 1
  /\ row' = None
  /\ UNCHANGED <<process, counter, histogram, scan, shown>>

HistogramDone ==
  /\ scan = "histogram"
  /\ left = {}
  /\ scan' = "nothing"
  /\ cell' = 0
  /\ UNCHANGED <<process, counter, histogram, left, shown, row>>

-----------------------------------------------------------------------------

TelemetryInit ==
  /\ at      = [c \in Calls |-> "idle"]
  /\ on      = [c \in Calls |-> CHOOSE k \in Keys : TRUE]
  /\ seen    = [c \in Calls |-> 0]
  /\ le      = [c \in Calls |-> 0]
  /\ series  = {}
  /\ value   = [k \in Keys |-> 0]
  /\ hseries = {}
  /\ sum     = [k \in Keys |-> 0]
  /\ count   = [k \in Keys |-> 0]
  /\ bucket  = [k \in Keys |-> [i \in 1 .. Les |-> 0]]
  /\ scan    = "nothing"
  /\ left    = {}
  /\ shown   = [k \in Keys |-> 0]
  /\ cell    = 0
  /\ row     = None

\* A step inside Add or Observe.
Counts(c) ==
  \/ Find(c) \/ Lock(c) \/ Create(c) \/ Load(c) \/ Swap(c) \/ SwapFails(c)
  \/ HFind(c) \/ HLock(c) \/ HCreate(c) \/ HLoad(c) \/ HSwap(c) \/ HSwapFails(c)
  \/ HCount(c) \/ HBucket(c)

\* The scraper goes on with what it has begun.
Prints ==
  \/ \E k \in Keys : PrintCounter(k) \/ PrintCell(k) \/ PrintCount(k)
  \/ CounterDone \/ ScrapeHistogram \/ HistogramDone

=============================================================================
