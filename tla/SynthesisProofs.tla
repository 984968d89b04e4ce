--------------------------- MODULE SynthesisProofs ---------------------------
(***************************************************************************)
(* Proofs about Synthesis and the metrics of Telemetry, for any number of  *)
(* calls, formats, buckets and lines: the types, what a call returns, that *)
(* no update of a metric is lost, what a scrape may show, and that the     *)
(* counter implements Ledger.                                              *)
(***************************************************************************)
EXTENDS Synthesis, FiniteSetTheorems, TLAPS

Adding    == {"find", "lock", "create", "load", "swap"}
Observing == {"hfind", "hlock", "hcreate", "hload", "hswap", "hcount", "hbucket"}

MetricTypes ==
  /\ at \in [Calls -> Steps] /\ on \in [Calls -> Keys]
  /\ seen \in [Calls -> Nat]
  /\ le \in [Calls -> 0 .. Les]
  /\ series \subseteq Keys /\ value \in [Keys -> Nat]
  /\ hseries \subseteq Keys /\ sum \in [Keys -> Nat]
  /\ count \in [Keys -> Nat] /\ bucket \in [Keys -> [1 .. Les -> Nat]]

ScraperTypes ==
  /\ scan \in {"nothing", "counter", "between", "histogram"} /\ left \subseteq Keys
  /\ shown \in [Keys -> Nat] /\ cell \in 0 .. Count /\ row \in [1 .. Sum -> Nat]

AnswerType == [format : Formats \cup {"wav", "none"}, encoding : Formats \cup {"none"},
               header : BOOLEAN, audio : SUBSET Nat]

CallTypes ==
  /\ pc \in [Calls -> Stations] /\ audio \in [Calls -> SUBSET Nat]
  /\ charged \in [Calls -> BOOLEAN]
  /\ status \in [Calls -> Outcomes \cup {"none"}] /\ code \in [Calls -> Nat]
  /\ answer \in [Calls -> AnswerType]
  /\ errors \in [Labels -> Nat] /\ usage \subseteq Calls
  /\ lines \in [Calls -> Seq(Kinds)] /\ ended \in [Calls -> {"open", "end", "cut"}]

\* Where a call stands in its metrics, what it counts under, and whether its
\* outcome is known.
Places ==
  \A c \in Calls :
    /\ at[c] \in Adding =>
         \/ pc[c] = "post" /\ on[c] = <<"started", UpstreamFormat[c]>>
         \/ pc[c] = "observe" /\ on[c] = Outcome(c)
    /\ at[c] \in Observing => pc[c] = "rest" /\ on[c] = Outcome(c)
    /\ at[c] = "hbucket" => le[c] \in 1 .. Les
    /\ status[c] # "none" <=> pc[c] \in {"finish", "observe", "rest", "done"}

Base == MetricTypes /\ ScraperTypes /\ CallTypes /\ Places

\* The type invariant is the three of its parts.
LEMMA TypesOfParts == TypeOK <=> MetricTypes /\ ScraperTypes /\ CallTypes
BY DEF TypeOK, MetricTypes, ScraperTypes, CallTypes, AnswerType

\* The constants, as the proofs need them.
LEMMA Constants ==
  /\ Les \in Nat \ {0}
  /\ Latency \in [Calls -> 1 .. Les + 1]
  /\ HttpCodes \subseteq Nat /\ StreamCodes \subseteq Nat
BY TelemetryAssumption, SynthesisAssumption DEF TelemetryAssumption, SynthesisAssumption

\* What the service is asked for is a format.
LEMMA UpstreamFormatType == UpstreamFormat \in [Calls -> Formats]
BY DEF UpstreamFormat, Formats

\* A status and the format of a call make a key.
LEMMA KeyOfCall ==
  ASSUME NEW c \in Calls, NEW s \in {"started"} \cup Outcomes
  PROVE  <<s, UpstreamFormat[c]>> \in Keys /\ UpstreamFormat[c] \in Asked
<1>1. UpstreamFormat[c] \in Asked
  BY DEF Asked
<1>2. Keys = ({"started"} \cup Outcomes) \X Asked
  BY SynthesisAssumption DEF SynthesisAssumption
<1>. QED
  BY <1>1, <1>2

\* The names of the statuses: a call that has not ended has none of them, and
\* none of those of an answer with an HTTP code is one of the others.
LEMMA StatusNames ==
  /\ "none" \notin Outcomes /\ "started" \notin Outcomes
  /\ "ok" \in Outcomes /\ Errors \subseteq Outcomes \ {"ok"}
  /\ \A n \in HttpCodes : HttpStatus[n] \in Outcomes \ ({"ok"} \cup Errors)
BY SynthesisAssumption DEF SynthesisAssumption, Outcomes, Errors

\* Each error code is of one of the families.
LEMMA CodeLabelType == \A n : CodeLabel(n) \in Labels
BY DEF CodeLabel, Labels

-----------------------------------------------------------------------------
(* Steps: those of a call with its own variables, those inside its metrics, *)
(* those of the scraper.                                                    *)

\* The steps that leave the metrics' variables alone.
Local(c) ==
  \/ Reject(c) \/ PostFails(c) \/ Cut(c) \/ WrapFails(c) \/ Wrap(c) \/ Rest(c)
  \/ Serves(c)

\* Every step of the system is one of these.
LEMMA StepsOfSystem ==
  ASSUME [Next]_vars
  PROVE  \/ \E c \in Calls : Begin(c) \/ UpstreamFinished(c) \/ Observe(c)
         \/ \E c \in Calls : Local(c)
         \/ \E c \in Calls : Counts(c) /\ UNCHANGED calls
         \/ (ScrapeCounter \/ Prints) /\ UNCHANGED calls
         \/ UNCHANGED vars
BY DEF Next, Advances, Local

\* The scraper changes only its own variables.
LEMMA ScraperAlone ==
  ASSUME ScrapeCounter \/ Prints
  PROVE  UNCHANGED <<process, counter, histogram>>
BY DEF ScrapeCounter, Prints, PrintCounter, PrintCell, PrintCount, CounterDone,
       ScrapeHistogram, HistogramDone

\* A step of a call leaves the metrics alone.
LEMMA LocalAlone ==
  ASSUME NEW c \in Calls, Local(c)
  PROVE  UNCHANGED telemetry
BY DEF Local, Serves, Reject, PostFails, Cut, WrapFails, Wrap, Rest, HttpError, Respond,
       ReadAudio, ReadSilent, ReadBroken, ReadGarbled, ReadError, ReadFinal, Drain, NoAudio,
       StreamEnds,
       Fail, Finish

-----------------------------------------------------------------------------
(* The types and the places.                                               *)

\* A cell of a row of numbers may be counted up.
LEMMA OneMore ==
  ASSUME NEW n \in Nat, NEW f \in [1 .. n -> Nat], NEW i
  PROVE  [f EXCEPT ![i] = f[i] + 1] \in [1 .. n -> Nat]
<1>. DEFINE g == [f EXCEPT ![i] = f[i] + 1]
<1>1. \A j \in 1 .. n : g[j] \in Nat
  <2>. TAKE j \in 1 .. n
  <2>1. CASE j = i
    BY <2>1
  <2>2. CASE j # i
    BY <2>2
  <2>. QED
    BY <2>1, <2>2
<1>2. g = [j \in 1 .. n |-> g[j]]
  OBVIOUS
<1>. QED
  BY <1>1, <1>2

\* The types of the metrics are kept by the steps inside Add and Observe.
LEMMA MetricTypesKept ==
  ASSUME Base, NEW c \in Calls, Counts(c)
  PROVE  MetricTypes'
<1>. USE DEF Base, MetricTypes, Steps, process, counter, histogram
<1>1. CASE Find(c)
  BY <1>1 DEF Find
<1>2. CASE Lock(c) \/ Load(c) \/ SwapFails(c)
  BY <1>2 DEF Lock, Load, SwapFails
<1>3. CASE Create(c)
  BY <1>3 DEF Create
<1>4. CASE Swap(c)
  BY <1>4 DEF Swap
<1>5. CASE HFind(c)
  BY <1>5 DEF HFind
<1>6. CASE HLock(c) \/ HCreate(c)
  BY <1>6 DEF HLock, HCreate
<1>7. CASE HLoad(c) \/ HSwap(c) \/ HSwapFails(c)
  <2>1. CASE HLoad(c)
    BY <2>1 DEF HLoad
  <2>2. CASE HSwap(c)
    <3>1. /\ UNCHANGED <<on, le, series, value, hseries, count, bucket>>
          /\ at' = [at EXCEPT ![c] = "hcount"] /\ seen' = [seen EXCEPT ![c] = 0]
          /\ sum' = [sum EXCEPT ![on[c]] = seen[c] + 1]
      BY <2>2 DEF HSwap
    <3>2. seen[c] + 1 \in Nat /\ on[c] \in Keys
      OBVIOUS
    <3>3. sum' \in [Keys -> Nat]
      BY <3>1, <3>2
    <3>4. at' \in [Calls -> Steps] /\ seen' \in [Calls -> Nat]
      BY <3>1
    <3>. QED
      BY <3>1, <3>3, <3>4
  <2>3. CASE HSwapFails(c)
    BY <2>3 DEF HSwapFails
  <2>. QED
    BY <1>7, <2>1, <2>2, <2>3
<1>8. CASE HCount(c)
  <2>1. UNCHANGED <<on, seen, series, value, hseries, sum, bucket>>
    BY <1>8 DEF HCount
  <2>2. count' \in [Keys -> Nat] /\ at' \in [Calls -> Steps]
    BY <1>8 DEF HCount
  <2>3. le' \in [Calls -> 0 .. Les]
    BY <1>8, Constants DEF HCount
  <2>. QED
    BY <2>1, <2>2, <2>3
<1>9. CASE HBucket(c)
  <2>1. /\ UNCHANGED <<on, seen, series, value, hseries, sum, count>>
        /\ at' \in [Calls -> Steps]
    BY <1>9 DEF HBucket
  <2>2. le' \in [Calls -> 0 .. Les]
    <3>1. le[c] \in 0 .. Les /\ Les \in Nat
      BY Constants
    <3>2. (IF le[c] < Les THEN le[c] + 1 ELSE 0) \in 0 .. Les
      BY <3>1
    <3>3. le' = [le EXCEPT ![c] = IF le[c] < Les THEN le[c] + 1 ELSE 0]
      BY <1>9 DEF HBucket
    <3>. QED
      BY <3>2, <3>3
  <2>3. bucket' \in [Keys -> [1 .. Les -> Nat]]
    <3>. DEFINE b == [bucket[on[c]] EXCEPT ![le[c]] = bucket[on[c]][le[c]] + 1]
    <3>1. on[c] \in Keys /\ bucket[on[c]] \in [1 .. Les -> Nat]
      OBVIOUS
    <3>2. b \in [1 .. Les -> Nat]
      BY <3>1, Constants, OneMore
    <3>3. bucket' = [bucket EXCEPT ![on[c]] = b] \/ bucket' = bucket
      BY <1>9 DEF HBucket
    <3>. HIDE DEF b
    <3>. QED
      BY <3>1, <3>2, <3>3
  <2>. QED
    BY <2>1, <2>2, <2>3
<1>. QED
  BY <1>1, <1>2, <1>3, <1>4, <1>5, <1>6, <1>7, <1>8, <1>9 DEF Counts

\* The types of the scraper are kept by its steps.
LEMMA ScraperTypesKept ==
  ASSUME Base, ScrapeCounter \/ Prints
  PROVE  ScraperTypes'
<1>. USE Constants DEF Base, MetricTypes, ScraperTypes, Inf, Sum, Count
<1>1. CASE ScrapeCounter \/ CounterDone \/ ScrapeHistogram \/ HistogramDone
  <2>1. row' = row
    BY <1>1 DEF ScrapeCounter, CounterDone, ScrapeHistogram, HistogramDone
  <2>2. scan' \in {"nothing", "counter", "between", "histogram"} /\ left' \subseteq Keys
    BY <1>1 DEF ScrapeCounter, CounterDone, ScrapeHistogram, HistogramDone
  <2>3. cell' = cell \/ cell' = 1 \/ cell' = 0
    BY <1>1 DEF ScrapeCounter, CounterDone, ScrapeHistogram, HistogramDone
  <2>4. shown' = shown \/ shown' = [k \in Keys |-> 0]
    BY <1>1 DEF ScrapeCounter, CounterDone, ScrapeHistogram, HistogramDone
  <2>5. cell' \in 0 .. Count
    BY <2>3
  <2>6. shown' \in [Keys -> Nat]
    <3>1. [k \in Keys |-> 0] \in [Keys -> Nat]
      BY ONLY TRUE
    <3>2. shown \in [Keys -> Nat]
      OBVIOUS
    <3>. QED
      BY ONLY <2>4, <3>1, <3>2
  <2>7. row' \in [1 .. Sum -> Nat]
    BY <2>1
  <2>. QED
    BY ONLY <2>2, <2>5, <2>6, <2>7 DEF ScraperTypes
<1>2. CASE \E k \in Keys : PrintCounter(k)
  BY <1>2 DEF PrintCounter, First
<1>3. CASE \E k \in Keys : PrintCell(k)
  <2>. PICK k \in Keys : PrintCell(k)
    BY <1>3
  <2>2. cell # 0 => Reading(k, cell) \in Nat
    <3>1. CASE cell = Sum
      BY <3>1 DEF Reading
    <3>2. CASE cell # Sum /\ cell < Inf /\ cell # 0
      BY <3>2 DEF Reading
    <3>3. CASE cell # Sum /\ ~(cell < Inf)
      BY <3>3 DEF Reading
    <3>. QED
      BY <3>1, <3>2, <3>3
  <2>3. UNCHANGED <<scan, left, shown>> /\ cell' = cell + 1 /\ cell < Count
    BY DEF PrintCell
  <2>4. row' = [row EXCEPT ![cell] = Reading(k, cell)]
    BY DEF PrintCell
  <2>5. row' \in [1 .. Sum -> Nat]
    <3>1. CASE cell = 0
      <4>1. row' = row
        BY <2>4, <3>1
      <4>. QED
        BY <4>1
    <3>2. CASE cell # 0
      <4>. DEFINE x == Reading(k, cell)
      <4>1. x \in Nat
        BY <2>2, <3>2
      <4>. HIDE DEF x
      <4>. QED
        BY <2>4, <4>1 DEF x
    <3>. QED
      BY <3>1, <3>2
  <2>. QED
    BY <2>3, <2>5
<1>4. CASE \E k \in Keys : PrintCount(k)
  BY <1>4 DEF PrintCount, None
<1>. QED
  BY <1>1, <1>2, <1>3, <1>4 DEF Prints


\* A call that is over has left the metrics alone, and its outcome is known.
LEMMA FinishKept ==
  ASSUME Base, NEW c \in Calls, NEW s \in Outcomes, NEW n \in Nat, Finish(c, s, n)
  PROVE  /\ pc' \in [Calls -> Stations] /\ audio' \in [Calls -> SUBSET Nat]
         /\ charged' \in [Calls -> BOOLEAN] /\ errors' \in [Labels -> Nat]
         /\ status' \in [Calls -> Outcomes \cup {"none"}] /\ code' \in [Calls -> Nat]
         /\ Places'
<1>. USE DEF Finish
<1>1. pc' \in [Calls -> Stations] /\ audio' \in [Calls -> SUBSET Nat]
  BY DEF Base, CallTypes, Stations
<1>2. charged' \in [Calls -> BOOLEAN] /\ errors' \in [Labels -> Nat]
  BY DEF Base, CallTypes
<1>3. status' \in [Calls -> Outcomes \cup {"none"}] /\ code' \in [Calls -> Nat]
  BY DEF Base, CallTypes
<1>4. Places'
  <2>. SUFFICES ASSUME NEW d \in Calls
                PROVE  /\ at'[d] \in Adding =>
                            \/ pc'[d] = "post" /\ on'[d] = <<"started", UpstreamFormat[d]>>
                            \/ pc'[d] = "observe" /\ on'[d] = Outcome(d)'
                       /\ at'[d] \in Observing => pc'[d] = "rest" /\ on'[d] = Outcome(d)'
                       /\ at'[d] = "hbucket" => le'[d] \in 1 .. Les
                       /\ status'[d] # "none" <=> pc'[d] \in {"finish", "observe", "rest", "done"}
    BY DEF Places
  <2>1. at' = at /\ on' = on /\ le' = le
    BY DEF telemetry, process
  <2>2. CASE d = c
    <3>1. at'[d] = "idle" /\ pc'[d] = "finish" /\ status'[d] = s
      BY <2>1, <2>2 DEF Base, CallTypes
    <3>. QED
      BY <3>1, StatusNames DEF Adding, Observing
  <2>3. CASE d # c
    <3>1. pc'[d] = pc[d] /\ status'[d] = status[d]
      BY <2>3 DEF Base, CallTypes
    <3>2. Outcome(d)' = Outcome(d)
      BY <3>1 DEF Outcome
    <3>. QED
      BY <2>1, <3>1, <3>2 DEF Base, Places
  <2>. QED
    BY <2>2, <2>3
<1>. QED
  BY <1>1, <1>2, <1>3, <1>4

\* A step of a call with its own variables and no new outcome keeps the places.
LEMMA PlacesKept ==
  ASSUME Base, NEW c \in Calls, UNCHANGED <<telemetry, status>>, at[c] = "idle",
         \E p \in Stations : /\ pc' = [pc EXCEPT ![c] = p]
                             /\ status[c] # "none" <=> p \in {"finish", "observe", "rest", "done"}
  PROVE  Places'
<1>. SUFFICES ASSUME NEW d \in Calls
              PROVE  /\ at'[d] \in Adding =>
                          \/ pc'[d] = "post" /\ on'[d] = <<"started", UpstreamFormat[d]>>
                          \/ pc'[d] = "observe" /\ on'[d] = Outcome(d)'
                     /\ at'[d] \in Observing => pc'[d] = "rest" /\ on'[d] = Outcome(d)'
                     /\ at'[d] = "hbucket" => le'[d] \in 1 .. Les
                     /\ status'[d] # "none" <=> pc'[d] \in {"finish", "observe", "rest", "done"}
  BY DEF Places
<1>1. at' = at /\ on' = on /\ le' = le /\ Outcome(d)' = Outcome(d)
  BY DEF telemetry, process, Outcome
<1>2. CASE d = c
  <2>1. at'[d] = "idle"
    BY <1>1, <1>2
  <2>2. status'[d] # "none" <=> pc'[d] \in {"finish", "observe", "rest", "done"}
    BY <1>2 DEF Base, CallTypes
  <2>. QED
    BY <2>1, <2>2 DEF Adding, Observing
<1>3. CASE d # c
  <2>1. pc'[d] = pc[d] /\ status'[d] = status[d]
    BY <1>3 DEF Base, CallTypes
  <2>. QED
    BY <1>1, <2>1 DEF Base, Places
<1>. QED
  BY <1>2, <1>3

\* Outside the metrics a call that stands where it does is in none of them.
LEMMA IdleOutside ==
  ASSUME Base, NEW c \in Calls, pc[c] \notin {"post", "observe", "rest"}
  PROVE  at[c] = "idle"
BY DEF Base, MetricTypes, Places, Steps, Adding, Observing

\* What the service has sent is a sequence of lines.
LEMMA ReceiveKept ==
  ASSUME Base, NEW c \in Calls, NEW kind \in Kinds, Receive(c, kind)
  PROVE  lines' \in [Calls -> Seq(Kinds)] /\ Len(lines'[c]) \in Nat
BY DEF Receive, Base, CallTypes

\* The steps of a call with its own variables keep the types and the places.
LEMMA LocalKept ==
  ASSUME Base, NEW c \in Calls, Local(c)
  PROVE  CallTypes' /\ Places'
<1>. DEFINE Rest0 == answer' \in [Calls -> AnswerType] /\ usage' \subseteq Calls
            Lines == lines' \in [Calls -> Seq(Kinds)]
            End   == ended' \in [Calls -> {"open", "end", "cut"}]
<1>0. ASSUME NEW s \in Outcomes, NEW n \in Nat, Finish(c, s, n), Rest0, Lines, End
      PROVE  CallTypes' /\ Places'
  BY <1>0, FinishKept DEF CallTypes
<1>1. ASSUME NEW s \in Outcomes, NEW n \in Nat, Fail(c, s, n), Lines, End
      PROVE  CallTypes' /\ Places'
  <2>1. Finish(c, s, n) /\ Rest0
    BY <1>1 DEF Fail, Base, CallTypes
  <2>. QED
    BY <2>1, <1>1, <1>0
<1>2. CASE Reject(c) \/ PostFails(c) \/ WrapFails(c)
  <2>1. Lines /\ End
    BY <1>2 DEF Reject, PostFails, WrapFails, Base, CallTypes
  <2>2. \E s \in Outcomes : Fail(c, s, 0)
    BY <1>2, StatusNames DEF Reject, PostFails, WrapFails, Errors
  <2>. HIDE DEF Lines, End
  <2>. QED
    BY <2>1, <2>2, <1>1
<1>3. CASE Cut(c) \/ NoAudio(c)
  <2>1. Lines
    BY <1>3 DEF Cut, NoAudio, Base, CallTypes
  <2>2. End
    BY <1>3 DEF Cut, NoAudio, Base, CallTypes
  <2>3. \E s \in Outcomes : Fail(c, s, 0)
    BY <1>3, StatusNames DEF Cut, NoAudio, Errors
  <2>. HIDE DEF Lines, End
  <2>. QED
    BY <2>1, <2>2, <2>3, <1>1
<1>4. CASE HttpError(c)
  <2>1. Lines /\ End
    BY <1>4 DEF HttpError, Base, CallTypes
  <2>2. \E s \in Outcomes, n \in Nat : Fail(c, s, n)
    BY <1>4, Constants, StatusNames DEF HttpError
  <2>. HIDE DEF Lines, End
  <2>. QED
    BY <2>1, <2>2, <1>1
<1>5. CASE ReadGarbled(c) \/ ReadError(c)
  <2>1. Lines
    BY <1>5, ReceiveKept DEF ReadGarbled, ReadError, Kinds
  <2>2. End
    BY <1>5 DEF ReadGarbled, ReadError, Base, CallTypes
  <2>3. \E n \in Nat : Fail(c, "stream_error", n)
    BY <1>5, Constants DEF ReadGarbled, ReadError
  <2>4. "stream_error" \in Outcomes
    BY StatusNames DEF Errors
  <2>. HIDE DEF Lines, End
  <2>. QED
    BY <2>1, <2>2, <2>3, <2>4, <1>1
<1>6. CASE Wrap(c)
  <2>1. Lines /\ End
    BY <1>6 DEF Wrap, Base, CallTypes
  <2>2. Finish(c, "ok", 0) /\ "ok" \in Outcomes
    BY <1>6, StatusNames DEF Wrap
  <2>3. usage' \subseteq Calls
    BY <1>6 DEF Wrap, Base, CallTypes
  <2>4. answer' \in [Calls -> AnswerType]
    <3>. DEFINE a == [format |-> FinalFormat(c), encoding |-> UpstreamFormat[c],
                      header |-> ClientFormat[c] = "wav", audio |-> audio[c]]
    <3>1. UpstreamFormat[c] \in Formats
      BY UpstreamFormatType
    <3>2. FinalFormat(c) \in Formats \cup {"wav"}
      BY <3>1 DEF FinalFormat
    <3>3. audio[c] \in SUBSET Nat /\ (ClientFormat[c] = "wav") \in BOOLEAN
      BY DEF Base, CallTypes
    <3>4. a \in AnswerType
      BY <3>1, <3>2, <3>3 DEF AnswerType
    <3>5. answer' = [answer EXCEPT ![c] = a]
      BY <1>6 DEF Wrap
    <3>. HIDE DEF a
    <3>. QED
      BY <3>4, <3>5 DEF Base, CallTypes
  <2>. HIDE DEF Lines, End
  <2>. QED
    BY <2>1, <2>2, <2>3, <2>4, <1>0
<1>7. CASE Rest(c)
  <2>1. UNCHANGED <<audio, charged, status, code, answer, usage, lines, ended, telemetry>>
    BY <1>7 DEF Rest
  <2>2. pc' = [pc EXCEPT ![c] = "done"] /\ pc' \in [Calls -> Stations]
    BY <1>7 DEF Rest, Base, CallTypes, Stations
  <2>3. errors' \in [Labels -> Nat]
    BY <1>7, CodeLabelType DEF Rest, Base, CallTypes
  <2>4. at[c] = "idle" /\ status[c] # "none"
    BY <1>7 DEF Rest, Base, Places
  <2>5. Places'
    BY <2>1, <2>2, <2>4, PlacesKept DEF Stations
  <2>. QED
    BY <2>1, <2>2, <2>3, <2>5 DEF Base, CallTypes
<1>8. CASE Respond(c) \/ StreamEnds(c)
  <2>1. UNCHANGED <<audio, charged, status, code, answer, errors, usage, lines, telemetry>>
    BY <1>8 DEF Respond, StreamEnds
  <2>2. End
    BY <1>8 DEF Respond, StreamEnds, Base, CallTypes
  <2>3. \E p \in {"read", "wrap"} : pc' = [pc EXCEPT ![c] = p]
    BY <1>8 DEF Respond, StreamEnds
  <2>4. at[c] = "idle" /\ status[c] = "none"
    BY <1>8, IdleOutside DEF Respond, StreamEnds, Base, Places
  <2>5. Places'
    BY <2>1, <2>3, <2>4, PlacesKept DEF Stations
  <2>6. pc' \in [Calls -> Stations]
    BY <2>3 DEF Stations, Base, CallTypes
  <2>. QED
    BY <2>1, <2>2, <2>5, <2>6 DEF Base, CallTypes
<1>9. CASE ReadAudio(c) \/ ReadSilent(c) \/ ReadBroken(c) \/ Drain(c) \/ ReadFinal(c)
  <2>1. UNCHANGED <<status, code, answer, errors, usage, ended, telemetry>>
    BY <1>9 DEF ReadAudio, ReadSilent, ReadBroken, Drain, ReadFinal
  <2>2. \E kind \in Kinds : Receive(c, kind)
    BY <1>9 DEF ReadAudio, ReadSilent, ReadBroken, Drain, ReadFinal, Kinds
  <2>3. Lines /\ Len(lines'[c]) \in Nat
    BY <2>2, ReceiveKept
  <2>4. audio' \in [Calls -> SUBSET Nat]
    <3>1. CASE ReadAudio(c)
      <4>1. audio[c] \cup {Len(lines'[c])} \in SUBSET Nat
        BY <2>3 DEF Base, CallTypes
      <4>. QED
        BY <3>1, <4>1 DEF ReadAudio, Base, CallTypes
    <3>2. CASE ~ReadAudio(c)
      BY <1>9, <3>2 DEF ReadSilent, ReadBroken, Drain, ReadFinal, Base, CallTypes
    <3>. QED
      BY <3>1, <3>2
  <2>5. charged' \in [Calls -> BOOLEAN]
    BY <1>9 DEF ReadAudio, ReadSilent, ReadBroken, Drain, ReadFinal, Base, CallTypes
  <2>6. \E p \in {"read", "drain"} : pc' = [pc EXCEPT ![c] = p]
    <3>1. pc = [pc EXCEPT ![c] = pc[c]]
      BY DEF Base, CallTypes
    <3>. QED
      BY <1>9, <3>1 DEF ReadAudio, ReadSilent, ReadBroken, Drain, ReadFinal
  <2>7. pc[c] \in {"read", "drain"}
    BY <1>9 DEF ReadAudio, ReadSilent, ReadBroken, Drain, ReadFinal
  <2>8. at[c] = "idle" /\ status[c] = "none"
    BY <2>7, IdleOutside DEF Base, Places
  <2>9. Places'
    BY <2>1, <2>6, <2>8, PlacesKept DEF Stations
  <2>10. pc' \in [Calls -> Stations]
    BY <2>6 DEF Stations, Base, CallTypes
  <2>. QED
    BY <2>1, <2>3, <2>4, <2>5, <2>9, <2>10 DEF Base, CallTypes
<1>. HIDE DEF Lines, End
<1>. QED
  BY <1>2, <1>3, <1>4, <1>5, <1>6, <1>7, <1>8, <1>9 DEF Local, Serves

\* A call that begins to count itself keeps the types and the places.
LEMMA BeginKept ==
  ASSUME Base, NEW c \in Calls, Begin(c) \/ UpstreamFinished(c) \/ Observe(c)
  PROVE  Base'
<1>1. UNCHANGED <<seen, le, counter, histogram, scraper>>
  BY DEF Begin, UpstreamFinished, Observe
<1>2. UNCHANGED <<audio, charged, status, code, errors, usage>>
  BY DEF Begin, UpstreamFinished, Observe
<1>3. answer' \in [Calls -> AnswerType]
  <2>1. NoAnswer \in AnswerType
    BY DEF NoAnswer, AnswerType
  <2>2. answer' = answer \/ answer' = [answer EXCEPT ![c] = NoAnswer]
    BY DEF Begin, UpstreamFinished, Observe
  <2>. QED
    BY <2>1, <2>2 DEF Base, CallTypes
<1>4. lines' \in [Calls -> Seq(Kinds)] /\ ended' \in [Calls -> {"open", "end", "cut"}]
  <2>1. /\ lines' = lines \/ lines' = [lines EXCEPT ![c] = <<>>]
        /\ ended' = ended \/ ended' = [ended EXCEPT ![c] = "open"]
    BY DEF Begin, UpstreamFinished, Observe
  <2>2. <<>> \in Seq(Kinds)
    OBVIOUS
  <2>. QED
    BY <2>1, <2>2 DEF Base, CallTypes
<1>5. /\ pc' \in [Calls -> Stations] /\ at' \in [Calls -> Steps]
      /\ \A d \in Calls \ {c} : pc'[d] = pc[d] /\ at'[d] = at[d] /\ on'[d] = on[d]
  <2>1. \E p \in Stations, a \in Steps : \E k :
          /\ pc' = [pc EXCEPT ![c] = p]
          /\ at' = [at EXCEPT ![c] = a]
          /\ on' = [on EXCEPT ![c] = k]
    BY DEF Begin, UpstreamFinished, Observe, BeginAdd, BeginObserve, Stations, Steps
  <2>. QED
    BY <2>1 DEF Base, MetricTypes, CallTypes
<1>6. Outcome(c)' = Outcome(c) /\ \A d \in Calls : Outcome(d)' = Outcome(d)
  BY <1>2 DEF Outcome
<1>7. /\ on' \in [Calls -> Keys]
      /\ \/ pc'[c] = "post" /\ at'[c] = "find" /\ on'[c] = <<"started", UpstreamFormat[c]>>
            /\ status[c] = "none"
         \/ pc'[c] = "observe" /\ at'[c] = "find" /\ on'[c] = Outcome(c) /\ status[c] # "none"
         \/ pc'[c] = "rest" /\ at'[c] = "hfind" /\ on'[c] = Outcome(c) /\ status[c] # "none"
  <2>1. CASE Begin(c)
    <3>1. status[c] = "none"
      BY <2>1 DEF Begin, Base, Places
    <3>2. <<"started", UpstreamFormat[c]>> \in Keys
      BY KeyOfCall
    <3>. QED
      BY <2>1, <3>1, <3>2 DEF Begin, BeginAdd, Base, MetricTypes, CallTypes
  <2>2. CASE UpstreamFinished(c) \/ Observe(c)
    <3>1. status[c] # "none"
      BY <2>2 DEF UpstreamFinished, Observe, Base, Places
    <3>2. Outcome(c) \in Keys
      BY <3>1, KeyOfCall DEF Outcome, Base, CallTypes
    <3>3. on' = [on EXCEPT ![c] = Outcome(c)]
      BY <2>2 DEF UpstreamFinished, Observe, BeginAdd, BeginObserve, Outcome
    <3>4. \/ pc'[c] = "observe" /\ at'[c] = "find"
          \/ pc'[c] = "rest" /\ at'[c] = "hfind"
      BY <2>2 DEF UpstreamFinished, Observe, BeginAdd, BeginObserve, Base, MetricTypes, CallTypes
    <3>. QED
      BY <3>1, <3>2, <3>3, <3>4 DEF Base, MetricTypes
  <2>. QED
    BY <2>1, <2>2
<1>8. MetricTypes'
  BY <1>1, <1>5, <1>7 DEF Base, MetricTypes, counter, histogram
<1>9. ScraperTypes'
  BY <1>1 DEF Base, ScraperTypes, scraper
<1>10. CallTypes'
  BY <1>2, <1>3, <1>4, <1>5 DEF Base, CallTypes
<1>11. Places'
  <2>. SUFFICES ASSUME NEW d \in Calls
                PROVE  /\ at'[d] \in Adding =>
                            \/ pc'[d] = "post" /\ on'[d] = <<"started", UpstreamFormat[d]>>
                            \/ pc'[d] = "observe" /\ on'[d] = Outcome(d)'
                       /\ at'[d] \in Observing => pc'[d] = "rest" /\ on'[d] = Outcome(d)'
                       /\ at'[d] = "hbucket" => le'[d] \in 1 .. Les
                       /\ status'[d] # "none" <=> pc'[d] \in {"finish", "observe", "rest", "done"}
    BY DEF Places
  <2>1. CASE d = c
    BY <2>1, <1>2, <1>6, <1>7 DEF Adding, Observing
  <2>2. CASE d # c
    BY <2>2, <1>1, <1>2, <1>5, <1>6 DEF Base, Places
  <2>. QED
    BY <2>1, <2>2
<1>. QED
  BY <1>8, <1>9, <1>10, <1>11 DEF Base

\* Inside its metrics a call keeps its place, and goes from step to step.
LEMMA CountsKept ==
  ASSUME Base, NEW c \in Calls, Counts(c), UNCHANGED calls
  PROVE  Base'
<1>1. MetricTypes'
  BY MetricTypesKept
<1>2. ScraperTypes'
  BY DEF Counts, Find, Lock, Create, Load, Swap, SwapFails, HFind, HLock, HCreate,
         HLoad, HSwap, HSwapFails, HCount,
         HBucket, scraper, Base, ScraperTypes
<1>3. CallTypes'
  BY DEF calls, Base, CallTypes
<1>4. /\ on' = on
      /\ \A d \in Calls \ {c} : at'[d] = at[d] /\ le'[d] = le[d]
      /\ at[c] \in Adding => at'[c] \in Adding \cup {"idle"}
      /\ at[c] \in Observing => at'[c] \in Observing \cup {"idle"}
      /\ at[c] \in Adding \cup Observing
  <2>. USE DEF Base, MetricTypes, Adding, Observing
  <2>1. CASE Find(c) \/ Lock(c) \/ Create(c) \/ Load(c) \/ SwapFails(c) \/ Swap(c)
    BY <2>1 DEF Find, Lock, Create, Load, SwapFails, Swap
  <2>2. CASE HFind(c) \/ HLock(c) \/ HCreate(c) \/ HLoad(c) \/ HSwap(c) \/ HSwapFails(c)
    BY <2>2 DEF HFind, HLock, HCreate, HLoad, HSwap, HSwapFails
  <2>3. CASE HCount(c) \/ HBucket(c)
    BY <2>3 DEF HCount, HBucket
  <2>. QED
    BY <2>1, <2>2, <2>3 DEF Counts
<1>5. at'[c] = "hbucket" => le'[c] \in 1 .. Les
  <2>1. CASE HCount(c)
    BY <2>1, Constants DEF HCount, Base, MetricTypes
  <2>2. CASE HBucket(c)
    <3>1. le[c] \in 1 .. Les /\ Les \in Nat
      BY <2>2, Constants DEF HBucket, Base, Places
    <3>2. at'[c] = "hbucket" => le[c] < Les /\ le'[c] = le[c] + 1
      BY <2>2 DEF HBucket, Base, MetricTypes
    <3>. QED
      BY <3>1, <3>2
  <2>3. CASE ~HCount(c) /\ ~HBucket(c)
    <3>1. at'[c] # "hbucket"
      BY <2>3 DEF Counts, Find, Lock, Create, Load, Swap, SwapFails, HFind, HLock, HCreate,
                  HLoad, HSwap, HSwapFails,
                  Base, MetricTypes
    <3>. QED
      BY <3>1
  <2>. QED
    BY <2>1, <2>2, <2>3
<1>6. Places'
  <2>. SUFFICES ASSUME NEW d \in Calls
                PROVE  /\ at'[d] \in Adding =>
                            \/ pc'[d] = "post" /\ on'[d] = <<"started", UpstreamFormat[d]>>
                            \/ pc'[d] = "observe" /\ on'[d] = Outcome(d)'
                       /\ at'[d] \in Observing => pc'[d] = "rest" /\ on'[d] = Outcome(d)'
                       /\ at'[d] = "hbucket" => le'[d] \in 1 .. Les
                       /\ status'[d] # "none" <=> pc'[d] \in {"finish", "observe", "rest", "done"}
    BY DEF Places
  <2>1. pc' = pc /\ status' = status /\ Outcome(d)' = Outcome(d)
    BY DEF calls, Outcome
  <2>2. CASE d = c
    <3>1. Adding \cap Observing = {} /\ "idle" \notin Adding \cup Observing
      BY DEF Adding, Observing
    <3>. QED
      BY <2>1, <2>2, <1>4, <1>5, <3>1 DEF Base, Places
  <2>3. CASE d # c
    BY <2>1, <2>3, <1>4 DEF Base, Places
  <2>. QED
    BY <2>2, <2>3
<1>. QED
  BY <1>1, <1>2, <1>3, <1>6 DEF Base

\* The scraper disturbs no call.
LEMMA ScraperKept ==
  ASSUME Base, ScrapeCounter \/ Prints, UNCHANGED calls
  PROVE  Base'
<1>1. ScraperTypes'
  BY ScraperTypesKept
<1>2. UNCHANGED <<process, counter, histogram>>
  BY ScraperAlone
<1>3. MetricTypes'
  BY <1>2 DEF Base, MetricTypes, process, counter, histogram
<1>4. CallTypes'
  BY DEF calls, Base, CallTypes
<1>5. Places'
  BY <1>2 DEF Base, Places, process, calls, Outcome
<1>. QED
  BY <1>1, <1>3, <1>4, <1>5 DEF Base

\* It holds when the program starts.
LEMMA BaseInit == Init => Base
<1>. SUFFICES ASSUME Init PROVE Base
  OBVIOUS
<1>. USE Constants DEF Init, TelemetryInit
<1>1. MetricTypes
  <2>1. (CHOOSE k \in Keys : TRUE) \in Keys
    BY TelemetryAssumption DEF TelemetryAssumption
  <2>. QED
    BY <2>1 DEF MetricTypes, Steps
<1>2. ScraperTypes
  BY DEF ScraperTypes, None, Sum, Count
<1>3. CallTypes
  BY DEF CallTypes, Stations, NoAnswer, AnswerType
<1>4. Places
  BY DEF Places, Adding, Observing
<1>. QED
  BY <1>1, <1>2, <1>3, <1>4 DEF Base

\* Every step keeps it.
LEMMA BaseStep == Base /\ [Next]_vars => Base'
<1>. SUFFICES ASSUME Base, [Next]_vars PROVE Base'
  OBVIOUS
<1>1. CASE \E c \in Calls : Begin(c) \/ UpstreamFinished(c) \/ Observe(c)
  BY <1>1, BeginKept
<1>2. CASE \E c \in Calls : Local(c)
  <2>. PICK c \in Calls : Local(c)
    BY <1>2
  <2>1. CallTypes' /\ Places'
    BY LocalKept
  <2>2. UNCHANGED telemetry
    BY LocalAlone
  <2>3. MetricTypes' /\ ScraperTypes'
    BY <2>2 DEF telemetry, process, counter, histogram, scraper, Base, MetricTypes, ScraperTypes
  <2>. QED
    BY <2>1, <2>3 DEF Base
<1>3. CASE \E c \in Calls : Counts(c) /\ UNCHANGED calls
  BY <1>3, CountsKept
<1>4. CASE (ScrapeCounter \/ Prints) /\ UNCHANGED calls
  BY <1>4, ScraperKept
<1>5. CASE UNCHANGED vars
  BY <1>5 DEF vars, calls, telemetry, process, counter, histogram, scraper, Base, MetricTypes,
              ScraperTypes, CallTypes, Places, Outcome
<1>. QED
  BY <1>1, <1>2, <1>3, <1>4, <1>5, StepsOfSystem

\* The types and the places hold throughout.
THEOREM BaseHolds == Spec => []Base
BY BaseInit, BaseStep, PTL DEF Spec

\* The types of Synthesis and Telemetry: no step of a call, of the metrics or
\* of a scrape leaves the states that the code can name
\* (adapter/volcano/synthesis.go, telemetry/counter.go, histogram.go).
THEOREM TypeCorrect == Spec => []TypeOK
<1>1. Base => TypeOK
  BY TypesOfParts DEF Base
<1>. QED
  BY <1>1, BaseHolds, PTL

-----------------------------------------------------------------------------
(* No update of a metric is lost.                                          *)

\* A set of calls grows by one call.
LEMMA OneCallMore ==
  ASSUME NEW S \in SUBSET Calls, NEW c \in Calls, c \notin S
  PROVE  Cardinality(S \cup {c}) = Cardinality(S) + 1
BY FS_Subset, FS_AddElement, TelemetryAssumption DEF TelemetryAssumption

\* A step after which call d is where it was in its metrics.
SameEntry(d) ==
  /\ Started(d)' <=> Started(d)
  /\ Counted(d)' <=> Counted(d)
  /\ Counted(d) => Outcome(d)' = Outcome(d)

SameSum(d)   == Summed(d)' <=> Summed(d)
SameCount(d) == Observed(d)' <=> Observed(d)
SameBuckets(d) == \A i \in 1 .. Les : Bucketed(d, i)' <=> Bucketed(d, i)

Same(d) == SameEntry(d) /\ SameSum(d) /\ SameCount(d) /\ SameBuckets(d)

\* A call that has left its marks in the histogram has been counted.
LEMMA CountedFirst ==
  ASSUME NEW c
  PROVE  /\ Summed(c) => Counted(c)
         /\ Observed(c) => Summed(c)
         /\ \A i : Bucketed(c, i) => Observed(c)
BY DEF Counted, Summed, Observed, Bucketed

\* The sets of Accounted follow the marks of the calls.
LEMMA SameSets ==
  ASSUME \A d \in Calls : SameEntry(d)
  PROVE  /\ \A k : Entered(k)' = Entered(k)
         /\ (\A d \in Calls : SameSum(d)) => \A k : Additions(k)' = Additions(k)
         /\ (\A d \in Calls : SameCount(d)) => \A k : Durations(k)' = Durations(k)
         /\ (\A d \in Calls : SameBuckets(d)) =>
              \A k : \A i \in 1 .. Les : Within(k, i)' = Within(k, i)
<1>1. \A k : Entered(k)' = Entered(k)
  BY DEF Entered, SameEntry
<1>2. (\A d \in Calls : SameSum(d)) => \A k : Additions(k)' = Additions(k)
  BY CountedFirst DEF Additions, SameEntry, SameSum
<1>3. (\A d \in Calls : SameCount(d)) => \A k : Durations(k)' = Durations(k)
  BY CountedFirst DEF Durations, SameEntry, SameCount
<1>4. (\A d \in Calls : SameBuckets(d)) =>
        \A k : \A i \in 1 .. Les : Within(k, i)' = Within(k, i)
  BY CountedFirst DEF Within, SameEntry, SameBuckets
<1>. QED
  BY <1>1, <1>2, <1>3, <1>4

\* A call that a step does not touch is where it was.
LEMMA Untouched ==
  ASSUME NEW d, pc'[d] = pc[d], at'[d] = at[d], le'[d] = le[d], status'[d] = status[d]
  PROVE  Same(d)
BY DEF Same, SameEntry, SameSum, SameCount, SameBuckets, Started, Counted, Summed, Observed,
       Bucketed, Outcome

\* A call changes only what is its own.
LEMMA OthersUntouched ==
  ASSUME Base, NEW c \in Calls, NEW d \in Calls, d # c,
         \/ Begin(c) \/ UpstreamFinished(c) \/ Observe(c) \/ Local(c)
         \/ Counts(c) /\ UNCHANGED calls
  PROVE  /\ pc'[d] = pc[d] /\ at'[d] = at[d] /\ le'[d] = le[d] /\ status'[d] = status[d]
         /\ code'[d] = code[d] /\ charged'[d] = charged[d]
<1>. USE DEF Base, MetricTypes, CallTypes
<1>1. CASE Begin(c) \/ UpstreamFinished(c) \/ Observe(c)
  BY <1>1 DEF Begin, UpstreamFinished, Observe, BeginAdd, BeginObserve
<1>2. CASE Local(c)
  <2>1. at' = at /\ le' = le
    BY <1>2, LocalAlone DEF telemetry, process
  <2>2. CASE Reject(c) \/ PostFails(c) \/ Cut(c) \/ WrapFails(c) \/ Wrap(c) \/ HttpError(c)
             \/ ReadGarbled(c) \/ ReadError(c) \/ NoAudio(c)
    <3>1. \E s, n : Finish(c, s, n)
      BY <2>2 DEF Reject, PostFails, Cut, WrapFails, Wrap, HttpError, ReadGarbled, ReadError,
                  NoAudio, Fail
    <3>. QED
      BY <2>1, <3>1 DEF Finish
  <2>3. CASE Rest(c) \/ Respond(c) \/ StreamEnds(c) \/ ReadAudio(c)
             \/ ReadSilent(c) \/ ReadBroken(c) \/ ReadFinal(c) \/ Drain(c)
    BY <2>1, <2>3 DEF Rest, Respond, StreamEnds, ReadAudio, ReadSilent, ReadBroken, ReadFinal, Drain
  <2>. QED
    BY <1>2, <2>2, <2>3 DEF Local, Serves
<1>3. CASE Counts(c) /\ UNCHANGED calls
  BY <1>3 DEF calls, Counts, Find, Lock, Create, Load, Swap, SwapFails, HFind, HLock, HCreate,
              HLoad, HSwap, HSwapFails, HCount, HBucket
<1>. QED
  BY <1>1, <1>2, <1>3

\* The steps of a call itself leave it where it is in its metrics, ...
LEMMA QuietCall ==
  ASSUME Base, NEW c \in Calls,
         Begin(c) \/ UpstreamFinished(c) \/ Observe(c) \/ Local(c)
  PROVE  Same(c)
<1>. DEFINE Over(p) == p \in {"post", "read", "drain", "wrap", "finish"}
<1>1. CASE Begin(c)
  <2>1. pc[c] = "idle" /\ pc'[c] = "post" /\ at[c] = "idle" /\ at'[c] = "find"
    BY <1>1 DEF Begin, BeginAdd, Base, MetricTypes, CallTypes
  <2>. QED
    BY <2>1 DEF Same, SameEntry, SameSum, SameCount, SameBuckets, Started, Counted, Summed,
                Observed, Bucketed
<1>2. CASE UpstreamFinished(c)
  <2>1. pc[c] = "finish" /\ pc'[c] = "observe" /\ at'[c] = "find"
    BY <1>2 DEF UpstreamFinished, BeginAdd, Base, MetricTypes, CallTypes
  <2>. QED
    BY <2>1 DEF Same, SameEntry, SameSum, SameCount, SameBuckets, Started, Counted, Summed,
                Observed, Bucketed
<1>3. CASE Observe(c)
  <2>1. /\ pc[c] = "observe" /\ pc'[c] = "rest" /\ at[c] = "idle" /\ at'[c] = "hfind"
        /\ status' = status
    BY <1>3 DEF Observe, BeginObserve, Base, MetricTypes, CallTypes
  <2>. QED
    BY <2>1 DEF Same, SameEntry, SameSum, SameCount, SameBuckets, Started, Counted, Summed,
                Observed, Bucketed, Outcome
<1>4. CASE Rest(c)
  <2>1. /\ pc[c] = "rest" /\ pc'[c] = "done" /\ at[c] = "idle" /\ at'[c] = "idle"
        /\ status' = status
    BY <1>4 DEF Rest, Base, MetricTypes, CallTypes, telemetry, process
  <2>. QED
    BY <2>1 DEF Same, SameEntry, SameSum, SameCount, SameBuckets, Started, Counted, Summed,
                Observed, Bucketed, Outcome
<1>5. CASE Local(c) /\ ~Rest(c)
  <2>1. at' = at
    BY <1>5, LocalAlone DEF telemetry, process
  <2>2. Over(pc[c]) /\ Over(pc'[c]) /\ at[c] = "idle"
    <3>1. CASE Reject(c) \/ PostFails(c) \/ Cut(c) \/ WrapFails(c) \/ Wrap(c) \/ HttpError(c)
               \/ ReadGarbled(c) \/ ReadError(c) \/ NoAudio(c)
      <4>1. \E s, n : Finish(c, s, n)
        BY <3>1 DEF Reject, PostFails, Cut, WrapFails, Wrap, HttpError, ReadGarbled, ReadError,
                    NoAudio, Fail
      <4>2. Over(pc[c])
        BY <3>1 DEF Reject, PostFails, Cut, WrapFails, Wrap, HttpError, ReadGarbled, ReadError,
                    NoAudio
      <4>3. pc'[c] = "finish" /\ at[c] = "idle"
        BY <4>1 DEF Finish, Base, CallTypes
      <4>. QED
        BY <4>2, <4>3
    <3>2. CASE Respond(c)
      BY <3>2 DEF Respond, Base, CallTypes
    <3>3. CASE StreamEnds(c) \/ ReadAudio(c) \/ ReadSilent(c) \/ ReadBroken(c)
             \/ ReadFinal(c) \/ Drain(c)
      <4>1. pc[c] \in {"read", "drain"} /\ Over(pc'[c])
        BY <3>3 DEF StreamEnds, ReadAudio, ReadSilent, ReadBroken, ReadFinal, Drain, Base, CallTypes
      <4>. QED
        BY <4>1, IdleOutside
    <3>. QED
      BY <1>5, <3>1, <3>2, <3>3 DEF Local, Serves
  <2>. QED
    BY <2>1, <2>2 DEF Same, SameEntry, SameSum, SameCount, SameBuckets, Started, Counted, Summed,
                      Observed, Bucketed
<1>. QED
  BY <1>1, <1>2, <1>3, <1>4, <1>5

\* ... and so do those inside its metrics that change no child.
LEMMA QuietCount ==
  ASSUME Base, NEW c \in Calls, UNCHANGED calls,
         \/ Find(c) \/ Lock(c) \/ Create(c) \/ Load(c) \/ SwapFails(c)
         \/ HFind(c) \/ HLock(c) \/ HCreate(c) \/ HLoad(c) \/ HSwapFails(c)
  PROVE  Same(c) /\ UNCHANGED <<value, sum, count, bucket>>
<1>1. UNCHANGED <<value, sum, count, bucket>>
  BY DEF Find, Lock, Create, Load, SwapFails, HFind, HLock, HCreate, HLoad, HSwapFails, counter,
         histogram
<1>2. CASE Find(c) \/ Lock(c) \/ Create(c) \/ Load(c) \/ SwapFails(c)
  <2>1. at[c] \in Adding /\ at'[c] \in Adding
    BY <1>2 DEF Find, Lock, Create, Load, SwapFails, Adding, Base, MetricTypes
  <2>2. pc[c] \in {"post", "observe"}
    BY <2>1 DEF Base, Places
  <2>3. Same(c)
    BY <2>1, <2>2 DEF Same, SameEntry, SameSum, SameCount, SameBuckets, Started, Counted, Summed,
                      Observed, Bucketed, calls, Adding, Outcome
  <2>. QED
    BY <1>1, <2>3
<1>3. CASE HFind(c) \/ HLock(c) \/ HCreate(c) \/ HLoad(c) \/ HSwapFails(c)
  <2>1. /\ at[c] \in {"hfind", "hlock", "hcreate", "hload", "hswap"}
        /\ at'[c] \in {"hlock", "hcreate", "hload", "hswap"}
    BY <1>3 DEF HFind, HLock, HCreate, HLoad, HSwapFails, Base, MetricTypes
  <2>2. pc[c] = "rest"
    BY <2>1 DEF Base, Places, Observing
  <2>3. Same(c)
    BY <2>1, <2>2 DEF Same, SameEntry, SameSum, SameCount, SameBuckets, Started, Counted, Summed,
                      Observed, Bucketed, calls, Outcome
  <2>. QED
    BY <1>1, <2>3
<1>. QED
  BY <1>2, <1>3

CounterRight == \A k \in Keys : value[k] = Cardinality(Entered(k))

HistogramRight ==
  /\ \A k \in Keys : sum[k] = Cardinality(Additions(k))
  /\ \A k \in Keys : count[k] = Cardinality(Durations(k))
  /\ \A k \in Keys : \A i \in 1 .. Les : bucket[k][i] = Cardinality(Within(k, i))

ErrorsRight == \A l \in Labels : errors[l] = Cardinality(Failures(l))

UsageRight == usage = {c \in Calls : status[c] = "ok" /\ charged[c]}

\* Accounted is the four of its parts.
LEMMA PartsOfAccounted == Accounted <=> CounterRight /\ HistogramRight /\ ErrorsRight /\ UsageRight
BY DEF Accounted, CounterRight, HistogramRight, ErrorsRight, UsageRight

\* The counter is right as long as no call is entered.
LEMMA CounterKept ==
  ASSUME CounterRight, value' = value, \A d \in Calls : SameEntry(d)
  PROVE  CounterRight'
<1>1. \A k : Entered(k)' = Entered(k)
  BY SameSets
<1>. QED
  BY <1>1 DEF CounterRight

\* The histogram is right as long as no call is observed.
LEMMA HistogramKept ==
  ASSUME HistogramRight, UNCHANGED <<sum, count, bucket>>, \A d \in Calls : Same(d)
  PROVE  HistogramRight'
<1>1. /\ \A k : Additions(k)' = Additions(k)
      /\ \A k : Durations(k)' = Durations(k)
      /\ \A k : \A i \in 1 .. Les : Within(k, i)' = Within(k, i)
  BY SameSets DEF Same
<1>. QED
  BY <1>1 DEF HistogramRight

\* The compare-and-swap enters the call that makes it.
LEMMA SwapKept ==
  ASSUME Base, CounterRight, HistogramRight, NEW c \in Calls, Swap(c), UNCHANGED calls
  PROVE  CounterRight' /\ HistogramRight'
<1>1. at[c] = "swap" /\ at'[c] = "idle" /\ pc'[c] = pc[c] /\ Outcome(c)' = Outcome(c)
  BY DEF Swap, calls, Base, MetricTypes, Outcome
<1>2. \/ pc[c] = "post" /\ on[c] = <<"started", UpstreamFormat[c]>>
      \/ pc[c] = "observe" /\ on[c] = Outcome(c)
  BY <1>1 DEF Base, Places, Adding
<1>3. \A d \in Calls \ {c} : Same(d)
  BY Untouched, OthersUntouched DEF Counts
<1>4. c \notin Entered(on[c])
  <2>1. status[c] # "started"
    BY StatusNames DEF Base, CallTypes
  <2>. QED
    BY <1>1, <1>2, <2>1 DEF Entered, Started, Counted, Outcome
<1>5. \A k \in Keys : k = on[c] => Entered(k)' = Entered(k) \cup {c}
  <2>. SUFFICES ASSUME NEW k \in Keys, k = on[c] PROVE Entered(k)' = Entered(k) \cup {c}
    OBVIOUS
  <2>1. c \in Entered(k)'
    BY <1>1, <1>2 DEF Entered, Started, Counted
  <2>2. \A d \in Calls \ {c} : d \in Entered(k)' <=> d \in Entered(k)
    BY <1>3 DEF Entered, Same, SameEntry
  <2>3. Entered(k)' \subseteq Calls /\ Entered(k) \subseteq Calls
    BY DEF Entered
  <2>. QED
    BY <2>1, <2>2, <2>3
<1>6. \A k \in Keys \ {on[c]} : Entered(k)' = Entered(k)
  <2>. SUFFICES ASSUME NEW k \in Keys, k # on[c] PROVE Entered(k)' = Entered(k)
    OBVIOUS
  <2>1. c \in Entered(k)' <=> c \in Entered(k)
    BY <1>1, <1>2 DEF Entered, Started, Counted
  <2>2. \A d \in Calls \ {c} : d \in Entered(k)' <=> d \in Entered(k)
    BY <1>3 DEF Entered, Same, SameEntry
  <2>3. Entered(k)' \subseteq Calls /\ Entered(k) \subseteq Calls
    BY DEF Entered
  <2>. QED
    BY <2>1, <2>2, <2>3
<1>7. on[c] \in Keys /\ value \in [Keys -> Nat] /\ value' = [value EXCEPT ![on[c]] = value[on[c]] + 1]
  BY DEF Swap, Base, MetricTypes
<1>8. CounterRight'
  <2>. SUFFICES ASSUME NEW k \in Keys PROVE value'[k] = Cardinality(Entered(k)')
    BY DEF CounterRight
  <2>1. CASE k = on[c]
    <3>1. Cardinality(Entered(k) \cup {c}) = Cardinality(Entered(k)) + 1
      BY <1>4, <2>1, OneCallMore DEF Entered
    <3>. QED
      BY <3>1, <2>1, <1>5, <1>7 DEF CounterRight
  <2>2. CASE k # on[c]
    BY <2>2, <1>6, <1>7 DEF CounterRight
  <2>. QED
    BY <2>1, <2>2
<1>9. HistogramRight'
  <2>1. ~Summed(c) /\ ~Summed(c)'
    BY <1>1, <1>2 DEF Summed
  <2>2. \A d \in Calls : Summed(d)' <=> Summed(d)
    BY <2>1, <1>3 DEF Same, SameSum
  <2>3. \A d \in Calls : Summed(d) => Outcome(d)' = Outcome(d)
    BY <2>1, <1>3, CountedFirst DEF Same, SameEntry
  <2>4. \A d \in Calls : Observed(d)' <=> Observed(d)
    BY <2>1, <1>3, CountedFirst DEF Same, SameCount, Observed, Summed
  <2>5. \A d \in Calls : \A i \in 1 .. Les : Bucketed(d, i)' <=> Bucketed(d, i)
    BY <2>1, <1>3 DEF Same, SameBuckets, Bucketed, Observed, Summed
  <2>6. \A k : Additions(k)' = Additions(k)
    BY <2>2, <2>3 DEF Additions
  <2>7. \A k : Durations(k)' = Durations(k)
    BY <2>4, <2>3, CountedFirst DEF Durations
  <2>8. \A k : \A i \in 1 .. Les : Within(k, i)' = Within(k, i)
    BY <2>5, <2>3, CountedFirst DEF Within
  <2>9. UNCHANGED <<sum, count, bucket>>
    BY DEF Swap, histogram
  <2>. QED
    BY <2>6, <2>7, <2>8, <2>9 DEF HistogramRight
<1>. QED
  BY <1>8, <1>9

\* The sum, the count and the buckets take in the call that observes.
LEMMA ObserveKept ==
  ASSUME Base, CounterRight, HistogramRight, NEW c \in Calls, UNCHANGED calls,
         HSwap(c) \/ HCount(c) \/ HBucket(c)
  PROVE  CounterRight' /\ HistogramRight'
<1>. DEFINE k == on[c]
<1>1. /\ at[c] \in {"hswap", "hcount", "hbucket"} /\ pc[c] = "rest" /\ pc' = pc
      /\ k = Outcome(c) /\ k \in Keys /\ Outcome(c)' = Outcome(c)
  <2>1. at[c] \in {"hswap", "hcount", "hbucket"}
    BY DEF HSwap, HCount, HBucket
  <2>. QED
    BY <2>1 DEF Base, Places, Observing, MetricTypes, calls, Outcome
<1>2. \A d \in Calls \ {c} : Same(d)
  BY Untouched, OthersUntouched DEF Counts
<1>3. SameEntry(c)
  BY <1>1 DEF SameEntry, Started, Counted
<1>4. \A d \in Calls : SameEntry(d)
  BY <1>2, <1>3 DEF Same
<1>5. CounterRight'
  BY <1>4, CounterKept DEF HSwap, HCount, HBucket, counter
<1>6. CASE HSwap(c)
  <2>1. at[c] = "hswap" /\ at'[c] = "hcount"
    BY <1>6 DEF HSwap, Base, MetricTypes
  <2>2. Summed(c)' /\ ~Summed(c) /\ ~Observed(c) /\ ~Observed(c)'
    BY <2>1, <1>1 DEF Summed, Observed
  <2>3. SameCount(c) /\ SameBuckets(c)
    BY <2>2 DEF SameCount, SameBuckets, Bucketed
  <2>4. /\ \A j : Durations(j)' = Durations(j)
        /\ \A j : \A i \in 1 .. Les : Within(j, i)' = Within(j, i)
    BY <1>2, <1>4, <2>3, SameSets DEF Same
  <2>5. UNCHANGED <<count, bucket>> /\ sum' = [sum EXCEPT ![k] = sum[k] + 1]
    BY <1>6 DEF HSwap
  <2>6. \A j \in Keys : j = k => c \notin Additions(j) /\ Additions(j)' = Additions(j) \cup {c}
    <3>. SUFFICES ASSUME NEW j \in Keys, j = k
                  PROVE  c \notin Additions(j) /\ Additions(j)' = Additions(j) \cup {c}
      OBVIOUS
    <3>1. c \in Additions(j)'
      BY <2>2, <1>1 DEF Additions
    <3>2. \A d \in Calls \ {c} : d \in Additions(j)' <=> d \in Additions(j)
      BY <1>2, CountedFirst DEF Additions, Same, SameSum, SameEntry
    <3>3. c \notin Additions(j) /\ Additions(j)' \subseteq Calls /\ Additions(j) \subseteq Calls
      BY <2>2 DEF Additions
    <3>. QED
      BY <3>1, <3>2, <3>3
  <2>7. \A j \in Keys \ {k} : Additions(j)' = Additions(j)
    <3>. SUFFICES ASSUME NEW j \in Keys, j # k PROVE Additions(j)' = Additions(j)
      OBVIOUS
    <3>1. c \notin Additions(j)' /\ c \notin Additions(j)
      BY <1>1 DEF Additions
    <3>2. \A d \in Calls \ {c} : d \in Additions(j)' <=> d \in Additions(j)
      BY <1>2, CountedFirst DEF Additions, Same, SameSum, SameEntry
    <3>. QED
      BY <3>1, <3>2 DEF Additions
  <2>8. \A j \in Keys : sum'[j] = Cardinality(Additions(j)')
    <3>. SUFFICES ASSUME NEW j \in Keys PROVE sum'[j] = Cardinality(Additions(j)')
      OBVIOUS
    <3>1. CASE j = k
      <4>1. Cardinality(Additions(j) \cup {c}) = Cardinality(Additions(j)) + 1
        BY <3>1, <2>6, OneCallMore DEF Additions
      <4>2. sum'[j] = sum[j] + 1
        BY <3>1, <2>5 DEF Base, MetricTypes
      <4>. QED
        BY <3>1, <4>1, <4>2, <2>6 DEF HistogramRight
    <3>2. CASE j # k
      BY <3>2, <2>5, <2>7 DEF HistogramRight, Base, MetricTypes
    <3>. QED
      BY <3>1, <3>2
  <2>. QED
    BY <1>5, <2>4, <2>5, <2>8 DEF HistogramRight
<1>7. CASE HCount(c)
  <2>1. at[c] = "hcount" /\ at'[c] = "hbucket" /\ le'[c] = 1
    BY <1>7, Constants DEF HCount, Base, MetricTypes
  <2>2. Observed(c)' /\ ~Observed(c) /\ Summed(c) /\ Summed(c)'
    BY <2>1, <1>1 DEF Summed, Observed
  <2>3. SameSum(c)
    BY <2>2 DEF SameSum
  <2>4. SameBuckets(c)
    <3>1. \A i \in 1 .. Les : ~Bucketed(c, i)'
      BY <2>1 DEF Bucketed
    <3>. QED
      BY <3>1, <2>2 DEF SameBuckets, Bucketed
  <2>5. /\ \A j : Additions(j)' = Additions(j)
        /\ \A j : \A i \in 1 .. Les : Within(j, i)' = Within(j, i)
    BY <1>2, <1>4, <2>3, <2>4, SameSets DEF Same
  <2>6. UNCHANGED <<sum, bucket>> /\ count' = [count EXCEPT ![k] = count[k] + 1]
    BY <1>7 DEF HCount
  <2>7. \A j \in Keys : j = k => c \notin Durations(j) /\ Durations(j)' = Durations(j) \cup {c}
    <3>. SUFFICES ASSUME NEW j \in Keys, j = k
                  PROVE  c \notin Durations(j) /\ Durations(j)' = Durations(j) \cup {c}
      OBVIOUS
    <3>1. c \in Durations(j)'
      BY <2>2, <1>1 DEF Durations
    <3>2. \A d \in Calls \ {c} : d \in Durations(j)' <=> d \in Durations(j)
      BY <1>2, CountedFirst DEF Durations, Same, SameCount, SameEntry
    <3>3. c \notin Durations(j) /\ Durations(j)' \subseteq Calls /\ Durations(j) \subseteq Calls
      BY <2>2 DEF Durations
    <3>. QED
      BY <3>1, <3>2, <3>3
  <2>8. \A j \in Keys \ {k} : Durations(j)' = Durations(j)
    <3>. SUFFICES ASSUME NEW j \in Keys, j # k PROVE Durations(j)' = Durations(j)
      OBVIOUS
    <3>1. c \notin Durations(j)' /\ c \notin Durations(j)
      BY <1>1 DEF Durations
    <3>2. \A d \in Calls \ {c} : d \in Durations(j)' <=> d \in Durations(j)
      BY <1>2, CountedFirst DEF Durations, Same, SameCount, SameEntry
    <3>. QED
      BY <3>1, <3>2 DEF Durations
  <2>9. \A j \in Keys : count'[j] = Cardinality(Durations(j)')
    <3>. SUFFICES ASSUME NEW j \in Keys PROVE count'[j] = Cardinality(Durations(j)')
      OBVIOUS
    <3>1. CASE j = k
      <4>1. Cardinality(Durations(j) \cup {c}) = Cardinality(Durations(j)) + 1
        BY <3>1, <2>7, OneCallMore DEF Durations
      <4>2. count'[j] = count[j] + 1
        BY <3>1, <2>6 DEF Base, MetricTypes
      <4>. QED
        BY <3>1, <4>1, <4>2, <2>7 DEF HistogramRight
    <3>2. CASE j # k
      BY <3>2, <2>6, <2>8 DEF HistogramRight, Base, MetricTypes
    <3>. QED
      BY <3>1, <3>2
  <2>. QED
    BY <1>5, <2>5, <2>6, <2>9 DEF HistogramRight
<1>8. CASE HBucket(c)
  <2>. DEFINE l == le[c]
  <2>0. l \in 1 .. Les /\ Les \in Nat /\ Latency[c] \in Nat
    BY <1>1, <1>8, Constants DEF HBucket, Base, Places
  <2>1. /\ at[c] = "hbucket"
        /\ l < Les => at'[c] = "hbucket" /\ le'[c] = l + 1
        /\ ~(l < Les) => at'[c] = "idle"
    BY <1>8 DEF HBucket, Base, MetricTypes
  <2>2. Observed(c)' /\ Observed(c) /\ Summed(c) /\ Summed(c)'
    BY <2>1, <1>1 DEF Summed, Observed
  <2>3. SameSum(c) /\ SameCount(c)
    BY <2>2 DEF SameSum, SameCount
  <2>4. /\ \A j : Additions(j)' = Additions(j)
        /\ \A j : Durations(j)' = Durations(j)
    BY <1>2, <1>4, <2>3, SameSets DEF Same
  <2>5. UNCHANGED <<sum, count>>
    BY <1>8 DEF HBucket
  <2>6. \A i \in 1 .. Les : /\ Bucketed(c, i) <=> Latency[c] <= i /\ i < l
                            /\ Bucketed(c, i)' <=> Latency[c] <= i /\ (i < l \/ i = l)
    <3>1. \A i \in 1 .. Les : Bucketed(c, i) <=> Latency[c] <= i /\ i < l
      BY <2>1, <2>2 DEF Bucketed
    <3>2. CASE l < Les
      <4>1. \A i \in 1 .. Les : Bucketed(c, i)' <=> Latency[c] <= i /\ i < l + 1
        BY <3>2, <2>1, <2>2 DEF Bucketed
      <4>. QED
        BY <3>1, <4>1, <2>0
    <3>3. CASE ~(l < Les)
      <4>1. \A i \in 1 .. Les : Bucketed(c, i)' <=> Latency[c] <= i
        BY <3>3, <2>1, <2>2 DEF Bucketed
      <4>. QED
        BY <3>1, <3>3, <4>1, <2>0
    <3>. QED
      BY <3>2, <3>3
  <2>7. \A j \in Keys : \A i \in 1 .. Les :
          Within(j, i)' = IF j = k /\ i = l /\ Latency[c] <= l
                          THEN Within(j, i) \cup {c} ELSE Within(j, i)
    <3>. SUFFICES ASSUME NEW j \in Keys, NEW i \in 1 .. Les
                  PROVE  Within(j, i)' = IF j = k /\ i = l /\ Latency[c] <= l
                                         THEN Within(j, i) \cup {c} ELSE Within(j, i)
      OBVIOUS
    <3>1. \A d \in Calls \ {c} : d \in Within(j, i)' <=> d \in Within(j, i)
      BY <1>2, CountedFirst DEF Within, Same, SameBuckets, SameEntry
    <3>2. /\ c \in Within(j, i) <=> j = k /\ Bucketed(c, i)
          /\ c \in Within(j, i)' <=> j = k /\ Bucketed(c, i)'
      BY <1>1 DEF Within
    <3>3. Within(j, i)' \subseteq Calls /\ Within(j, i) \subseteq Calls
      BY DEF Within
    <3>4. CASE j = k /\ i = l /\ Latency[c] <= l
      <4>1. c \in Within(j, i)'
        BY <3>2, <3>4, <2>6
      <4>. QED
        BY <3>1, <3>3, <3>4, <4>1
    <3>5. CASE ~(j = k /\ i = l /\ Latency[c] <= l)
      <4>1. c \in Within(j, i)' <=> c \in Within(j, i)
        BY <3>2, <3>5, <2>6
      <4>. QED
        BY <3>1, <3>3, <3>5, <4>1
    <3>. QED
      BY <3>4, <3>5
  <2>8. c \notin Within(k, l)
    BY <2>0, <2>6 DEF Within
  <2>9. \A j \in Keys : \A i \in 1 .. Les : bucket'[j][i] = Cardinality(Within(j, i)')
    <3>. SUFFICES ASSUME NEW j \in Keys, NEW i \in 1 .. Les
                  PROVE  bucket'[j][i] = Cardinality(Within(j, i)')
      OBVIOUS
    <3>1. CASE j = k /\ i = l /\ Latency[c] <= l
      <4>1. bucket'[j][i] = bucket[j][i] + 1
        BY <3>1, <1>8, <1>1, <2>0 DEF HBucket, Base, MetricTypes
      <4>2. Cardinality(Within(j, i) \cup {c}) = Cardinality(Within(j, i)) + 1
        BY <3>1, <2>8, OneCallMore DEF Within
      <4>. QED
        BY <3>1, <4>1, <4>2, <2>7 DEF HistogramRight
    <3>2. CASE ~(j = k /\ i = l /\ Latency[c] <= l)
      <4>1. bucket'[j][i] = bucket[j][i]
        BY <3>2, <1>8, <1>1, <2>0 DEF HBucket, Base, MetricTypes
      <4>. QED
        BY <3>2, <4>1, <2>7 DEF HistogramRight
    <3>. QED
      BY <3>1, <3>2
  <2>. QED
    BY <1>5, <2>4, <2>5, <2>9 DEF HistogramRight
<1>. QED
  BY <1>6, <1>7, <1>8

\* The errors are right as long as no call returns, ...
LEMMA ErrorsKept ==
  ASSUME ErrorsRight, errors' = errors,
         \A d \in Calls : /\ pc'[d] = "done" <=> pc[d] = "done"
                          /\ pc[d] = "done" => status'[d] = status[d] /\ code'[d] = code[d]
  PROVE  ErrorsRight'
<1>1. \A l : Failures(l)' = Failures(l)
  BY DEF Failures, CodeLabel
<1>. QED
  BY <1>1 DEF ErrorsRight

\* ... and take in the one that does.
LEMMA RestErrors ==
  ASSUME Base, ErrorsRight, NEW c \in Calls, Rest(c)
  PROVE  ErrorsRight'
<1>. DEFINE m == CodeLabel(code[c])
<1>1. /\ pc[c] = "rest" /\ pc' = [pc EXCEPT ![c] = "done"] /\ status' = status /\ code' = code
      /\ pc'[c] = "done" /\ \A d \in Calls \ {c} : pc'[d] = pc[d]
  BY DEF Rest, Base, CallTypes
<1>2. \A l \in Labels : Failures(l)' = IF l = m /\ status[c] # "ok"
                                       THEN Failures(l) \cup {c} ELSE Failures(l)
  BY <1>1 DEF Failures
<1>3. \A l \in Labels : c \notin Failures(l)
  BY <1>1 DEF Failures
<1>4. m \in Labels
  BY CodeLabelType
<1>5. errors' = IF status[c] # "ok" THEN [errors EXCEPT ![m] = errors[m] + 1] ELSE errors
  BY DEF Rest
<1>. HIDE DEF m
<1>. SUFFICES ASSUME NEW l \in Labels PROVE errors'[l] = Cardinality(Failures(l)')
  BY DEF ErrorsRight
<1>6. CASE l = m /\ status[c] # "ok"
  <2>1. Cardinality(Failures(l) \cup {c}) = Cardinality(Failures(l)) + 1
    BY <1>3, OneCallMore DEF Failures
  <2>2. errors'[l] = errors[l] + 1
    BY <1>6, <1>4, <1>5 DEF Base, CallTypes
  <2>. QED
    BY <1>6, <2>1, <2>2, <1>2 DEF ErrorsRight
<1>7. CASE ~(l = m /\ status[c] # "ok")
  <2>1. errors'[l] = errors[l]
    BY <1>7, <1>4, <1>5 DEF Base, CallTypes
  <2>. QED
    BY <1>7, <2>1, <1>2 DEF ErrorsRight
<1>. QED
  BY <1>6, <1>7

\* No call but the one that succeeds is charged for, ...
LEMMA UsageKept ==
  ASSUME UsageRight, usage' = usage,
         \A d \in Calls : status'[d] = "ok" /\ charged'[d] <=> status[d] = "ok" /\ charged[d]
  PROVE  UsageRight'
BY DEF UsageRight

\* ... and the steps of a call with its own variables keep both.
LEMMA LocalAccounted ==
  ASSUME Base, ErrorsRight, UsageRight, NEW c \in Calls, Local(c)
  PROVE  ErrorsRight' /\ UsageRight'
<1>1. \A d \in Calls \ {c} : /\ pc'[d] = pc[d] /\ status'[d] = status[d]
                             /\ code'[d] = code[d] /\ charged'[d] = charged[d]
  BY OthersUntouched
<1>2. CASE Reject(c) \/ PostFails(c) \/ Cut(c) \/ WrapFails(c) \/ HttpError(c)
           \/ ReadGarbled(c) \/ ReadError(c) \/ NoAudio(c)
  <2>1. PICK s \in Outcomes \ {"ok"} : \E n : Fail(c, s, n)
    BY <1>2, StatusNames
       DEF Reject, PostFails, Cut, WrapFails, HttpError, ReadGarbled, ReadError, NoAudio, Errors
  <2>2. /\ errors' = errors /\ usage' = usage /\ charged' = charged
        /\ pc'[c] = "finish" /\ status'[c] = s
    BY <2>1 DEF Fail, Finish, Base, CallTypes
  <2>3. pc[c] \in {"post", "read", "drain", "wrap"}
    BY <1>2 DEF Reject, PostFails, Cut, WrapFails, HttpError, ReadGarbled, ReadError, NoAudio
  <2>4. status[c] = "none"
    BY <2>3 DEF Base, Places
  <2>5. ErrorsRight'
    <3>1. \A d \in Calls : /\ pc'[d] = "done" <=> pc[d] = "done"
                           /\ pc[d] = "done" => status'[d] = status[d] /\ code'[d] = code[d]
      BY <1>1, <2>2, <2>3
    <3>. QED
      BY <3>1, <2>2, ErrorsKept
  <2>6. UsageRight'
    <3>1. \A d \in Calls : status'[d] = "ok" /\ charged'[d] <=> status[d] = "ok" /\ charged[d]
      BY <1>1, <2>2, <2>4
    <3>. QED
      BY <3>1, <2>2, UsageKept
  <2>. QED
    BY <2>5, <2>6
<1>3. CASE Wrap(c)
  <2>1. /\ errors' = errors /\ charged' = charged
        /\ usage' = IF charged[c] THEN usage \cup {c} ELSE usage
        /\ pc[c] = "wrap" /\ pc'[c] = "finish" /\ status'[c] = "ok"
    BY <1>3 DEF Wrap, Finish, Base, CallTypes
  <2>2. status[c] = "none"
    BY <2>1 DEF Base, Places
  <2>3. ErrorsRight'
    <3>1. \A d \in Calls : /\ pc'[d] = "done" <=> pc[d] = "done"
                           /\ pc[d] = "done" => status'[d] = status[d] /\ code'[d] = code[d]
      BY <1>1, <2>1
    <3>. QED
      BY <3>1, <2>1, ErrorsKept
  <2>4. UsageRight'
    BY <1>1, <2>1, <2>2 DEF UsageRight
  <2>. QED
    BY <2>3, <2>4
<1>4. CASE Rest(c)
  <2>1. usage' = usage /\ status' = status /\ charged' = charged
    BY <1>4 DEF Rest
  <2>. QED
    BY <2>1, <1>4, RestErrors, UsageKept
<1>5. CASE Respond(c) \/ StreamEnds(c) \/ ReadAudio(c) \/ ReadSilent(c) \/ ReadBroken(c)
             \/ ReadFinal(c) \/ Drain(c)
  <2>1. errors' = errors /\ usage' = usage /\ status' = status /\ code' = code
    BY <1>5 DEF Respond, StreamEnds, ReadAudio, ReadSilent, ReadBroken, ReadFinal, Drain
  <2>2. /\ pc[c] \in {"post", "read", "drain"} /\ pc'[c] # "done"
    BY <1>5 DEF Respond, StreamEnds, ReadAudio, ReadSilent, ReadBroken, ReadFinal, Drain, Base,
                CallTypes
  <2>3. status[c] = "none"
    BY <2>2 DEF Base, Places
  <2>4. ErrorsRight'
    <3>1. \A d \in Calls : /\ pc'[d] = "done" <=> pc[d] = "done"
                           /\ pc[d] = "done" => status'[d] = status[d] /\ code'[d] = code[d]
      BY <1>1, <2>1, <2>2
    <3>. QED
      BY <3>1, <2>1, ErrorsKept
  <2>5. UsageRight'
    <3>1. \A d \in Calls : status'[d] = "ok" /\ charged'[d] <=> status[d] = "ok" /\ charged[d]
      BY <1>1, <2>1, <2>3
    <3>. QED
      BY <3>1, <2>1, UsageKept
  <2>. QED
    BY <2>4, <2>5
<1>. QED
  BY <1>2, <1>3, <1>4, <1>5 DEF Local, Serves

\* The metrics are right when the program starts.
LEMMA AccountedInit == Init => Accounted
<1>. SUFFICES ASSUME Init PROVE Accounted
  OBVIOUS
<1>1. \A c \in Calls : ~Started(c) /\ ~Counted(c) /\ pc[c] = "idle" /\ status[c] = "none"
  BY DEF Init, Started, Counted
<1>2. \A c \in Calls : ~Summed(c) /\ ~Observed(c) /\ \A i : ~Bucketed(c, i)
  BY <1>1, CountedFirst
<1>3. /\ \A k : Entered(k) = {} /\ Additions(k) = {} /\ Durations(k) = {}
      /\ \A k, i : Within(k, i) = {}
      /\ \A l : Failures(l) = {}
  BY <1>1, <1>2 DEF Entered, Additions, Durations, Within, Failures
<1>4. Cardinality({}) = 0
  BY FS_EmptySet
<1>5. CounterRight
  BY <1>3, <1>4 DEF CounterRight, Init, TelemetryInit
<1>6. HistogramRight
  BY <1>3, <1>4 DEF HistogramRight, Init, TelemetryInit
<1>7. ErrorsRight
  BY <1>3, <1>4 DEF ErrorsRight, Init
<1>8. UsageRight
  BY <1>1 DEF UsageRight, Init
<1>. QED
  BY <1>5, <1>6, <1>7, <1>8, PartsOfAccounted

\* Every step keeps them so.
LEMMA AccountedStep == Base /\ Accounted /\ [Next]_vars => Accounted'
<1>. SUFFICES ASSUME Base, CounterRight, HistogramRight, ErrorsRight, UsageRight, [Next]_vars
              PROVE  CounterRight' /\ HistogramRight' /\ ErrorsRight' /\ UsageRight'
  <2>1. Accounted' <=> CounterRight' /\ HistogramRight' /\ ErrorsRight' /\ UsageRight'
    BY DEF Accounted, CounterRight, HistogramRight, ErrorsRight, UsageRight
  <2>. QED
    BY <2>1, PartsOfAccounted
<1>0. ASSUME UNCHANGED <<pc, status, code, charged, errors, usage>>
      PROVE  ErrorsRight' /\ UsageRight'
  BY <1>0, ErrorsKept, UsageKept
<1>1. CASE \E c \in Calls : Begin(c) \/ UpstreamFinished(c) \/ Observe(c)
  <2>. PICK c \in Calls : Begin(c) \/ UpstreamFinished(c) \/ Observe(c)
    BY <1>1
  <2>1. \A d \in Calls : Same(d)
    BY QuietCall, OthersUntouched, Untouched
  <2>2. UNCHANGED <<counter, histogram, status, code, charged, errors, usage>>
    BY DEF Begin, UpstreamFinished, Observe
  <2>3. CounterRight' /\ HistogramRight'
    BY <2>1, <2>2, CounterKept, HistogramKept DEF Same, counter, histogram
  <2>4. \A d \in Calls : pc'[d] = "done" <=> pc[d] = "done"
    <3>1. pc[c] # "done" /\ pc'[c] # "done"
      BY DEF Begin, UpstreamFinished, Observe, Base, CallTypes
    <3>. QED
      BY <3>1, OthersUntouched
  <2>5. ErrorsRight' /\ UsageRight'
    BY <2>2, <2>4, ErrorsKept, UsageKept
  <2>. QED
    BY <2>3, <2>5
<1>2. CASE \E c \in Calls : Local(c)
  <2>. PICK c \in Calls : Local(c)
    BY <1>2
  <2>1. \A d \in Calls : Same(d)
    BY QuietCall, OthersUntouched, Untouched
  <2>2. UNCHANGED <<value, sum, count, bucket>>
    BY LocalAlone DEF telemetry, counter, histogram
  <2>3. CounterRight' /\ HistogramRight'
    BY <2>1, <2>2, CounterKept, HistogramKept DEF Same
  <2>. QED
    BY <2>3, LocalAccounted
<1>3. CASE \E c \in Calls : Counts(c) /\ UNCHANGED calls
  <2>. PICK c \in Calls : Counts(c) /\ UNCHANGED calls
    BY <1>3
  <2>1. ErrorsRight' /\ UsageRight'
    BY <1>0 DEF calls
  <2>2. CASE Swap(c)
    BY <2>1, <2>2, SwapKept
  <2>3. CASE HSwap(c) \/ HCount(c) \/ HBucket(c)
    BY <2>1, <2>3, ObserveKept
  <2>4. CASE Find(c) \/ Lock(c) \/ Create(c) \/ Load(c) \/ SwapFails(c)
             \/ HFind(c) \/ HLock(c) \/ HCreate(c) \/ HLoad(c) \/ HSwapFails(c)
    <3>1. \A d \in Calls : Same(d)
      BY <2>4, QuietCount, OthersUntouched, Untouched
    <3>2. UNCHANGED <<value, sum, count, bucket>>
      BY <2>4, QuietCount
    <3>. QED
      BY <2>1, <3>1, <3>2, CounterKept, HistogramKept DEF Same
  <2>. QED
    BY <2>2, <2>3, <2>4 DEF Counts
<1>4. CASE UNCHANGED <<process, counter, histogram, calls>>
  <2>1. UNCHANGED <<pc, status, code, charged, errors, usage, at, le, value, sum, count, bucket>>
    BY <1>4 DEF process, counter, histogram, calls
  <2>2. \A d \in Calls : Same(d)
    BY <2>1, Untouched
  <2>. QED
    BY <1>0, <2>1, <2>2, CounterKept, HistogramKept DEF Same
<1>5. CASE (ScrapeCounter \/ Prints) /\ UNCHANGED calls
  BY <1>4, <1>5, ScraperAlone
<1>6. CASE UNCHANGED vars
  BY <1>4, <1>6 DEF vars, telemetry
<1>. QED
  BY <1>1, <1>2, <1>3, <1>5, <1>6, StepsOfSystem

\* No update of a metric is lost or made twice, for any number of calls and
\* of buckets (telemetry/counter.go, histogram.go; metrics/metrics.go).
THEOREM NothingLost == Spec => []Accounted
BY AccountedInit, AccountedStep, BaseHolds, PTL DEF Spec

-----------------------------------------------------------------------------
(* The counter implements the ledger.                                      *)

\* The stage of each call, as CountsCalls computes it.
StageOf(c) == IF Counted(c) THEN "finished" ELSE IF Started(c) THEN "started" ELSE "not started"
Stage      == [c \in Calls |-> StageOf(c)]

\* The first state is the first of the ledger.
LEMMA LedgerInit == Init => Book!LInit
<1>. SUFFICES ASSUME Init PROVE Book!LInit
  OBVIOUS
<1>1. Keys = ({"started"} \cup Outcomes) \X Asked
  BY SynthesisAssumption DEF SynthesisAssumption
<1>2. value = [k \in ({"started"} \cup Outcomes) \X Asked |-> 0]
  BY <1>1 DEF Init, TelemetryInit
<1>3. \A c \in Calls : ~Counted(c) /\ ~Started(c)
  BY DEF Init, Counted, Started
<1>. QED
  BY <1>2, <1>3 DEF Book!LInit

\* A step that enters no call is none of the ledger.
LEMMA LedgerStutters ==
  ASSUME value' = value, \A d \in Calls : SameEntry(d)
  PROVE  value' = value /\ Stage' = Stage
BY DEF Stage, StageOf, SameEntry

\* The compare-and-swap is the step of the ledger.
LEMMA SwapIsEntry ==
  ASSUME Base, NEW c \in Calls, Swap(c), UNCHANGED calls
  PROVE  \/ /\ Stage[c] = "not started"
            /\ Stage' = [Stage EXCEPT ![c] = "started"]
            /\ value' = [value EXCEPT ![<<"started", UpstreamFormat[c]>>] = @ + 1]
         \/ /\ Stage[c] = "started"
            /\ Stage' = [Stage EXCEPT ![c] = "finished"]
            /\ \E o \in Outcomes : value' = [value EXCEPT ![<<o, UpstreamFormat[c]>>] = @ + 1]
<1>1. at[c] = "swap" /\ at'[c] = "idle" /\ pc'[c] = pc[c]
  BY DEF Swap, calls, Base, MetricTypes
<1>2. value' = [value EXCEPT ![on[c]] = @ + 1]
  BY DEF Swap
<1>3. \A d \in Calls \ {c} : StageOf(d)' = StageOf(d)
  <2>1. \A d \in Calls \ {c} : Same(d)
    BY Untouched, OthersUntouched DEF Counts
  <2>. QED
    BY <2>1 DEF StageOf, Same, SameEntry
<1>4. CASE pc[c] = "post" /\ on[c] = <<"started", UpstreamFormat[c]>>
  <2>1. StageOf(c) = "not started" /\ StageOf(c)' = "started"
    BY <1>1, <1>4 DEF StageOf, Counted, Started
  <2>. QED
    BY <1>2, <1>3, <1>4, <2>1 DEF Stage
<1>5. CASE pc[c] = "observe" /\ on[c] = Outcome(c)
  <2>1. StageOf(c) = "started" /\ StageOf(c)' = "finished"
    BY <1>1, <1>5 DEF StageOf, Counted, Started
  <2>2. status[c] \in Outcomes
    BY <1>5 DEF Base, Places, CallTypes
  <2>3. Stage[c] = "started" /\ Stage' = [Stage EXCEPT ![c] = "finished"]
    BY <1>3, <2>1 DEF Stage
  <2>. QED
    BY <1>2, <1>5, <2>2, <2>3 DEF Outcome
<1>. QED
  BY <1>1, <1>4, <1>5 DEF Base, Places, Adding

\* Every step is one of the ledger or none.
LEMMA LedgerStep ==
  ASSUME Base, [Next]_vars
  PROVE  [Book!LNext]_<<value, Stage>>
<1>1. CASE \E c \in Calls : Swap(c) /\ UNCHANGED calls
  <2>. PICK c \in Calls : Swap(c) /\ UNCHANGED calls
    BY <1>1
  <2>1. CASE /\ Stage[c] = "not started"
             /\ Stage' = [Stage EXCEPT ![c] = "started"]
             /\ value' = [value EXCEPT ![<<"started", UpstreamFormat[c]>>] = @ + 1]
    <3>1. Book!Start(c)
      BY <2>1 DEF Book!Start, Stage, StageOf
    <3>. QED
      BY <3>1 DEF Book!LNext
  <2>2. CASE /\ Stage[c] = "started"
             /\ Stage' = [Stage EXCEPT ![c] = "finished"]
             /\ \E o \in Outcomes : value' = [value EXCEPT ![<<o, UpstreamFormat[c]>>] = @ + 1]
    <3>1. \E o \in Outcomes : Book!Finish(c, o)
      BY <2>2 DEF Book!Finish, Stage, StageOf
    <3>. QED
      BY <3>1 DEF Book!LNext
  <2>. QED
    BY <2>1, <2>2, SwapIsEntry
<1>2. CASE \E c \in Calls : Begin(c) \/ UpstreamFinished(c) \/ Observe(c) \/ Local(c)
  <2>. PICK c \in Calls : Begin(c) \/ UpstreamFinished(c) \/ Observe(c) \/ Local(c)
    BY <1>2
  <2>1. \A d \in Calls : Same(d)
    BY QuietCall, OthersUntouched, Untouched
  <2>2. value' = value
    BY LocalAlone DEF Begin, UpstreamFinished, Observe, telemetry, counter
  <2>. QED
    BY <2>1, <2>2, LedgerStutters DEF Same
<1>3. CASE \E c \in Calls : Counts(c) /\ ~Swap(c) /\ UNCHANGED calls
  <2>. PICK c \in Calls : Counts(c) /\ ~Swap(c) /\ UNCHANGED calls
    BY <1>3
  <2>1. \A d \in Calls \ {c} : Same(d)
    BY OthersUntouched, Untouched
  <2>2. SameEntry(c) /\ value' = value
    <3>1. CASE HSwap(c) \/ HCount(c) \/ HBucket(c)
      <4>1. pc[c] = "rest" /\ Outcome(c)' = Outcome(c) /\ pc' = pc /\ value' = value
        BY <3>1 DEF HSwap, HCount, HBucket, Base, Places, Observing, calls, Outcome, counter
      <4>. QED
        BY <4>1 DEF SameEntry, Started, Counted
    <3>2. CASE ~(HSwap(c) \/ HCount(c) \/ HBucket(c))
      BY <3>2, QuietCount DEF Same, Counts
    <3>. QED
      BY <3>1, <3>2
  <2>. QED
    BY <2>1, <2>2, LedgerStutters DEF Same
<1>4. CASE UNCHANGED <<process, counter, histogram, calls>>
  <2>1. UNCHANGED <<pc, status, at, le, value>>
    BY <1>4 DEF process, counter, calls
  <2>. QED
    BY <2>1, Untouched, LedgerStutters DEF Same
<1>5. CASE (ScrapeCounter \/ Prints) /\ UNCHANGED calls
  BY <1>4, <1>5, ScraperAlone
<1>6. CASE UNCHANGED vars
  BY <1>4, <1>6 DEF vars, telemetry
<1>. QED
  BY <1>1, <1>2, <1>3, <1>5, <1>6, StepsOfSystem

\* tts_upstream_total, with its map, its lock and its compare-and-swap loop,
\* implements a ledger in which each call is entered in two single steps, for
\* any number of calls and scrapes (telemetry/counter.go).
THEOREM CounterIsALedger == Spec => CountsCalls
<1>1. Base /\ [Next]_vars => [Book!LNext]_<<value, Stage>>
  BY LedgerStep
<1>2. Base /\ [Next]_vars =>
        [Book!LNext]_<<value, [c \in Calls |-> IF Counted(c) THEN "finished"
                               ELSE IF Started(c) THEN "started" ELSE "not started"]>>
  BY <1>1 DEF Stage, StageOf
<1>. QED
  BY <1>2, LedgerInit, BaseHolds, PTL DEF Spec, CountsCalls, Book!LSpec

-----------------------------------------------------------------------------
(* What a call returns.                                                    *)

Finals == {"final", "charged"}

\* The lines of an answer before its final one, and what they hold.
BodyOf(s)   == {i \in 1 .. Len(s) : \A j \in 1 .. i : s[j] \notin Finals}
VoicedOf(s) == {i \in BodyOf(s) : s[i] = "audio"}
FlawedOf(s) == \E i \in BodyOf(s) : s[i] \in {"garbled", "error"}

\* All lines so far have audio or nothing for the call.
Sound(s) == \A i \in 1 .. Len(s) : s[i] \in {"audio", "silent", "broken"}

\* The final line is among the lines.
Closed(s) == \E i \in 1 .. Len(s) : s[i] \in Finals

\* A line is read.
LEMMA OneLineMore ==
  ASSUME NEW s \in Seq(Kinds), NEW k \in Kinds
  PROVE  /\ Append(s, k) \in Seq(Kinds)
         /\ Len(s) \in Nat /\ Len(Append(s, k)) = Len(s) + 1
         /\ Append(s, k)[Len(s) + 1] = k
         /\ \A i \in 1 .. Len(s) : Append(s, k)[i] = s[i]
OBVIOUS

\* As long as nothing is wrong, all lines count.
LEMMA SoundLines ==
  ASSUME NEW s \in Seq(Kinds), Sound(s)
  PROVE  /\ VoicedOf(s) = {i \in 1 .. Len(s) : s[i] = "audio"}
         /\ ~FlawedOf(s)
<1>1. BodyOf(s) = 1 .. Len(s)
  BY DEF BodyOf, Sound, Finals
<1>. QED
  BY <1>1 DEF VoicedOf, FlawedOf, Sound

\* The final line changes nothing about them.
LEMMA FinalLine ==
  ASSUME NEW s \in Seq(Kinds), Sound(s), NEW k \in Finals
  PROVE  /\ VoicedOf(Append(s, k)) = {i \in 1 .. Len(s) : s[i] = "audio"}
         /\ ~FlawedOf(Append(s, k))
         /\ Closed(Append(s, k))
<1>. DEFINE t == Append(s, k)
            n == Len(s)
<1>1. n \in Nat /\ Len(t) = n + 1 /\ t[n + 1] = k /\ \A i \in 1 .. n : t[i] = s[i]
  BY OneLineMore DEF Finals, Kinds
<1>. HIDE DEF t, n
<1>2. \A i \in 1 .. n : t[i] = s[i] /\ t[i] \in {"audio", "silent", "broken"}
  BY <1>1 DEF Sound, n
<1>3. BodyOf(t) = 1 .. n
  BY <1>1, <1>2 DEF BodyOf, Finals
<1>4. VoicedOf(t) = {i \in 1 .. n : s[i] = "audio"} /\ ~FlawedOf(t)
  BY <1>2, <1>3 DEF VoicedOf, FlawedOf
<1>5. Closed(t)
  BY <1>1 DEF Closed
<1>. QED
  BY <1>4, <1>5 DEF t, n

\* Nothing after the final line counts.
LEMMA AfterFinal ==
  ASSUME NEW s \in Seq(Kinds), Closed(s), NEW k \in Kinds
  PROVE  /\ VoicedOf(Append(s, k)) = VoicedOf(s)
         /\ FlawedOf(Append(s, k)) <=> FlawedOf(s)
         /\ Closed(Append(s, k))
<1>. DEFINE t == Append(s, k)
            n == Len(s)
<1>1. n \in Nat /\ Len(t) = n + 1 /\ \A i \in 1 .. n : t[i] = s[i]
  BY OneLineMore
<1>. HIDE DEF t
<1>2. PICK f \in 1 .. n : s[f] \in Finals
  BY DEF Closed
<1>3. t[f] \in Finals /\ f \in 1 .. n + 1
  BY <1>1, <1>2
<1>4. n + 1 \notin BodyOf(t)
  BY <1>1, <1>2, <1>3 DEF BodyOf
<1>5. \A i \in 1 .. n : i \in BodyOf(t) <=> i \in BodyOf(s)
  BY <1>1 DEF BodyOf
<1>6. BodyOf(t) \subseteq 1 .. n + 1 /\ BodyOf(s) \subseteq 1 .. n
  BY <1>1 DEF BodyOf
<1>7. BodyOf(t) = BodyOf(s) /\ \A i \in BodyOf(s) : t[i] = s[i]
  <2>1. \A i \in 1 .. n + 1 : i \in 1 .. n \/ i = n + 1
    BY <1>1
  <2>2. \A i : i \in BodyOf(t) => i \in 1 .. n
    BY <1>4, <1>6, <2>1
  <2>3. \A i : i \in BodyOf(t) <=> i \in BodyOf(s)
    BY <1>5, <1>6, <2>2
  <2>. QED
    BY <1>1, <1>6, <2>3
<1>8. VoicedOf(t) = VoicedOf(s) /\ (FlawedOf(t) <=> FlawedOf(s))
  BY <1>7 DEF VoicedOf, FlawedOf
<1>9. Closed(t)
  BY <1>1, <1>3 DEF Closed
<1>. QED
  BY <1>8, <1>9 DEF t

\* An error or garbled data before it do count.
LEMMA FlawLine ==
  ASSUME NEW s \in Seq(Kinds), Sound(s), NEW k \in {"garbled", "error"}
  PROVE  FlawedOf(Append(s, k))
<1>. DEFINE t == Append(s, k)
            n == Len(s)
<1>1. n \in Nat /\ Len(t) = n + 1 /\ t[n + 1] = k /\ \A i \in 1 .. n : t[i] = s[i]
  BY OneLineMore DEF Kinds
<1>. HIDE DEF t
<1>2. \A i \in 1 .. n : t[i] \notin Finals
  BY <1>1 DEF Sound, Finals
<1>3. t[n + 1] \notin Finals
  BY <1>1 DEF Finals
<1>4. \A j \in 1 .. n + 1 : t[j] \notin Finals
  BY <1>1, <1>2, <1>3
<1>5. n + 1 \in BodyOf(t)
  BY <1>1, <1>4 DEF BodyOf
<1>6. FlawedOf(t)
  BY <1>1, <1>5 DEF FlawedOf
<1>. QED
  BY <1>6 DEF t

\* What has been read of each call's answer, and what has been made of it.
Reading0(c) == lines[c] = <<>> /\ ended[c] = "open" /\ audio[c] = {}
Open(c)     == Sound(lines[c]) /\ ended[c] = "open"
               /\ audio[c] = {i \in 1 .. Len(lines[c]) : lines[c][i] = "audio"}
Draining(c) == Closed(lines[c]) /\ ended[c] = "open"
               /\ audio[c] = VoicedOf(lines[c]) /\ ~FlawedOf(lines[c])
Whole(c)    == ended[c] = "end" /\ audio[c] # {}
               /\ audio[c] = VoicedOf(lines[c]) /\ ~FlawedOf(lines[c])

Returned(c) ==
  /\ status[c] \in {"ok", "wrap_error"} =>
       ended[c] = "end" /\ ~FlawedOf(lines[c]) /\ VoicedOf(lines[c]) # {}
  /\ status[c] = "stream_error" =>
       ended[c] = "cut" \/ FlawedOf(lines[c]) \/ VoicedOf(lines[c]) = {}
  /\ status[c] = "ok" =>
       /\ answer[c].audio = VoicedOf(lines[c])
       /\ answer[c].header = (answer[c].format = "wav")
       /\ answer[c].encoding = IF answer[c].header THEN "pcm" ELSE answer[c].format
  /\ status[c] # "ok" => answer[c] = NoAnswer

AnswerOf(c) ==
  /\ pc[c] \in {"idle", "post"} => Reading0(c)
  /\ pc[c] = "read" => Open(c)
  /\ pc[c] = "drain" => Draining(c)
  /\ pc[c] = "wrap" => Whole(c)
  /\ pc[c] # "finish" => answer[c] = NoAnswer
  /\ pc[c] = "finish" => Returned(c)

Answers == \A c \in Calls : AnswerOf(c)

\* It is what AnswerWhole says.
LEMMA AnswersSay == Answers => AnswerWhole
<1>1. \A c : Voiced(c) = VoicedOf(lines[c]) /\ (Flawed(c) <=> FlawedOf(lines[c]))
  BY DEF Voiced, Flawed, Body, VoicedOf, FlawedOf, BodyOf, Finals
<1>. QED
  BY <1>1 DEF Answers, AnswerOf, Returned, AnswerWhole

answering == <<pc, audio, status, answer, lines, ended>>

\* A call that a step does not touch is where it was.
LEMMA AnswerUntouched ==
  ASSUME NEW d, AnswerOf(d), pc'[d] = pc[d], audio'[d] = audio[d], status'[d] = status[d],
         answer'[d] = answer[d], lines'[d] = lines[d], ended'[d] = ended[d]
  PROVE  AnswerOf(d)'
BY DEF AnswerOf, Reading0, Open, Draining, Whole, Returned

\* A step of a call changes no other.
LEMMA OtherAnswers ==
  ASSUME Base, NEW c \in Calls, NEW d \in Calls, d # c,
         Begin(c) \/ UpstreamFinished(c) \/ Observe(c) \/ Local(c)
  PROVE  /\ pc'[d] = pc[d] /\ audio'[d] = audio[d] /\ status'[d] = status[d]
         /\ answer'[d] = answer[d] /\ lines'[d] = lines[d] /\ ended'[d] = ended[d]
<1>. USE DEF Base, CallTypes
<1>1. pc'[d] = pc[d] /\ status'[d] = status[d]
  BY OthersUntouched
<1>2. CASE Begin(c) \/ UpstreamFinished(c) \/ Observe(c)
  BY <1>1, <1>2 DEF Begin, UpstreamFinished, Observe
<1>3. CASE Reject(c) \/ PostFails(c) \/ Cut(c) \/ WrapFails(c) \/ HttpError(c) \/ NoAudio(c)
  <2>1. PICK s, n : Fail(c, s, n)
    BY <1>3 DEF Reject, PostFails, Cut, WrapFails, HttpError, NoAudio
  <2>2. audio'[d] = audio[d] /\ answer' = answer
    BY <2>1 DEF Fail, Finish
  <2>3. lines' = lines /\ ended'[d] = ended[d]
    BY <1>3 DEF Reject, PostFails, Cut, WrapFails, HttpError, NoAudio
  <2>. QED
    BY <1>1, <2>2, <2>3
<1>4. CASE ReadGarbled(c) \/ ReadError(c)
  <2>1. PICK s, n : Fail(c, s, n)
    BY <1>4 DEF ReadGarbled, ReadError
  <2>2. audio'[d] = audio[d] /\ answer' = answer
    BY <2>1 DEF Fail, Finish
  <2>3. lines'[d] = lines[d] /\ ended' = ended
    BY <1>4 DEF ReadGarbled, ReadError, Receive
  <2>. QED
    BY <1>1, <2>2, <2>3
<1>5. CASE Wrap(c)
  BY <1>1, <1>5 DEF Wrap, Finish
<1>6. CASE Rest(c) \/ Respond(c) \/ StreamEnds(c)
  BY <1>1, <1>6 DEF Rest, Respond, StreamEnds
<1>7. CASE ReadAudio(c) \/ ReadSilent(c) \/ ReadBroken(c) \/ ReadFinal(c) \/ Drain(c)
  BY <1>1, <1>7 DEF ReadAudio, ReadSilent, ReadBroken, ReadFinal, Drain, Receive
<1>. QED
  BY <1>2, <1>3, <1>4, <1>5, <1>6, <1>7 DEF Local, Serves

\* The step of a call keeps what is said of it.
LEMMA AnswerStep ==
  ASSUME Base, NEW c \in Calls, AnswerOf(c),
         Begin(c) \/ UpstreamFinished(c) \/ Observe(c) \/ Local(c)
  PROVE  AnswerOf(c)'
<1>. USE DEF Base, CallTypes
<1>0. lines[c] \in Seq(Kinds)
  OBVIOUS
<1>1. CASE Begin(c)
  BY <1>1 DEF Begin, AnswerOf, Reading0
<1>2. CASE UpstreamFinished(c)
  <2>1. pc'[c] = "observe" /\ answer'[c] = NoAnswer
    BY <1>2 DEF UpstreamFinished
  <2>. QED
    BY <2>1 DEF AnswerOf
<1>3. CASE Observe(c) \/ Rest(c)
  <2>1. pc[c] \in {"observe", "rest"} /\ pc'[c] \in {"rest", "done"} /\ answer' = answer
    BY <1>3 DEF Observe, Rest
  <2>. QED
    BY <2>1 DEF AnswerOf
<1>4. CASE Respond(c)
  <2>1. /\ Reading0(c) /\ answer[c] = NoAnswer /\ pc'[c] = "read"
        /\ UNCHANGED <<audio, answer, lines, ended>>
    BY <1>4 DEF Respond, AnswerOf
  <2>2. Open(c)'
    BY <2>1 DEF Reading0, Open, Sound
  <2>. QED
    BY <2>1, <2>2 DEF AnswerOf
<1>5. ASSUME NEW s \in Outcomes \ {"ok"}, NEW n, Fail(c, s, n), pc[c] # "finish",
             s = "stream_error" => ended'[c] = "cut" \/ FlawedOf(lines'[c]) \/ VoicedOf(lines'[c]) = {},
             s = "wrap_error" => ended'[c] = "end" /\ ~FlawedOf(lines'[c]) /\ VoicedOf(lines'[c]) # {}
      PROVE  AnswerOf(c)'
  <2>1. pc'[c] = "finish" /\ status'[c] = s /\ answer'[c] = NoAnswer
    BY <1>5 DEF Fail, Finish, AnswerOf
  <2>2. Returned(c)'
    BY <1>5, <2>1 DEF Returned
  <2>. QED
    BY <2>1, <2>2 DEF AnswerOf
<1>6. CASE Reject(c) \/ PostFails(c) \/ HttpError(c)
  <2>1. PICK s \in Outcomes \ {"ok", "stream_error", "wrap_error"} : \E n : Fail(c, s, n)
    BY <1>6, StatusNames DEF Reject, PostFails, HttpError, Errors
  <2>2. pc[c] # "finish"
    BY <1>6 DEF Reject, PostFails, HttpError
  <2>. QED
    BY <2>1, <2>2, <1>5
<1>7. CASE Cut(c)
  <2>1. Fail(c, "stream_error", 0) /\ pc[c] # "finish" /\ ended'[c] = "cut"
    BY <1>7 DEF Cut
  <2>. QED
    BY <2>1, <1>5, StatusNames DEF Errors
<1>8. \/ VoicedOf(lines[c]) = audio[c] /\ ~FlawedOf(lines[c]) /\ pc[c] # "finish"
      \/ pc[c] \notin {"read", "drain", "wrap"}
  BY SoundLines DEF AnswerOf, Open, Draining, Whole
<1>9. CASE NoAudio(c)
  <2>1. /\ Fail(c, "stream_error", 0) /\ pc[c] \in {"read", "drain"}
        /\ audio[c] = {} /\ lines' = lines
    BY <1>9 DEF NoAudio
  <2>. QED
    BY <2>1, <1>5, <1>8, StatusNames DEF Errors
<1>10. CASE StreamEnds(c)
  <2>1. /\ pc[c] \in {"read", "drain"} /\ audio[c] # {} /\ ended'[c] = "end"
        /\ pc'[c] = "wrap" /\ UNCHANGED <<audio, answer, lines>>
    BY <1>10 DEF StreamEnds
  <2>2. Whole(c)'
    BY <2>1, <1>8 DEF Whole
  <2>. QED
    BY <2>1, <2>2 DEF AnswerOf
<1>11. CASE WrapFails(c)
  <2>1. pc[c] = "wrap" /\ Fail(c, "wrap_error", 0) /\ lines' = lines /\ ended' = ended
    BY <1>11 DEF WrapFails
  <2>2. Whole(c)
    BY <2>1 DEF AnswerOf
  <2>. QED
    BY <2>1, <2>2, <1>5, StatusNames DEF Whole, Errors
<1>12. CASE Wrap(c)
  <2>1. /\ pc[c] = "wrap" /\ pc'[c] = "finish" /\ status'[c] = "ok"
        /\ lines' = lines /\ ended' = ended
        /\ answer'[c] = [format |-> FinalFormat(c), encoding |-> UpstreamFormat[c],
                         header |-> ClientFormat[c] = "wav", audio |-> audio[c]]
    BY <1>12 DEF Wrap, Finish
  <2>2. Whole(c)
    BY <2>1 DEF AnswerOf
  <2>3. ClientFormat[c] = "wav" => UpstreamFormat[c] = "pcm" /\ FinalFormat(c) = "wav"
    BY DEF UpstreamFormat, FinalFormat
  <2>4. ClientFormat[c] # "wav" => FinalFormat(c) = UpstreamFormat[c] /\ FinalFormat(c) # "wav"
    BY UpstreamFormatType DEF FinalFormat, Formats
  <2>5. /\ answer'[c].audio = VoicedOf(lines'[c])
        /\ answer'[c].header = (answer'[c].format = "wav")
        /\ answer'[c].encoding = IF answer'[c].header THEN "pcm" ELSE answer'[c].format
    <3>1. /\ answer'[c].format = FinalFormat(c) /\ answer'[c].encoding = UpstreamFormat[c]
          /\ answer'[c].header = (ClientFormat[c] = "wav") /\ answer'[c].audio = audio[c]
      BY <2>1
    <3>2. answer'[c].audio = VoicedOf(lines'[c])
      BY <3>1, <2>1, <2>2 DEF Whole
    <3>3. CASE ClientFormat[c] = "wav"
      BY <3>1, <3>2, <3>3, <2>3
    <3>4. CASE ClientFormat[c] # "wav"
      BY <3>1, <3>2, <3>4, <2>4
    <3>. QED
      BY <3>3, <3>4
  <2>6. Returned(c)'
    BY <2>1, <2>2, <2>5 DEF Returned, Whole
  <2>. QED
    BY <2>1, <2>6 DEF AnswerOf
<1>13. CASE ReadGarbled(c) \/ ReadError(c)
  <2>1. \E n : Fail(c, "stream_error", n)
    BY <1>13 DEF ReadGarbled, ReadError
  <2>2. PICK k \in {"garbled", "error"} : lines'[c] = Append(lines[c], k)
    BY <1>13 DEF ReadGarbled, ReadError, Receive
  <2>3. pc[c] = "read" /\ Open(c)
    BY <1>13 DEF ReadGarbled, ReadError, AnswerOf
  <2>4. FlawedOf(lines'[c])
    BY <1>0, <2>2, <2>3, FlawLine DEF Open
  <2>. QED
    BY <2>1, <2>3, <2>4, <1>5, StatusNames DEF Errors
<1>14. CASE ReadAudio(c) \/ ReadSilent(c) \/ ReadBroken(c)
  <2>1. PICK k \in {"audio", "silent", "broken"} :
          /\ pc[c] = "read" /\ pc' = pc /\ answer' = answer /\ ended' = ended
          /\ lines'[c] = Append(lines[c], k)
          /\ k = "audio" => audio'[c] = audio[c] \cup {Len(lines'[c])}
          /\ k # "audio" => audio'[c] = audio[c]
    <3>1. CASE ReadAudio(c)
      BY <3>1 DEF ReadAudio, Receive
    <3>2. CASE ReadSilent(c)
      BY <3>2 DEF ReadSilent, Receive
    <3>3. CASE ReadBroken(c)
      BY <3>3 DEF ReadBroken, Receive
    <3>. QED
      BY <1>14, <3>1, <3>2, <3>3
  <2>2. Open(c) /\ answer[c] = NoAnswer
    BY <2>1 DEF AnswerOf
  <2>. DEFINE n == Len(lines[c])
              t == lines'[c]
  <2>3. /\ n \in Nat /\ Len(t) = n + 1 /\ t[n + 1] = k
        /\ \A i \in 1 .. n : t[i] = lines[c][i]
    <3>1. k \in Kinds
      BY DEF Kinds
    <3>2. lines[c] \in Seq(Kinds)
      BY <1>0
    <3>. QED
      BY <2>1, <3>1, <3>2, OneLineMore
  <2>4. \A i \in 1 .. n : lines[c][i] \in {"audio", "silent", "broken"}
    BY <2>2 DEF Open, Sound
  <2>5. audio[c] = {i \in 1 .. n : lines[c][i] = "audio"}
    BY <2>2 DEF Open
  <2>6. /\ k = "audio" => audio'[c] = audio[c] \cup {n + 1}
        /\ k # "audio" => audio'[c] = audio[c]
    BY <2>1, <2>3
  <2>. HIDE DEF n, t
  <2>7. \A i \in 1 .. n + 1 : i = n + 1 \/ i \in 1 .. n
    BY <2>3
  <2>8. Sound(t)
    BY <2>1, <2>3, <2>4, <2>7 DEF Sound
  <2>9. audio'[c] = {i \in 1 .. n + 1 : t[i] = "audio"}
    <3>1. 1 .. n + 1 = (1 .. n) \cup {n + 1} /\ n + 1 \notin 1 .. n
      BY <2>3
    <3>2. {i \in 1 .. n : t[i] = "audio"} = audio[c]
      BY <2>3, <2>5
    <3>. QED
      BY <2>3, <2>6, <3>1, <3>2
  <2>10. Open(c)'
    BY <2>1, <2>2, <2>3, <2>8, <2>9 DEF Open, t
  <2>. QED
    BY <2>1, <2>2, <2>10 DEF AnswerOf
<1>15. CASE ReadFinal(c)
  <2>1. PICK k \in Finals : lines'[c] = Append(lines[c], k)
    BY <1>15 DEF ReadFinal, Receive, Finals
  <2>2. pc[c] = "read" /\ pc'[c] = "drain" /\ answer' = answer /\ ended' = ended /\ audio' = audio
    BY <1>15 DEF ReadFinal
  <2>3. Open(c) /\ answer[c] = NoAnswer
    BY <2>2 DEF AnswerOf
  <2>4. Draining(c)'
    BY <1>0, <2>1, <2>2, <2>3, FinalLine DEF Open, Draining
  <2>. QED
    BY <2>2, <2>3, <2>4 DEF AnswerOf
<1>16. CASE Drain(c)
  <2>1. PICK k \in Kinds : lines'[c] = Append(lines[c], k)
    BY <1>16 DEF Drain, Receive, Kinds
  <2>2. pc[c] = "drain" /\ pc' = pc /\ answer' = answer /\ ended' = ended /\ audio' = audio
    BY <1>16 DEF Drain
  <2>3. Draining(c) /\ answer[c] = NoAnswer
    BY <2>2 DEF AnswerOf
  <2>4. Draining(c)'
    BY <1>0, <2>1, <2>2, <2>3, AfterFinal DEF Draining
  <2>. QED
    BY <2>2, <2>3, <2>4 DEF AnswerOf
<1>. QED
  BY <1>1, <1>2, <1>3, <1>4, <1>6, <1>7, <1>9, <1>10, <1>11, <1>12, <1>13, <1>14, <1>15, <1>16
     DEF Local, Serves

\* No call has read anything when the program starts, ...
LEMMA AnswersInit == Init => Answers
BY DEF Init, Answers, AnswerOf, Reading0

\* ... and every step keeps what is said of each.
LEMMA AnswersStep == Base /\ Answers /\ [Next]_vars => Answers'
<1>. SUFFICES ASSUME Base, Answers, [Next]_vars PROVE Answers'
  OBVIOUS
<1>1. CASE \E c \in Calls : Begin(c) \/ UpstreamFinished(c) \/ Observe(c) \/ Local(c)
  <2>. PICK c \in Calls : Begin(c) \/ UpstreamFinished(c) \/ Observe(c) \/ Local(c)
    BY <1>1
  <2>1. \A d \in Calls \ {c} : AnswerOf(d)'
    BY OtherAnswers, AnswerUntouched DEF Answers
  <2>2. AnswerOf(c)'
    BY AnswerStep DEF Answers
  <2>. QED
    BY <2>1, <2>2 DEF Answers
<1>2. CASE UNCHANGED calls
  BY <1>2, AnswerUntouched DEF calls, Answers
<1>. QED
  BY <1>1, <1>2, StepsOfSystem DEF vars

\* A call returns audio exactly when the answer of the service was read to its
\* end and had audio and nothing wrong before its final line, and then all that
\* could be read, whatever lines arrive in whatever order
\* (adapter/volcano/response.go).
THEOREM AnswersAreWhole == Spec => []AnswerWhole
BY AnswersInit, AnswersStep, AnswersSay, BaseHolds, PTL DEF Spec

-----------------------------------------------------------------------------
(* What a scrape may show.                                                 *)

\* The keys that calls have put into the counter's map: a call that has been
\* counted as started has left its key there, so that there is no success of
\* a format without the started calls of it.
SeriesRight ==
  /\ \A c \in Calls : at[c] \in {"load", "swap"} => on[c] \in series
  /\ \A c \in Calls : Started(c) => <<"started", UpstreamFormat[c]>> \in series
  /\ \A f \in Asked : <<"ok", f>> \in series => <<"started", f>> \in series

CounterShown ==
  /\ scan # "counter" => \A k \in Keys : shown[k] = 0
  /\ \A k \in Keys : shown[k] <= value[k]
  /\ scan = "counter" => \A f \in Asked :
       /\ <<"ok", f>> \in left => <<"started", f>> \in left
       /\ <<"started", f>> \in left \/ shown[<<"ok", f>>] <= shown[<<"started", f>>]

HistogramShown ==
  /\ scan # "histogram" => cell = 0
  /\ scan = "histogram" => cell >= 1
  /\ cell > 0 => \A k \in Keys : First(k) =>
       /\ \A i \in 1 .. Les : i < cell => row[i] <= count[k]
       /\ cell > Inf => row[Inf] <= sum[k]
  /\ cell > Inf => \A i \in 1 .. Les : row[i] <= row[Inf]
  /\ cell > Sum => row[Inf] <= row[Sum]

\* It is what ScrapeBounded says.
LEMMA ShownSays == CounterShown /\ HistogramShown => ScrapeBounded
BY DEF CounterShown, HistogramShown, ScrapeBounded

\* The cells of a child by their numbers.
LEMMA Cells ==
  /\ Les \in Nat /\ Les >= 1
  /\ Inf = Les + 1 /\ Sum = Les + 2 /\ Count = Les + 3
BY Constants DEF Inf, Sum, Count

\* The keys of a format that is asked for, success before start.
LEMMA KeysOfFormat ==
  ASSUME NEW f \in Asked
  PROVE  /\ <<"ok", f>> \in Keys /\ <<"started", f>> \in Keys
         /\ Rank[<<"ok", f>>] \in Nat /\ Rank[<<"started", f>>] \in Nat
         /\ Rank[<<"ok", f>>] < Rank[<<"started", f>>]
<1>1. <<"ok", f>> \in Keys /\ <<"started", f>> \in Keys
  BY SynthesisAssumption DEF SynthesisAssumption, Outcomes
<1>. QED
  BY <1>1, SynthesisAssumption, TelemetryAssumption DEF SynthesisAssumption, TelemetryAssumption

\* There is one first key.
LEMMA OneFirst ==
  ASSUME NEW k \in Keys, NEW j \in Keys, First(k), First(j)
  PROVE  j = k
<1>1. Rank[k] <= Rank[j] /\ Rank[j] <= Rank[k] /\ Rank[j] \in Nat /\ Rank[k] \in Nat
  BY TelemetryAssumption DEF First, TelemetryAssumption
<1>. QED
  BY <1>1, TelemetryAssumption DEF TelemetryAssumption

\* Fewer calls are no more.
LEMMA FewerCalls ==
  ASSUME NEW S \in SUBSET Calls, NEW T \in SUBSET S
  PROVE  Cardinality(T) <= Cardinality(S) /\ Cardinality(S) \in Nat /\ Cardinality(T) \in Nat
BY FS_Subset, FS_CardinalityType, TelemetryAssumption DEF TelemetryAssumption

\* Of what the children hold, a part is never more than the whole: a success
\* has started, a call in a bucket is in the count, one in the count in the sum.
LEMMA PartAndWhole ==
  ASSUME Base, Accounted
  PROVE  /\ \A f \in Asked : value[<<"ok", f>>] <= value[<<"started", f>>]
         /\ \A k \in Keys : \A i \in 1 .. Les : bucket[k][i] <= count[k]
         /\ \A k \in Keys : count[k] <= sum[k]
<1>1. ASSUME NEW f \in Asked PROVE value[<<"ok", f>>] <= value[<<"started", f>>]
  <2>1. Entered(<<"ok", f>>) \subseteq Entered(<<"started", f>>)
    <3>1. \A c : Counted(c) => Started(c)
      BY DEF Counted, Started
    <3>. QED
      BY <3>1 DEF Entered, Outcome
  <2>2. Entered(<<"started", f>>) \subseteq Calls
    BY DEF Entered
  <2>. QED
    BY <2>1, <2>2, KeysOfFormat, FewerCalls DEF Accounted
<1>2. ASSUME NEW k \in Keys, NEW i \in 1 .. Les PROVE bucket[k][i] <= count[k]
  <2>1. Within(k, i) \subseteq Durations(k) /\ Durations(k) \subseteq Calls
    BY CountedFirst DEF Within, Durations
  <2>. QED
    BY <2>1, FewerCalls DEF Accounted
<1>3. ASSUME NEW k \in Keys PROVE count[k] <= sum[k]
  <2>1. Durations(k) \subseteq Additions(k) /\ Additions(k) \subseteq Calls
    BY CountedFirst DEF Durations, Additions
  <2>. QED
    BY <2>1, FewerCalls DEF Accounted
<1>. QED
  BY <1>1, <1>2, <1>3

\* The children only grow.
LEMMA OnlyGrow ==
  ASSUME Base, [Next]_vars, NEW k \in Keys
  PROVE  /\ value[k] <= value'[k] /\ value'[k] \in Nat /\ value[k] \in Nat
         /\ count[k] <= count'[k] /\ count'[k] \in Nat /\ count[k] \in Nat
         /\ sum[k] <= sum'[k] /\ sum'[k] \in Nat /\ sum[k] \in Nat
<1>0. Base'
  BY BaseStep
<1>1. value[k] <= value'[k] /\ count[k] <= count'[k] /\ sum[k] <= sum'[k]
  <2>. USE DEF Base, MetricTypes
  <2>1. CASE \E c \in Calls : Swap(c)
    BY <2>1 DEF Swap, histogram
  <2>2. CASE \E c \in Calls : HSwap(c)
    BY <2>2 DEF HSwap, counter
  <2>3. CASE \E c \in Calls : HCount(c)
    BY <2>3 DEF HCount, counter
  <2>4. CASE UNCHANGED <<value, count, sum>>
    BY <2>4
  <2>5. CASE \E c \in Calls : Begin(c) \/ UpstreamFinished(c) \/ Observe(c)
    BY <2>5, <2>4 DEF Begin, UpstreamFinished, Observe, counter, histogram
  <2>6. CASE \E c \in Calls : Local(c)
    BY <2>6, <2>4, LocalAlone DEF telemetry, counter, histogram
  <2>7. CASE \E c \in Calls : Counts(c) /\ UNCHANGED calls
    <3>1. PICK c \in Calls : Counts(c) /\ UNCHANGED calls
      BY <2>7
    <3>2. CASE HBucket(c)
      BY <3>2, <2>4 DEF HBucket, counter
    <3>3. CASE Find(c) \/ Lock(c) \/ Create(c) \/ Load(c) \/ SwapFails(c)
               \/ HFind(c) \/ HLock(c) \/ HCreate(c) \/ HLoad(c) \/ HSwapFails(c)
      BY <3>1, <3>3, <2>4, QuietCount
    <3>. QED
      BY <3>1, <3>2, <3>3, <2>1, <2>2, <2>3 DEF Counts
  <2>8. CASE (ScrapeCounter \/ Prints) /\ UNCHANGED calls
    BY <2>8, <2>4, ScraperAlone DEF counter, histogram
  <2>9. CASE UNCHANGED vars
    BY <2>9, <2>4 DEF vars, telemetry, counter, histogram
  <2>. QED
    BY <2>5, <2>6, <2>7, <2>8, <2>9, StepsOfSystem
<1>. QED
  BY <1>0, <1>1 DEF Base, MetricTypes

\* The keys in the map are kept right by the steps that concern them, ...
LEMMA SeriesKept ==
  ASSUME SeriesRight, series \subseteq series',
         \A d \in Calls : at'[d] \in {"load", "swap"} => on'[d] \in series',
         \A d \in Calls : Started(d)' => Started(d) \/ <<"started", UpstreamFormat[d]>> \in series',
         \A f \in Asked : <<"ok", f>> \in series' => <<"ok", f>> \in series \/ <<"started", f>> \in series'
  PROVE  SeriesRight'
BY DEF SeriesRight

\* ... and so by all.
LEMMA SeriesStep == Base /\ SeriesRight /\ [Next]_vars => SeriesRight'
<1>. SUFFICES ASSUME Base, SeriesRight, [Next]_vars PROVE SeriesRight'
  OBVIOUS
<1>0. ASSUME series' = series, \A d \in Calls : Same(d),
             \A d \in Calls : at'[d] \in {"load", "swap"} => on'[d] \in series
      PROVE  SeriesRight'
  BY <1>0, SeriesKept DEF Same, SameEntry
<1>1. CASE \E c \in Calls : Begin(c) \/ UpstreamFinished(c) \/ Observe(c)
  <2>. PICK c \in Calls : Begin(c) \/ UpstreamFinished(c) \/ Observe(c)
    BY <1>1
  <2>1. \A d \in Calls : Same(d)
    BY QuietCall, OthersUntouched, Untouched
  <2>2. series' = series
    BY DEF Begin, UpstreamFinished, Observe, counter
  <2>3. \A d \in Calls : at'[d] \in {"load", "swap"} => at'[d] = at[d] /\ on'[d] = on[d]
    BY DEF Begin, UpstreamFinished, Observe, BeginAdd, BeginObserve, Base, MetricTypes
  <2>. QED
    BY <2>1, <2>2, <2>3, <1>0 DEF SeriesRight
<1>2. CASE \E c \in Calls : Local(c)
  <2>. PICK c \in Calls : Local(c)
    BY <1>2
  <2>1. \A d \in Calls : Same(d)
    BY QuietCall, OthersUntouched, Untouched
  <2>2. UNCHANGED <<series, at, on>>
    BY LocalAlone DEF telemetry, counter, process
  <2>. QED
    BY <2>1, <2>2, <1>0 DEF SeriesRight
<1>3. CASE UNCHANGED <<process, counter, histogram, calls>>
  <2>1. UNCHANGED <<pc, status, at, on, le, series>>
    BY <1>3 DEF process, counter, calls
  <2>. QED
    BY <2>1, <1>0, Untouched DEF SeriesRight
<1>4. CASE \E c \in Calls : Counts(c) /\ UNCHANGED calls
  <2>. PICK c \in Calls : Counts(c) /\ UNCHANGED calls
    BY <1>4
  <2>1. \A d \in Calls \ {c} : Same(d) /\ at'[d] = at[d]
    BY OthersUntouched, Untouched
  <2>2. on' = on
    BY DEF Counts, Find, Lock, Create, Load, Swap, SwapFails, HFind, HLock, HCreate,
           HLoad, HSwap, HSwapFails, HCount,
           HBucket
  <2>3. CASE Find(c) \/ Lock(c) \/ Load(c) \/ SwapFails(c) \/ HFind(c) \/ HLock(c) \/ HCreate(c)
    <3>1. Same(c)
      BY <2>3, QuietCount
    <3>2. series' = series
      BY <2>3 DEF Find, Lock, Load, SwapFails, HFind, HLock, HCreate, counter
    <3>3. at'[c] \in {"load", "swap"} => on[c] \in series
      BY <2>3 DEF Find, Lock, Load, SwapFails, HFind, HLock, HCreate, SeriesRight, Base, MetricTypes
    <3>. QED
      BY <2>1, <2>2, <3>1, <3>2, <3>3, <1>0 DEF SeriesRight
  <2>4. CASE Create(c)
    <3>1. Same(c)
      BY <2>4, QuietCount
    <3>2. series' = series \cup {on[c]} /\ at[c] = "create"
      BY <2>4 DEF Create
    <3>3. \A f \in Asked : on[c] = <<"ok", f>> => <<"started", f>> \in series
      <4>. SUFFICES ASSUME NEW f \in Asked, on[c] = <<"ok", f>>
                    PROVE  <<"started", f>> \in series
        OBVIOUS
      <4>1. pc[c] = "observe" /\ on[c] = Outcome(c)
        <5>1. \/ pc[c] = "post" /\ on[c] = <<"started", UpstreamFormat[c]>>
              \/ pc[c] = "observe" /\ on[c] = Outcome(c)
          BY <3>2 DEF Base, Places, Adding
        <5>2. <<"ok", f>> # <<"started", UpstreamFormat[c]>>
          OBVIOUS
        <5>. QED
          BY <5>1, <5>2
      <4>2. Started(c) /\ UpstreamFormat[c] = f
        BY <4>1 DEF Started, Outcome
      <4>. QED
        BY <4>2 DEF SeriesRight
    <3>. QED
      BY <2>1, <2>2, <3>1, <3>2, <3>3, SeriesKept DEF SeriesRight, Same, SameEntry
  <2>5. CASE Swap(c)
    <3>1. at[c] = "swap" /\ at'[c] = "idle" /\ series' = series
      BY <2>5 DEF Swap, Base, MetricTypes
    <3>2. Started(c) \/ <<"started", UpstreamFormat[c]>> \in series
      <4>1. CASE pc[c] = "post" /\ on[c] = <<"started", UpstreamFormat[c]>>
        BY <4>1, <3>1 DEF SeriesRight
      <4>2. CASE pc[c] = "observe"
        BY <4>2 DEF Started
      <4>. QED
        BY <3>1, <4>1, <4>2 DEF Base, Places, Adding
    <3>. QED
      BY <2>1, <2>2, <3>1, <3>2, SeriesKept DEF SeriesRight, Same, SameEntry
  <2>6. CASE HSwap(c) \/ HCount(c) \/ HBucket(c)
    <3>1. series' = series
      BY <2>6 DEF HSwap, HCount, HBucket, counter
    <3>2. at[c] \in Observing /\ at'[c] \in {"hcount", "hbucket", "idle"}
      <4>. USE DEF Observing, Base, MetricTypes
      <4>1. CASE HSwap(c)
        BY <4>1 DEF HSwap
      <4>2. CASE HCount(c)
        BY <4>2 DEF HCount
      <4>3. CASE HBucket(c)
        BY <4>3 DEF HBucket
      <4>. QED
        BY <2>6, <4>1, <4>2, <4>3
    <3>3. Started(c) /\ at'[c] \notin {"load", "swap"}
      BY <3>2 DEF Base, Places, Started
    <3>. QED
      BY <2>1, <2>2, <3>1, <3>3, SeriesKept DEF SeriesRight, Same, SameEntry
  <2>7. CASE HLoad(c) \/ HSwapFails(c)
    <3>1. Same(c) /\ series' = series
      BY <2>7, QuietCount DEF HLoad, HSwapFails, counter
    <3>2. at'[c] \notin {"load", "swap"}
      <4>1. CASE HLoad(c)
        BY <4>1 DEF HLoad, Base, MetricTypes
      <4>2. CASE HSwapFails(c)
        BY <4>2 DEF HSwapFails, Base, MetricTypes
      <4>. QED
        BY <2>7, <4>1, <4>2
    <3>. QED
      BY <2>1, <2>2, <3>1, <3>2, <1>0 DEF SeriesRight
  <2>. QED
    BY <2>3, <2>4, <2>5, <2>6, <2>7 DEF Counts
<1>5. CASE (ScrapeCounter \/ Prints) /\ UNCHANGED calls
  BY <1>3, <1>5, ScraperAlone
<1>6. CASE UNCHANGED vars
  BY <1>3, <1>6 DEF vars, telemetry
<1>. QED
  BY <1>1, <1>2, <1>4, <1>5, <1>6, StepsOfSystem

\* The scraper's steps keep what it has shown of the counter within bounds, ...
LEMMA CounterPrinted ==
  ASSUME Base, Accounted, SeriesRight, CounterShown, ScrapeCounter \/ Prints
  PROVE  CounterShown'
<1>0. UNCHANGED <<series, value>> /\ shown \in [Keys -> Nat] /\ value \in [Keys -> Nat]
  BY ScraperAlone DEF counter, Base, MetricTypes, ScraperTypes
<1>1. CASE ScrapeCounter
  <2>1. scan = "nothing" /\ scan' = "counter" /\ left' = series /\ shown' = shown
    BY <1>1 DEF ScrapeCounter
  <2>2. \A f \in Asked : shown'[<<"ok", f>>] <= shown'[<<"started", f>>]
    <3>1. \A k \in Keys : shown'[k] = 0
      BY <2>1 DEF CounterShown
    <3>2. \A f \in Asked : shown'[<<"ok", f>>] = 0 /\ shown'[<<"started", f>>] = 0
      BY <3>1, KeysOfFormat
    <3>3. 0 <= 0
      OBVIOUS
    <3>. QED
      BY <3>2, <3>3
  <2>3. \A f \in Asked : <<"ok", f>> \in left' => <<"started", f>> \in left'
    BY <2>1 DEF SeriesRight
  <2>. QED
    BY <1>0, <2>1, <2>2, <2>3 DEF CounterShown
<1>2. CASE \E k \in Keys : PrintCounter(k)
  <2>. PICK k \in Keys : PrintCounter(k)
    BY <1>2
  <2>1. /\ scan = "counter" /\ scan' = scan /\ First(k)
        /\ shown' = [shown EXCEPT ![k] = value[k]] /\ left' = left \ {k}
    BY DEF PrintCounter
  <2>2. \A j \in Keys : shown'[j] <= value'[j]
    BY <1>0, <2>1 DEF CounterShown
  <2>3. ASSUME NEW f \in Asked
        PROVE  /\ <<"ok", f>> \in left' => <<"started", f>> \in left'
               /\ <<"started", f>> \in left' \/ shown'[<<"ok", f>>] <= shown'[<<"started", f>>]
    <3>. DEFINE o == <<"ok", f>>
                s == <<"started", f>>
    <3>1. o \in Keys /\ s \in Keys /\ o # s /\ Rank[o] < Rank[s] /\ Rank[o] \in Nat /\ Rank[s] \in Nat
      BY KeysOfFormat
    <3>2. /\ o \in left => s \in left
          /\ s \in left \/ shown[o] <= shown[s]
      BY <2>1 DEF CounterShown
    <3>3. shown[o] <= value[o] /\ value[o] <= value[s] /\ shown[o] \in Nat /\ value[o] \in Nat
          /\ value[s] \in Nat
      BY <1>0, <3>1, PartAndWhole DEF CounterShown
    <3>. HIDE DEF o, s
    <3>4. CASE k = s
      <4>1. o \notin left
        BY <3>1, <3>4, <2>1 DEF First
      <4>2. shown'[o] = shown[o] /\ shown'[s] = value[s]
        BY <1>0, <3>1, <3>4, <2>1
      <4>. QED
        BY <4>1, <4>2, <2>1, <3>3 DEF o, s
    <3>5. CASE k = o
      <4>1. s \in left'
        BY <3>1, <3>2, <3>5, <2>1 DEF First
      <4>. QED
        BY <4>1 DEF o, s
    <3>6. CASE k # s /\ k # o
      <4>1. shown'[o] = shown[o] /\ shown'[s] = shown[s]
        BY <1>0, <3>1, <3>6, <2>1
      <4>. QED
        BY <4>1, <3>2, <3>6, <2>1 DEF o, s
    <3>. QED
      BY <3>4, <3>5, <3>6
  <2>. QED
    BY <2>1, <2>2, <2>3 DEF CounterShown
<1>3. CASE CounterDone
  <2>1. scan' = "between" /\ \A k \in Keys : shown'[k] = 0
    BY <1>3 DEF CounterDone
  <2>2. \A k \in Keys : shown'[k] <= value'[k]
    BY <1>0, <2>1
  <2>. QED
    BY <2>1, <2>2 DEF CounterShown
<1>4. CASE scan # "counter" /\ scan' # "counter" /\ shown' = shown
  BY <1>0, <1>4 DEF CounterShown
<1>5. CASE ScrapeHistogram \/ HistogramDone \/ \E k \in Keys : PrintCell(k) \/ PrintCount(k)
  BY <1>4, <1>5 DEF ScrapeHistogram, HistogramDone, PrintCell, PrintCount
<1>. QED
  BY <1>1, <1>2, <1>3, <1>5 DEF Prints

\* ... and what it has shown of the histogram.
LEMMA HistogramPrinted ==
  ASSUME Base, Accounted, HistogramShown, ScrapeCounter \/ Prints
  PROVE  HistogramShown'
<1>0. UNCHANGED <<count, sum, bucket>>
  BY ScraperAlone DEF histogram
<1>1. CASE ScrapeCounter \/ CounterDone \/ \E k \in Keys : PrintCounter(k)
  <2>1. scan # "histogram" /\ scan' # "histogram" /\ cell' = cell
    BY <1>1 DEF ScrapeCounter, CounterDone, PrintCounter
  <2>. QED
    BY <2>1, Cells DEF HistogramShown
<1>2. CASE ScrapeHistogram \/ \E k \in Keys : PrintCount(k)
  <2>1. scan' = "histogram" /\ cell' = 1
    BY <1>2 DEF ScrapeHistogram, PrintCount
  <2>2. \A i \in 1 .. Les : ~(i < 1)
    BY Cells
  <2>3. ~(1 > Inf) /\ ~(1 > Sum)
    BY Cells
  <2>. QED
    BY <2>1, <2>2, <2>3 DEF HistogramShown
<1>3. CASE HistogramDone
  <2>1. scan' = "nothing" /\ cell' = 0
    BY <1>3 DEF HistogramDone
  <2>. QED
    BY <2>1, Cells DEF HistogramShown
<1>4. CASE \E k \in Keys : PrintCell(k)
  <2>. PICK k \in Keys : PrintCell(k)
    BY <1>4
  <2>1. /\ scan = "histogram" /\ scan' = scan /\ First(k) /\ left' = left /\ cell < Count
        /\ cell' = cell + 1 /\ row' = [row EXCEPT ![cell] = Reading(k, cell)]
    BY DEF PrintCell
  <2>2. cell \in 1 .. Sum /\ cell' > 0
    BY <2>1, Cells DEF HistogramShown, Base, ScraperTypes
  <2>3. row \in [1 .. Sum -> Nat] /\ \A i \in 1 .. Sum : i # cell => row'[i] = row[i]
    BY <2>1 DEF Base, ScraperTypes
  <2>4. row'[cell] = Reading(k, cell)
    BY <2>1, <2>2, <2>3
  <2>5. /\ \A i \in 1 .. Les : i < cell => row[i] <= count[k]
        /\ cell > Inf => row[Inf] <= sum[k]
    BY <2>1, <2>2 DEF HistogramShown
  <2>6. /\ \A i \in 1 .. Les : bucket[k][i] <= count[k]
        /\ count[k] <= sum[k]
    BY PartAndWhole
  <2>7. cell \in 1 .. Les \/ cell = Inf \/ cell = Sum
    BY <2>2, Cells
  <2>8. \A j \in Keys : First(j)' => j = k
    BY <2>1, OneFirst DEF First
  <2>9. CASE cell \in 1 .. Les
    <3>1. row'[cell] <= count[k]
      BY <2>4, <2>6, <2>9, Cells DEF Reading
    <3>2. \A i \in 1 .. Les : i < cell + 1 => row'[i] <= count[k]
      BY <2>3, <2>5, <2>9, <3>1, Cells
    <3>3. ~(cell + 1 > Inf) /\ ~(cell + 1 > Sum)
      BY <2>9, Cells
    <3>. QED
      BY <1>0, <2>1, <2>2, <2>8, <3>2, <3>3 DEF HistogramShown
  <2>10. CASE cell = Inf
    <3>1. row'[Inf] = count[k]
      BY <2>4, <2>10, Cells DEF Reading
    <3>2. \A i \in 1 .. Les : row'[i] <= count[k]
      BY <2>3, <2>5, <2>10, Cells
    <3>3. ~(cell + 1 > Sum)
      BY <2>10, Cells
    <3>. QED
      BY <1>0, <2>1, <2>2, <2>6, <2>8, <3>1, <3>2, <3>3 DEF HistogramShown
  <2>11. CASE cell = Sum
    <3>1. row'[Sum] = sum[k]
      BY <2>4, <2>11 DEF Reading
    <3>2. row'[Inf] = row[Inf] /\ \A i \in 1 .. Les : row'[i] = row[i]
      BY <2>3, <2>11, Cells
    <3>3. cell > Inf
      BY <2>11, Cells
    <3>4. \A i \in 1 .. Les : i < cell /\ row[i] <= row[Inf] /\ row[i] <= count[k]
      BY <2>5, <2>11, <3>3, Cells DEF HistogramShown
    <3>. QED
      BY <1>0, <2>1, <2>2, <2>5, <2>8, <3>1, <3>2, <3>3, <3>4 DEF HistogramShown
  <2>. QED
    BY <2>7, <2>9, <2>10, <2>11
<1>. QED
  BY <1>1, <1>2, <1>3, <1>4 DEF Prints

\* While the scraper stands still, counting goes on, and the bounds hold.
LEMMA ShownWhileCounting ==
  ASSUME Base, CounterShown, HistogramShown, [Next]_vars, UNCHANGED scraper
  PROVE  CounterShown' /\ HistogramShown'
<1>1. UNCHANGED <<scan, left, shown, cell, row>>
  BY DEF scraper
<1>2. shown \in [Keys -> Nat] /\ row \in [1 .. Sum -> Nat]
  BY DEF Base, ScraperTypes
<1>3. \A k \in Keys : shown'[k] <= value'[k]
  <2>. SUFFICES ASSUME NEW k \in Keys PROVE shown[k] <= value'[k]
    BY <1>1
  <2>1. shown[k] <= value[k] /\ shown[k] \in Nat
    BY <1>2 DEF CounterShown
  <2>. QED
    BY <2>1, OnlyGrow
<1>4. CounterShown'
  BY <1>1, <1>3 DEF CounterShown
<1>5. ASSUME NEW k \in Keys, First(k)', cell > 0
      PROVE  /\ \A i \in 1 .. Les : i < cell => row[i] <= count'[k]
             /\ cell > Inf => row[Inf] <= sum'[k]
  <2>1. First(k)
    BY <1>1, <1>5 DEF First
  <2>2. /\ \A i \in 1 .. Les : i < cell => row[i] <= count[k]
        /\ cell > Inf => row[Inf] <= sum[k]
    BY <1>5, <2>1 DEF HistogramShown
  <2>3. \A i \in 1 .. Les : row[i] \in Nat
    BY <1>2, Cells
  <2>4. row[Inf] \in Nat
    BY <1>2, Cells
  <2>5. count[k] <= count'[k] /\ count[k] \in Nat /\ count'[k] \in Nat
    BY OnlyGrow
  <2>6. sum[k] <= sum'[k] /\ sum[k] \in Nat /\ sum'[k] \in Nat
    BY OnlyGrow
  <2>7. \A i \in 1 .. Les : i < cell => row[i] <= count'[k]
    BY <2>2, <2>3, <2>5
  <2>8. cell > Inf => row[Inf] <= sum'[k]
    BY <2>2, <2>4, <2>6
  <2>. QED
    BY <2>7, <2>8
<1>6. HistogramShown'
  BY <1>1, <1>5 DEF HistogramShown
<1>. QED
  BY <1>4, <1>6

Shown == SeriesRight /\ CounterShown /\ HistogramShown

\* Nothing is shown when the program starts, ...
LEMMA ShownInit == Init => Shown
<1>. SUFFICES ASSUME Init PROVE Shown
  OBVIOUS
<1>1. SeriesRight
  BY DEF Init, TelemetryInit, SeriesRight, Started
<1>2. CounterShown
  BY DEF Init, TelemetryInit, CounterShown
<1>3. HistogramShown
  BY Cells DEF Init, TelemetryInit, HistogramShown
<1>. QED
  BY <1>1, <1>2, <1>3 DEF Shown

\* ... and every step keeps what is shown within its bounds.
LEMMA ShownStep == Base /\ Accounted /\ Shown /\ [Next]_vars => Shown'
<1>. SUFFICES ASSUME Base, Accounted, Shown, [Next]_vars PROVE Shown'
  OBVIOUS
<1>1. SeriesRight'
  BY SeriesStep DEF Shown
<1>2. CASE ScrapeCounter \/ Prints
  BY <1>1, <1>2, CounterPrinted, HistogramPrinted DEF Shown
<1>3. CASE UNCHANGED scraper
  BY <1>1, <1>3, ShownWhileCounting DEF Shown
<1>4. \A c \in Calls :
        Begin(c) \/ UpstreamFinished(c) \/ Observe(c) \/ Local(c) \/ Counts(c)
          => UNCHANGED scraper
  <2>1. \A c \in Calls : Begin(c) \/ UpstreamFinished(c) \/ Observe(c) => UNCHANGED scraper
    BY DEF Begin, UpstreamFinished, Observe
  <2>2. \A c \in Calls : Local(c) => UNCHANGED scraper
    BY LocalAlone DEF telemetry
  <2>3. \A c \in Calls : Counts(c) => UNCHANGED scraper
    BY DEF Counts, Find, Lock, Create, Load, Swap, SwapFails, HFind, HLock, HCreate,
           HLoad, HSwap, HSwapFails,
           HCount, HBucket
  <2>. QED
    BY <2>1, <2>2, <2>3
<1>. QED
  BY <1>2, <1>3, <1>4, StepsOfSystem DEF vars, telemetry

\* No scrape shows more successes than starts, nor a bucket above +Inf, nor
\* +Inf above the observations in the sum, however many calls count
\* meanwhile (telemetry/counter.go and histogram.go, collect).
THEOREM ScrapesAreBounded == Spec => []ScrapeBounded
<1>1. Shown => ScrapeBounded
  BY ShownSays DEF Shown
<1>. QED
  BY <1>1, ShownInit, ShownStep, NothingLost, BaseHolds, PTL DEF Spec

-----------------------------------------------------------------------------
(* A call returns after a bounded number of its own steps.                  *)

\* The number of calls.
D == Cardinality(Calls)

\* What a compare-and-swap has read is not above what there is, and no answer
\* has more lines than its bound.
Bounded ==
  /\ \A c \in Calls : at[c] \in {"swap", "hswap"} => seen[c] <= Cell(c)
  /\ \A c \in Calls : Len(lines[c]) <= MaxLines[c]

\* Calls are finitely many, and no cell that is added to shows more than these.
LEMMA NoMoreThanCalls ==
  ASSUME Base, Accounted, NEW c \in Calls
  PROVE  D \in Nat /\ Cell(c) \in Nat /\ Cell(c) <= D
<1>1. \A k : Entered(k) \subseteq Calls /\ Additions(k) \subseteq Calls
  BY DEF Entered, Additions
<1>2. on[c] \in Keys
  BY DEF Base, MetricTypes
<1>3. /\ value[on[c]] = Cardinality(Entered(on[c]))
      /\ sum[on[c]] = Cardinality(Additions(on[c]))
  BY <1>2 DEF Accounted
<1>. QED
  BY <1>1, <1>3, FewerCalls DEF Cell, D

\* Nor does it after a step.
LEMMA NoMoreThanCallsThen ==
  ASSUME Base', Accounted', NEW c \in Calls
  PROVE  Cell(c)' \in Nat /\ Cell(c)' <= D
<1>1. \A k : Entered(k)' \subseteq Calls /\ Additions(k)' \subseteq Calls
  BY DEF Entered, Additions
<1>2. on'[c] \in Keys
  BY DEF Base, MetricTypes
<1>3. \A k : /\ Cardinality(Entered(k)') <= Cardinality(Calls)
             /\ Cardinality(Additions(k)') <= Cardinality(Calls)
             /\ Cardinality(Entered(k)') \in Nat /\ Cardinality(Additions(k)') \in Nat
  BY <1>1, FewerCalls
<1>4. /\ value'[on'[c]] = Cardinality(Entered(on[c])')
      /\ sum'[on'[c]] = Cardinality(Additions(on[c])')
  BY <1>2 DEF Accounted
<1>. QED
  BY <1>3, <1>4 DEF Cell, D

\* The cell that a call is at grows as long as the call stays there.
LEMMA CellGrows ==
  ASSUME Base, [Next]_vars, NEW c \in Calls, at'[c] = at[c], on'[c] = on[c]
  PROVE  Cell(c) <= Cell(c)' /\ Cell(c) \in Nat /\ Cell(c)' \in Nat
<1>1. on[c] \in Keys
  BY DEF Base, MetricTypes
<1>. QED
  BY <1>1, OnlyGrow DEF Cell

\* The steps left in the metrics, as numbers.
LEMMA MetricLeftIs ==
  ASSUME D \in Nat, NEW v \in Nat, NEW s \in Nat, NEW b \in Nat
  PROVE  /\ MetricLeft("find", v, s, b) = 2 * D + 5
         /\ MetricLeft("lock", v, s, b) = 2 * D + 4
         /\ MetricLeft("create", v, s, b) = 2 * D + 3
         /\ MetricLeft("load", v, s, b) = 2 * (D - v) + 2
         /\ MetricLeft("swap", v, s, b) = 2 * (D - s) + 1
         /\ MetricLeft("hfind", v, s, b) = 2 * D + Les + 6
         /\ MetricLeft("hlock", v, s, b) = 2 * D + Les + 5
         /\ MetricLeft("hcreate", v, s, b) = 2 * D + Les + 4
         /\ MetricLeft("hload", v, s, b) = 2 * (D - v) + Les + 3
         /\ MetricLeft("hswap", v, s, b) = 2 * (D - s) + Les + 2
         /\ MetricLeft("hcount", v, s, b) = Les + 1
         /\ MetricLeft("hbucket", v, s, b) = Les + 1 - b
         /\ MetricLeft("idle", v, s, b) = 0
BY Constants DEF MetricLeft, AddSteps, ObserveSteps, D

\* The steps left between them.
LEMMA StationLeftIs ==
  ASSUME D \in Nat, NEW n \in Nat
  PROVE  /\ StationLeft("idle", n) = 6 * D + Les + n + 24
         /\ StationLeft("post", n) = 4 * D + Les + n + 18
         /\ StationLeft("read", n) = 4 * D + Les + n + 17
         /\ StationLeft("drain", n) = 4 * D + Les + n + 16
         /\ StationLeft("wrap", n) = 4 * D + Les + 15
         /\ StationLeft("finish", n) = 4 * D + Les + 14
         /\ StationLeft("observe", n) = 2 * D + Les + 8
         /\ StationLeft("rest", n) = 1
         /\ StationLeft("done", n) = 0
BY Constants DEF StationLeft, AddSteps, ObserveSteps, D

\* A step of a call is one of four kinds.
LEMMA MovesAre ==
  ASSUME NEW c, Moves(c)
  PROVE  \/ Begin(c) \/ UpstreamFinished(c) \/ Observe(c)
         \/ Local(c)
         \/ Counts(c) /\ UNCHANGED calls
BY DEF Moves, Advances, Local

\* A call changes no other's place in its metrics, and no other's lines.
LEMMA OthersAside ==
  ASSUME Base, NEW c \in Calls, NEW d \in Calls, d # c, Moves(c)
  PROVE  /\ pc'[d] = pc[d] /\ at'[d] = at[d] /\ le'[d] = le[d]
         /\ on'[d] = on[d] /\ seen'[d] = seen[d] /\ lines'[d] = lines[d]
<1>. USE DEF Base, MetricTypes, CallTypes
<1>1. pc'[d] = pc[d] /\ at'[d] = at[d] /\ le'[d] = le[d]
  BY MovesAre, OthersUntouched
<1>2. CASE Begin(c) \/ UpstreamFinished(c) \/ Observe(c)
  BY <1>1, <1>2 DEF Begin, UpstreamFinished, Observe, BeginAdd, BeginObserve
<1>3. CASE Local(c)
  <2>1. on' = on /\ seen' = seen
    BY <1>3, LocalAlone DEF telemetry, process
  <2>2. lines' = lines \/ \E k : Receive(c, k)
    BY <1>3 DEF Local, Serves, Reject, PostFails, Cut, WrapFails, Wrap, Rest, HttpError, Respond,
                ReadAudio, ReadSilent, ReadBroken, ReadGarbled, ReadError, ReadFinal, Drain,
                NoAudio,
                StreamEnds, Fail, Finish
  <2>3. lines'[d] = lines[d]
    BY <2>2 DEF Receive
  <2>. QED
    BY <1>1, <2>1, <2>3
<1>4. CASE Counts(c) /\ UNCHANGED calls
  <2>1. lines' = lines
    BY <1>4 DEF calls
  <2>2. on'[d] = on[d] /\ seen'[d] = seen[d]
    BY <1>4 DEF Counts, Find, Lock, Create, Load, Swap, SwapFails, HFind, HLock, HCreate,
                HLoad, HSwap, HSwapFails,
                HCount, HBucket
  <2>. QED
    BY <1>1, <2>1, <2>2
<1>. QED
  BY <1>2, <1>3, <1>4, MovesAre

\* The scraper touches no call.
LEMMA ScraperAside ==
  ASSUME ((ScrapeCounter \/ Prints) /\ UNCHANGED calls) \/ UNCHANGED vars
  PROVE  UNCHANGED <<pc, at, le, on, seen, lines, value, sum>>
BY ScraperAlone DEF vars, calls, telemetry, process, counter, histogram

\* Every step is of a call, of the scraper, or none.
LEMMA MovesOrScrapes ==
  ASSUME [Next]_vars
  PROVE  \/ \E c \in Calls : Moves(c)
         \/ (ScrapeCounter \/ Prints) /\ UNCHANGED calls
         \/ UNCHANGED vars
BY DEF Next, Moves

\* What a call has read and received itself stays in its bounds.
LEMMA OwnBounds ==
  ASSUME Base, Bounded, [Next]_vars, NEW c \in Calls, Moves(c)
  PROVE  /\ at'[c] \in {"swap", "hswap"} => seen'[c] <= Cell(c)'
         /\ Len(lines'[c]) <= MaxLines[c]
<1>. USE DEF Base, MetricTypes, CallTypes
<1>1. MaxLines[c] \in Nat
  BY SynthesisAssumption DEF SynthesisAssumption
<1>2. Len(lines[c]) <= MaxLines[c]
  BY DEF Bounded
<1>3. at'[c] \in {"swap", "hswap"} => seen'[c] <= Cell(c)'
  <2>1. CASE Begin(c) \/ UpstreamFinished(c) \/ Observe(c)
    BY <2>1 DEF Begin, UpstreamFinished, Observe, BeginAdd, BeginObserve
  <2>2. CASE Local(c)
    BY <2>2, LocalAlone DEF telemetry, process, counter, histogram, Bounded, Cell
  <2>3. CASE Load(c) \/ HLoad(c)
    BY <2>3 DEF Load, HLoad, counter, histogram, Cell
  <2>4. CASE Counts(c) /\ ~Load(c) /\ ~HLoad(c)
    BY <2>4 DEF Counts, Find, Lock, Create, Swap, SwapFails, HFind, HLock, HCreate,
                HSwap, HSwapFails, HCount, HBucket
  <2>. QED
    BY <2>1, <2>2, <2>3, <2>4, MovesAre
<1>4. Len(lines'[c]) <= MaxLines[c]
  <2>1. CASE Begin(c) \/ UpstreamFinished(c) \/ Observe(c)
    <3>1. lines' = lines \/ lines' = [lines EXCEPT ![c] = <<>>]
      BY <2>1 DEF Begin, UpstreamFinished, Observe
    <3>. QED
      BY <1>1, <1>2, <3>1
  <2>2. CASE Local(c)
    <3>1. lines' = lines \/ \E k : Receive(c, k)
      BY <2>2 DEF Local, Serves, Reject, PostFails, Cut, WrapFails, Wrap, Rest, HttpError,
                  Respond, ReadAudio, ReadSilent, ReadBroken, ReadGarbled, ReadError, ReadFinal,
                  Drain,
                  NoAudio, StreamEnds, Fail, Finish
    <3>2. ASSUME NEW k, Receive(c, k) PROVE Len(lines'[c]) <= MaxLines[c]
      <4>1. Len(lines[c]) < MaxLines[c] /\ lines'[c] = Append(lines[c], k)
        BY <3>2 DEF Receive
      <4>2. Len(lines'[c]) = Len(lines[c]) + 1 /\ Len(lines[c]) \in Nat
        BY <4>1
      <4>. QED
        BY <1>1, <4>1, <4>2
    <3>. QED
      BY <1>2, <3>1, <3>2
  <2>3. CASE Counts(c) /\ UNCHANGED calls
    BY <1>2, <2>3 DEF calls
  <2>. QED
    BY <2>1, <2>2, <2>3, MovesAre
<1>. QED
  BY <1>3, <1>4

\* The bounds hold at first, ...
LEMMA BoundedInit == Init => Bounded
BY SynthesisAssumption DEF Init, TelemetryInit, Bounded, SynthesisAssumption

\* ... and every step keeps them: the children only grow.
LEMMA BoundedStep == Base /\ Bounded /\ [Next]_vars => Bounded'
<1>. SUFFICES ASSUME Base, Bounded, [Next]_vars, NEW d \in Calls
              PROVE  /\ at'[d] \in {"swap", "hswap"} => seen'[d] <= Cell(d)'
                     /\ Len(lines'[d]) <= MaxLines[d]
  BY DEF Bounded
<1>1. CASE Moves(d)
  BY <1>1, OwnBounds
<1>2. CASE UNCHANGED <<pc, at, le, on, seen, lines, value, sum>>
  BY <1>2 DEF Bounded, Cell
<1>3. CASE \E c \in Calls \ {d} : Moves(c)
  <2>1. at'[d] = at[d] /\ on'[d] = on[d] /\ seen'[d] = seen[d] /\ lines'[d] = lines[d]
    BY <1>3, OthersAside
  <2>2. seen[d] \in Nat
    BY DEF Base, MetricTypes
  <2>3. Cell(d) <= Cell(d)' /\ Cell(d) \in Nat /\ Cell(d)' \in Nat
    BY <2>1, CellGrows
  <2>. QED
    BY <2>1, <2>2, <2>3 DEF Bounded
<1>. QED
  BY <1>1, <1>2, <1>3, MovesOrScrapes, ScraperAside

\* What is left for a call, as a function of where it is.
Left(station, coming, step, v, s, b) == StationLeft(station, coming) + MetricLeft(step, v, s, b)

\* It is a number where the bounds hold, ...
LEMMA LeftType ==
  ASSUME D \in Nat, NEW p \in Stations, NEW n \in Nat, NEW a \in Steps,
         NEW v \in 0 .. D, NEW s \in Nat, NEW b \in 0 .. Les, a \in {"swap", "hswap"} => s <= D
  PROVE  Left(p, n, a, v, s, b) \in Nat
<1>0. v \in Nat /\ b \in Nat /\ Les \in Nat
  BY Constants
<1>1. MetricLeft(a, v, s, b) \in Nat
  <2>1. D - v \in Nat /\ Les + 1 - b \in Nat
    BY <1>0
  <2>2. /\ MetricLeft("find", v, s, b) = 2 * D + 5
        /\ MetricLeft("lock", v, s, b) = 2 * D + 4
        /\ MetricLeft("create", v, s, b) = 2 * D + 3
        /\ MetricLeft("load", v, s, b) = 2 * (D - v) + 2
        /\ MetricLeft("swap", v, s, b) = 2 * (D - s) + 1
    BY <1>0, MetricLeftIs
  <2>3. /\ MetricLeft("hfind", v, s, b) = 2 * D + Les + 6
        /\ MetricLeft("hlock", v, s, b) = 2 * D + Les + 5
        /\ MetricLeft("hcreate", v, s, b) = 2 * D + Les + 4
        /\ MetricLeft("hload", v, s, b) = 2 * (D - v) + Les + 3
        /\ MetricLeft("hswap", v, s, b) = 2 * (D - s) + Les + 2
    BY <1>0, MetricLeftIs
  <2>4. /\ MetricLeft("hcount", v, s, b) = Les + 1
        /\ MetricLeft("hbucket", v, s, b) = Les + 1 - b
        /\ MetricLeft("idle", v, s, b) = 0
    BY <1>0, MetricLeftIs
  <2>5. CASE a \in {"swap", "hswap"}
    <3>1. D - s \in Nat
      BY <2>5
    <3>2. 2 * (D - s) + 1 \in Nat /\ 2 * (D - s) + Les + 2 \in Nat
      BY <1>0, <3>1
    <3>. QED
      BY ONLY <2>2, <2>3, <2>5, <3>2
  <2>6. CASE a \in {"find", "lock", "create", "load"}
    <3>1. 2 * D + 5 \in Nat /\ 2 * D + 4 \in Nat /\ 2 * D + 3 \in Nat /\ 2 * (D - v) + 2 \in Nat
      BY <1>0, <2>1
    <3>. QED
      BY ONLY <2>2, <2>6, <3>1
  <2>7. CASE a \in {"hfind", "hlock", "hcreate", "hload"}
    <3>1. /\ 2 * D + Les + 6 \in Nat /\ 2 * D + Les + 5 \in Nat /\ 2 * D + Les + 4 \in Nat
          /\ 2 * (D - v) + Les + 3 \in Nat
      BY <1>0, <2>1
    <3>. QED
      BY ONLY <2>3, <2>7, <3>1
  <2>8. CASE a \in {"hcount", "hbucket", "idle"}
    <3>1. Les + 1 \in Nat /\ 0 \in Nat
      BY ONLY <1>0
    <3>. QED
      BY ONLY <2>1, <2>4, <2>8, <3>1
  <2>. QED
    BY <2>5, <2>6, <2>7, <2>8 DEF Steps
<1>2. StationLeft(p, n) \in Nat
  BY StationLeftIs, Constants DEF Stations
<1>. QED
  BY <1>1, <1>2 DEF Left

\* ... and a value that grows meanwhile leaves no more to do.
LEMMA LeftShrinks ==
  ASSUME D \in Nat, NEW p \in Stations, NEW n \in Nat, NEW a \in Steps,
         NEW v \in 0 .. D, NEW w \in v .. D, NEW s \in Nat, NEW b \in 0 .. Les
  PROVE  Left(p, n, a, w, s, b) <= Left(p, n, a, v, s, b)
<1>0. w \in Nat /\ v \in Nat /\ v <= w /\ w <= D /\ b \in Nat /\ Les \in Nat
  BY Constants
<1>1. /\ MetricLeft(a, v, s, b) \in Int /\ MetricLeft(a, w, s, b) \in Int
      /\ MetricLeft(a, w, s, b) <= MetricLeft(a, v, s, b)
  <2>0. /\ 2 * (D - w) + 2 \in Int /\ 2 * (D - v) + 2 \in Int
        /\ 2 * (D - w) + 2 <= 2 * (D - v) + 2
        /\ 2 * (D - w) + Les + 3 \in Int /\ 2 * (D - v) + Les + 3 \in Int
        /\ 2 * (D - w) + Les + 3 <= 2 * (D - v) + Les + 3
    BY <1>0
  <2>1. CASE a = "load" \/ a = "hload"
    <3>0. \A x \in Nat : /\ MetricLeft("load", x, s, b) = 2 * (D - x) + 2
                          /\ MetricLeft("hload", x, s, b) = 2 * (D - x) + Les + 3
      BY <1>0, MetricLeftIs
    <3>1. CASE a = "load"
      <4>1. MetricLeft(a, v, s, b) = 2 * (D - v) + 2 /\ MetricLeft(a, w, s, b) = 2 * (D - w) + 2
        BY ONLY <1>0, <3>0, <3>1
      <4>. QED
        BY ONLY <2>0, <4>1
    <3>2. CASE a = "hload"
      <4>1. /\ MetricLeft(a, v, s, b) = 2 * (D - v) + Les + 3
            /\ MetricLeft(a, w, s, b) = 2 * (D - w) + Les + 3
        BY ONLY <1>0, <3>0, <3>2
      <4>. QED
        BY ONLY <2>0, <4>1
    <3>. QED
      BY <2>1, <3>1, <3>2
  <2>2. CASE a # "load" /\ a # "hload"
    <3>1. MetricLeft(a, w, s, b) = MetricLeft(a, v, s, b)
      BY <2>2 DEF MetricLeft
    <3>2. MetricLeft(a, v, s, b) \in Int
      BY <1>0, MetricLeftIs DEF Steps
    <3>. QED
      BY <3>1, <3>2
  <2>. QED
    BY <2>1, <2>2
<1>2. StationLeft(p, n) \in Nat
  BY <1>0, StationLeftIs DEF Stations
<1>. QED
  BY <1>1, <1>2 DEF Left

\* A call that goes from one station to the next, outside its metrics.
LEMMA StationStep ==
  ASSUME D \in Nat, NEW n \in Nat, NEW m \in Nat, NEW p, NEW q,
         NEW v \in Nat, NEW w \in Nat, NEW s \in Nat, NEW r \in Nat, NEW b \in Nat, NEW e \in Nat,
         \/ p \in {"post", "read", "drain", "wrap"} /\ q = "finish"
         \/ p = "post" /\ q = "read" /\ m = n
         \/ p \in {"read", "drain"} /\ (q = p \/ q = "drain") /\ m < n
         \/ p \in {"read", "drain"} /\ q = "wrap"
         \/ p = "rest" /\ q = "done"
  PROVE  Left(q, m, "idle", w, r, e) < Left(p, n, "idle", v, s, b)
<1>1. MetricLeft("idle", w, r, e) = 0 /\ MetricLeft("idle", v, s, b) = 0
  BY MetricLeftIs
<1>2. StationLeft(q, m) < StationLeft(p, n) /\ StationLeft(q, m) \in Nat /\ StationLeft(p, n) \in Nat
  BY StationLeftIs, Constants
<1>. QED
  BY <1>1, <1>2 DEF Left

\* A call that begins with a metric.
LEMMA MetricBegins ==
  ASSUME D \in Nat, NEW n \in Nat, NEW m \in Nat, NEW p, NEW q, NEW a,
         NEW v \in Nat, NEW w \in Nat, NEW s \in Nat, NEW r \in Nat, NEW b \in Nat, NEW e \in Nat,
         \/ p = "idle" /\ q = "post" /\ m = n /\ a = "find"
         \/ p = "finish" /\ q = "observe" /\ a = "find"
         \/ p = "observe" /\ q = "rest" /\ a = "hfind"
  PROVE  Left(q, m, a, w, r, e) < Left(p, n, "idle", v, s, b)
<1>1. /\ MetricLeft("idle", v, s, b) = 0
      /\ MetricLeft("find", w, r, e) = 2 * D + 5
      /\ MetricLeft("hfind", w, r, e) = 2 * D + Les + 6
  BY MetricLeftIs
<1>2. /\ StationLeft("idle", n) = 6 * D + Les + n + 24 /\ StationLeft("post", n) = 4 * D + Les + n + 18
      /\ StationLeft("finish", n) = 4 * D + Les + 14 /\ StationLeft("observe", n) = 2 * D + Les + 8
      /\ StationLeft("observe", m) = 2 * D + Les + 8 /\ StationLeft("rest", m) = 1
  BY StationLeftIs
<1>. QED
  BY <1>1, <1>2, Constants DEF Left

\* The ways from a step inside Add or Observe to the next; a compare-and-swap
\* that fails has read a value that has grown since.
Onward(a, z, v, w, s, r, b, e) ==
  \/ a = "find" /\ z \in {"lock", "load"}
  \/ a = "lock" /\ z = "create"
  \/ a = "create" /\ z = "load"
  \/ a = "load" /\ z = "swap" /\ r = v
  \/ a = "swap" /\ z = "idle" /\ s <= D
  \/ a = "swap" /\ z = "load" /\ s < w /\ s <= D
  \/ a = "hfind" /\ z \in {"hlock", "hload"}
  \/ a = "hlock" /\ z = "hcreate"
  \/ a = "hcreate" /\ z = "hload"
  \/ a = "hload" /\ z = "hswap" /\ r = v
  \/ a = "hswap" /\ z = "hcount" /\ s <= D
  \/ a = "hswap" /\ z = "hload" /\ s < w /\ s <= D
  \/ a = "hcount" /\ z = "hbucket" /\ e = 1
  \/ a = "hbucket" /\ z = "hbucket" /\ e = b + 1
  \/ a = "hbucket" /\ z = "idle"

\* A call that goes on in a metric has less to do.
LEMMA MetricStep ==
  ASSUME D \in Nat, NEW p \in Stations, NEW n \in Nat, NEW a, NEW z,
         NEW v \in 0 .. D, NEW w \in 0 .. D, NEW s \in Nat, NEW r \in Nat,
         NEW b \in 0 .. Les, NEW e \in 0 .. Les, Onward(a, z, v, w, s, r, b, e)
  PROVE  Left(p, n, z, w, r, e) < Left(p, n, a, v, s, b)
<1>0. w \in Nat /\ v \in Nat /\ b \in Nat /\ e \in Nat /\ Les \in Nat
  BY Constants
<1>1. /\ MetricLeft(a, v, s, b) \in Int /\ MetricLeft(z, w, r, e) \in Int
      /\ MetricLeft(z, w, r, e) < MetricLeft(a, v, s, b)
  BY <1>0 DEF MetricLeft, AddSteps, ObserveSteps, D, Onward
<1>2. StationLeft(p, n) \in Nat
  BY <1>0, StationLeftIs DEF Stations
<1>. QED
  BY <1>1, <1>2 DEF Left

\* What is left for a call, as it is now and after a step.
LEMMA ToGoIs ==
  ASSUME Base, Accounted, Bounded, Base', Accounted', Bounded', NEW c \in Calls
  PROVE  /\ D \in Nat
         /\ MaxLines[c] - Len(lines[c]) \in Nat /\ MaxLines[c] - Len(lines'[c]) \in Nat
         /\ Cell(c) \in 0 .. D /\ Cell(c)' \in 0 .. D
         /\ seen[c] \in Nat /\ seen'[c] \in Nat
         /\ le[c] \in 0 .. Les /\ le'[c] \in 0 .. Les
         /\ pc[c] \in Stations /\ pc'[c] \in Stations /\ at[c] \in Steps /\ at'[c] \in Steps
         /\ at[c] \in {"swap", "hswap"} => seen[c] <= D
         /\ at'[c] \in {"swap", "hswap"} => seen'[c] <= D
         /\ ToGo(c) = Left(pc[c], MaxLines[c] - Len(lines[c]), at[c], Cell(c), seen[c], le[c])
         /\ ToGo(c)' = Left(pc'[c], MaxLines[c] - Len(lines'[c]), at'[c], Cell(c)', seen'[c],
                            le'[c])
<1>. USE DEF Base, MetricTypes, CallTypes
<1>2. /\ D \in Nat /\ Cell(c) <= D /\ Cell(c) \in Nat
      /\ Cell(c)' <= D /\ Cell(c)' \in Nat
  BY NoMoreThanCalls, NoMoreThanCallsThen
<1>3. MaxLines[c] - Len(lines[c]) \in Nat /\ MaxLines[c] - Len(lines'[c]) \in Nat
  <2>1. MaxLines[c] \in Nat
    BY SynthesisAssumption DEF SynthesisAssumption
  <2>2. Len(lines[c]) \in Nat /\ Len(lines'[c]) \in Nat
    <3>1. lines[c] \in Seq(Kinds) /\ lines'[c] \in Seq(Kinds)
      OBVIOUS
    <3>2. \A t \in Seq(Kinds) : Len(t) \in Nat
      BY ONLY TRUE
    <3>. QED
      BY ONLY <3>1, <3>2
  <2>3. Len(lines[c]) <= MaxLines[c] /\ Len(lines'[c]) <= MaxLines[c]
    BY DEF Bounded
  <2>4. \A m, x \in Nat : x <= m => m - x \in Nat
    OBVIOUS
  <2>. QED
    BY ONLY <2>1, <2>2, <2>3, <2>4
<1>4. /\ at[c] \in {"swap", "hswap"} => seen[c] <= Cell(c)
      /\ at'[c] \in {"swap", "hswap"} => seen'[c] <= Cell(c)'
  BY DEF Bounded
<1>5. /\ ToGo(c) = Left(pc[c], MaxLines[c] - Len(lines[c]), at[c], Cell(c), seen[c], le[c])
      /\ ToGo(c)' = Left(pc'[c], MaxLines[c] - Len(lines'[c]), at'[c], Cell(c)', seen'[c],
                         le'[c])
  BY DEF ToGo, Left
<1>6. /\ seen[c] \in Nat /\ seen'[c] \in Nat /\ le[c] \in 0 .. Les /\ le'[c] \in 0 .. Les
      /\ pc[c] \in Stations /\ pc'[c] \in Stations /\ at[c] \in Steps /\ at'[c] \in Steps
  OBVIOUS
<1>7. /\ at[c] \in {"swap", "hswap"} => seen[c] <= D
      /\ at'[c] \in {"swap", "hswap"} => seen'[c] <= D
  <2>1. \A i, j, k \in Nat : i <= j /\ j <= k => i <= k
    OBVIOUS
  <2>. QED
    BY ONLY <1>2, <1>4, <1>6, <2>1
<1>8. Cell(c) \in 0 .. D /\ Cell(c)' \in 0 .. D
  BY ONLY <1>2
<1>. QED
  BY ONLY <1>2, <1>3, <1>5, <1>6, <1>7, <1>8

\* What a step of a call outside its metrics does to its place and its lines.
LEMMA LocalPlaces ==
  ASSUME Base, NEW c \in Calls, Local(c)
  PROVE  /\ at[c] = "idle" /\ at'[c] = "idle"
         /\ \/ pc[c] \in {"post", "read", "drain", "wrap"} /\ pc'[c] = "finish"
            \/ pc[c] = "post" /\ pc'[c] = "read" /\ lines' = lines
            \/ /\ pc[c] \in {"read", "drain"} /\ (pc'[c] = pc[c] \/ pc'[c] = "drain")
               /\ \E k \in Kinds : Receive(c, k)
            \/ pc[c] \in {"read", "drain"} /\ pc'[c] = "wrap"
            \/ pc[c] = "rest" /\ pc'[c] = "done"
<1>1. at' = at
  BY LocalAlone DEF telemetry, process
<1>2. CASE Reject(c) \/ PostFails(c) \/ Cut(c) \/ WrapFails(c) \/ Wrap(c) \/ HttpError(c)
           \/ ReadGarbled(c) \/ ReadError(c) \/ NoAudio(c)
  <2>1. \E s, n : Finish(c, s, n)
    BY <1>2 DEF Reject, PostFails, Cut, WrapFails, Wrap, HttpError, ReadGarbled, ReadError,
                NoAudio, Fail
  <2>2. pc[c] \in {"post", "read", "drain", "wrap"}
    BY <1>2 DEF Reject, PostFails, Cut, WrapFails, Wrap, HttpError, ReadGarbled, ReadError,
                NoAudio
  <2>3. pc'[c] = "finish" /\ at[c] = "idle"
    BY <2>1 DEF Finish, Base, CallTypes
  <2>. QED
    BY <1>1, <2>2, <2>3
<1>3. CASE Respond(c)
  BY <1>1, <1>3 DEF Respond, Base, CallTypes
<1>4. CASE Rest(c)
  BY <1>1, <1>4 DEF Rest, Base, CallTypes
<1>5. CASE StreamEnds(c)
  BY <1>1, <1>5, IdleOutside DEF StreamEnds, Base, CallTypes
<1>6. CASE ReadAudio(c) \/ ReadSilent(c) \/ ReadBroken(c) \/ ReadFinal(c) \/ Drain(c)
  <2>1. pc[c] \in {"read", "drain"} /\ (pc'[c] = pc[c] \/ pc'[c] = "drain")
    BY <1>6 DEF ReadAudio, ReadSilent, ReadBroken, ReadFinal, Drain, Base, CallTypes
  <2>2. \E k \in Kinds : Receive(c, k)
    BY <1>6 DEF ReadAudio, ReadSilent, ReadBroken, ReadFinal, Drain, Kinds
  <2>3. at[c] = "idle"
    BY <2>1, IdleOutside
  <2>. QED
    BY <1>1, <2>1, <2>2, <2>3
<1>. QED
  BY <1>2, <1>3, <1>4, <1>5, <1>6 DEF Local, Serves

\* What a step inside Add or Observe does to the place of its call.
LEMMA MetricPlaces ==
  ASSUME Base, Accounted, Bounded, NEW c \in Calls, Counts(c), UNCHANGED calls
  PROVE  /\ pc'[c] = pc[c] /\ lines'[c] = lines[c]
         /\ Onward(at[c], at'[c], Cell(c), Cell(c)', seen[c], seen'[c], le[c], le'[c])
<1>. USE DEF Base, MetricTypes, Onward
<1>1. pc'[c] = pc[c] /\ lines'[c] = lines[c]
  BY DEF calls
<1>2. CASE Find(c) \/ Lock(c) \/ Create(c)
  BY <1>1, <1>2 DEF Find, Lock, Create
<1>0. /\ at[c] \in {"swap", "hswap"} => seen[c] <= Cell(c)
      /\ D \in Nat /\ Cell(c) <= D /\ Cell(c) \in Nat /\ seen[c] \in Nat
  BY NoMoreThanCalls DEF Bounded
<1>3. CASE Load(c) \/ HLoad(c)
  BY <1>1, <1>3 DEF Load, HLoad, Cell
<1>4. CASE Swap(c) \/ HSwap(c)
  <2>1. seen[c] <= D
    BY <1>0, <1>4 DEF Swap, HSwap
  <2>. QED
    BY <1>1, <1>4, <2>1 DEF Swap, HSwap
<1>5. CASE SwapFails(c) \/ HSwapFails(c)
  <2>1. /\ \/ at[c] = "swap" /\ at'[c] = "load"
           \/ at[c] = "hswap" /\ at'[c] = "hload"
        /\ Cell(c) # seen[c] /\ Cell(c)' = Cell(c)
    BY <1>5 DEF SwapFails, HSwapFails, Cell, counter, histogram
  <2>2. seen[c] < Cell(c)' /\ seen[c] <= D
    BY <1>0, <2>1
  <2>. QED
    BY <1>1, <2>1, <2>2
<1>8. CASE HFind(c) \/ HLock(c) \/ HCreate(c)
  BY <1>1, <1>8 DEF HFind, HLock, HCreate
<1>6. CASE HCount(c)
  BY <1>1, <1>6 DEF HCount
<1>7. CASE HBucket(c)
  BY <1>1, <1>7 DEF HBucket
<1>. QED
  BY <1>2, <1>3, <1>4, <1>5, <1>6, <1>7, <1>8 DEF Counts

\* A step of a call brings it nearer to its end, ...
LEMMA OwnStep ==
  ASSUME Base, Accounted, Bounded, Base', Accounted', Bounded', NEW c \in Calls, Moves(c)
  PROVE  ToGo(c)' < ToGo(c)
<1>. DEFINE n == MaxLines[c] - Len(lines[c])
            m == MaxLines[c] - Len(lines'[c])
            v == Cell(c)
            w == Cell(c)'
<1>1. /\ D \in Nat /\ n \in Nat /\ m \in Nat /\ v \in 0 .. D /\ w \in 0 .. D
      /\ seen[c] \in Nat /\ seen'[c] \in Nat /\ le[c] \in 0 .. Les /\ le'[c] \in 0 .. Les
      /\ pc[c] \in Stations /\ pc'[c] \in Stations
      /\ at[c] \in {"swap", "hswap"} => seen[c] <= D
      /\ ToGo(c) = Left(pc[c], n, at[c], v, seen[c], le[c])
      /\ ToGo(c)' = Left(pc'[c], m, at'[c], w, seen'[c], le'[c])
  BY ToGoIs
<1>2. v \in Nat /\ w \in Nat /\ le[c] \in Nat /\ le'[c] \in Nat
  BY <1>1, Constants
<1>3. ASSUME lines'[c] = lines[c] PROVE m = n
  BY <1>3
<1>4. ASSUME NEW k \in Kinds, Receive(c, k) PROVE m < n
  <2>1. lines'[c] = Append(lines[c], k) /\ lines[c] \in Seq(Kinds)
    BY <1>4 DEF Receive, Base, CallTypes
  <2>2. Len(lines'[c]) = Len(lines[c]) + 1 /\ Len(lines[c]) \in Nat
    BY <2>1
  <2>3. MaxLines[c] \in Nat
    BY SynthesisAssumption DEF SynthesisAssumption
  <2>. QED
    BY <2>2, <2>3
<1>. HIDE DEF n, m, v, w
<1>5. CASE Begin(c) \/ UpstreamFinished(c) \/ Observe(c)
  <2>1. /\ at[c] = "idle"
        /\ \/ pc[c] = "idle" /\ pc'[c] = "post" /\ at'[c] = "find" /\ lines' = lines
           \/ pc[c] = "finish" /\ pc'[c] = "observe" /\ at'[c] = "find"
           \/ pc[c] = "observe" /\ pc'[c] = "rest" /\ at'[c] = "hfind"
    <3>. USE DEF BeginAdd, BeginObserve, Base, MetricTypes, CallTypes
    <3>1. CASE Begin(c)
      BY <3>1 DEF Begin
    <3>2. CASE UpstreamFinished(c)
      BY <3>2 DEF UpstreamFinished
    <3>3. CASE Observe(c)
      BY <3>3 DEF Observe
    <3>. QED
      BY ONLY <1>5, <3>1, <3>2, <3>3
  <2>2. Left(pc'[c], m, at'[c], w, seen'[c], le'[c]) < Left(pc[c], n, "idle", v, seen[c], le[c])
    BY <1>1, <1>2, <1>3, <2>1, MetricBegins
  <2>. QED
    BY <1>1, <2>1, <2>2
<1>6. CASE Local(c)
  <2>1. at[c] = "idle" /\ at'[c] = "idle"
    BY <1>6, LocalPlaces
  <2>2. \/ pc[c] \in {"post", "read", "drain", "wrap"} /\ pc'[c] = "finish"
        \/ pc[c] = "post" /\ pc'[c] = "read" /\ m = n
        \/ pc[c] \in {"read", "drain"} /\ (pc'[c] = pc[c] \/ pc'[c] = "drain") /\ m < n
        \/ pc[c] \in {"read", "drain"} /\ pc'[c] = "wrap"
        \/ pc[c] = "rest" /\ pc'[c] = "done"
    BY <1>3, <1>4, <1>6, LocalPlaces
  <2>3. Left(pc'[c], m, "idle", w, seen'[c], le'[c]) < Left(pc[c], n, "idle", v, seen[c], le[c])
    BY <1>1, <1>2, <2>2, StationStep
  <2>. QED
    BY <1>1, <2>1, <2>3
<1>7. CASE Counts(c) /\ UNCHANGED calls
  <2>1. pc'[c] = pc[c] /\ m = n
    BY <1>3, <1>7, MetricPlaces
  <2>2. Left(pc[c], n, at'[c], w, seen'[c], le'[c]) < Left(pc[c], n, at[c], v, seen[c], le[c])
    <3>1. Onward(at[c], at'[c], v, w, seen[c], seen'[c], le[c], le'[c])
      BY <1>7, MetricPlaces DEF v, w
    <3>. QED
      BY <1>1, <3>1, MetricStep
  <2>. QED
    BY <1>1, <2>1, <2>2
<1>. QED
  BY <1>5, <1>6, <1>7, MovesAre

\* ... and no other step takes it away from there.
LEMMA AnyStep ==
  ASSUME Base, Accounted, Bounded, Base', Accounted', Bounded', [Next]_vars, NEW d \in Calls
  PROVE  ToGo(d)' \in Nat /\ ToGo(d)' <= ToGo(d)
<1>. DEFINE n == MaxLines[d] - Len(lines[d])
            m == MaxLines[d] - Len(lines'[d])
            v == Cell(d)
            w == Cell(d)'
<1>1. /\ D \in Nat /\ n \in Nat /\ m \in Nat /\ v \in 0 .. D /\ w \in 0 .. D
      /\ seen[d] \in Nat /\ seen'[d] \in Nat /\ le[d] \in 0 .. Les /\ le'[d] \in 0 .. Les
      /\ pc[d] \in Stations /\ pc'[d] \in Stations /\ at[d] \in Steps /\ at'[d] \in Steps
      /\ at[d] \in {"swap", "hswap"} => seen[d] <= D
      /\ at'[d] \in {"swap", "hswap"} => seen'[d] <= D
      /\ ToGo(d) = Left(pc[d], n, at[d], v, seen[d], le[d])
      /\ ToGo(d)' = Left(pc'[d], m, at'[d], w, seen'[d], le'[d])
  BY ToGoIs
<1>2. ToGo(d) \in Nat /\ ToGo(d)' \in Nat
  <2>. HIDE DEF n, m, v, w
  <2>1. Left(pc[d], n, at[d], v, seen[d], le[d]) \in Nat
    BY <1>1, LeftType
  <2>2. Left(pc'[d], m, at'[d], w, seen'[d], le'[d]) \in Nat
    BY <1>1, LeftType
  <2>. QED
    BY <1>1, <2>1, <2>2
<1>3. ToGo(d)' <= ToGo(d)
  <2>1. CASE Moves(d)
    BY <1>2, <2>1, OwnStep
  <2>2. ASSUME /\ pc'[d] = pc[d] /\ at'[d] = at[d] /\ le'[d] = le[d]
               /\ on'[d] = on[d] /\ seen'[d] = seen[d] /\ lines'[d] = lines[d]
        PROVE  ToGo(d)' <= ToGo(d)
    <3>2. m = n /\ v <= w
      BY <2>2, CellGrows
    <3>. HIDE DEF n, m, v, w
    <3>3. w \in v .. D
      BY <1>1, <3>2
    <3>4. Left(pc[d], n, at[d], w, seen[d], le[d]) <= Left(pc[d], n, at[d], v, seen[d], le[d])
      BY <1>1, <3>3, LeftShrinks
    <3>. QED
      BY <1>1, <2>2, <3>2, <3>4
  <2>3. CASE \E c \in Calls \ {d} : Moves(c)
    BY <2>2, <2>3, OthersAside
  <2>4. CASE UNCHANGED <<pc, at, le, on, seen, lines, value, sum>>
    BY <2>2, <2>4
  <2>. QED
    BY <2>1, <2>3, <2>4, MovesOrScrapes, ScraperAside
<1>. QED
  BY <1>2, <1>3

\* However many calls and scrapes run, a call returns after a bounded number
\* of its own steps: the retries of the two compare-and-swaps come to an end, and
\* no step of another call or of a scrape adds to what it has left to do
\* (telemetry/counter.go and histogram.go; adapter/volcano/synthesis.go).
THEOREM CallsComeToAnEnd == Spec => Nearing
<1>. DEFINE All == Base /\ Accounted /\ Bounded
<1>1. All /\ [Next]_vars => All'
  BY BaseStep, AccountedStep, BoundedStep
<1>2. All /\ All' /\ [Next]_vars => [Nearer]_vars
  BY AnyStep, OwnStep DEF Nearer
<1>3. Init => All
  BY BaseInit, AccountedInit, BoundedInit
<1>. HIDE DEF All
<1>. QED
  BY <1>1, <1>2, <1>3, PTL DEF Spec, Nearing

=============================================================================
