------------------------------ MODULE Synthesis ------------------------------
(***************************************************************************)
(* Calls of the upstream speech service and what they leave in the         *)
(* metrics.  A call asks for one text in one format, posts it, reads the   *)
(* answer line by line, assembles the audio, and counts itself at the      *)
(* start and at the end; calls run concurrently and share the metrics,     *)
(* which a scraper prints at any time.                                     *)
(*                                                                         *)
(* A line of the answer is one of                                          *)
(*   "audio"    an event "sentence" or "" whose data decode,               *)
(*   "garbled"  one whose data are no base64,                              *)
(*   "silent"   an empty line, a sentence's mark, a subtitle, an unknown   *)
(*              event, a sentence without data,                            *)
(*   "broken"   a line that is no JSON, whatever it was meant to be,       *)
(*   "error"    a line with a code other than 0 and 20000000,              *)
(*   "final"    the line with code 20000000, "charged" when it carries the *)
(*              usage.                                                     *)
(* Audio is the set of the numbers of the lines it was taken from.         *)
(*                                                                         *)
(* Of the metrics that a call leaves, tts_upstream_total and               *)
(* tts_upstream_duration_seconds are the two families of Telemetry; the    *)
(* others are counted in one step, Rest.  The model and the speaker are    *)
(* the same for all calls, so a key is a status and a format.              *)
(*                                                                         *)
(* A definition introduced as a mutant is no part of the specification.    *)
(***************************************************************************)
EXTENDS Telemetry, Sequences

CONSTANTS
  ClientFormat,  \* the format that each call's client asks for
  HttpCodes,     \* the status codes other than 200 of the service
  HttpStatus,    \* the status that a call with one of them is counted under
  StreamCodes,   \* the codes of its error lines
  MaxLines       \* bound on the lines of the answer to each call

Formats  == {"mp3", "ogg_opus", "pcm"}
Errors   == {"request_error", "stream_error", "transport_error", "wrap_error"}
Outcomes == {"ok"} \cup Errors \cup {HttpStatus[n] : n \in HttpCodes}
Labels   == {"client", "server", "transport", "upstream"}

\* What the service is asked for: wav is made from pcm, and what it does not
\* know is replaced by mp3.
UpstreamFormat == [c \in Calls |->
  IF ClientFormat[c] = "wav" THEN "pcm"
  ELSE IF ClientFormat[c] \in Formats THEN ClientFormat[c] ELSE "mp3"]

\* The formats that a key can have.
Asked == {UpstreamFormat[c] : c \in Calls}

\* Go compares the statuses as strings: "ok" comes before "started".
ASSUME SynthesisAssumption ==
  /\ Keys = ({"started"} \cup Outcomes) \X Asked
  /\ \A f \in Asked : Rank[<<"ok", f>>] < Rank[<<"started", f>>]
  /\ ClientFormat \in [Calls -> {"mp3", "wav", "ogg_opus", "pcm", "aac", "flac", "opus"}]
  /\ HttpCodes \subseteq Nat \ {0, 200}
  /\ \A n \in HttpCodes : HttpStatus[n] \notin {"none", "started", "ok"} \cup Errors
  /\ \A m, n \in HttpCodes : HttpStatus[m] = HttpStatus[n] => m = n
  /\ StreamCodes \subseteq Nat \ {0, 20000000}
  /\ MaxLines \in [Calls -> Nat]

VARIABLES
  pc,       \* each call's next step
  audio,    \* the lines it has taken audio from
  charged,  \* whether the service has reported the usage
  status,   \* how it has ended
  code,     \* the code it has ended with
  answer,   \* what it returns
  errors,   \* tts_upstream_errors_total
  usage,    \* tts_usage_text_words_total: the calls that it counts
  \* --- history
  lines,    \* the lines that the service has sent
  ended     \* how the answer has ended

calls == <<pc, audio, charged, status, code, answer, errors, usage, lines, ended>>
vars  == <<calls, telemetry>>

NoAnswer == [format |-> "none", encoding |-> "none", header |-> FALSE, audio |-> {}]

\* Mutant: the client is told what the service was asked for.
FinalFormatUpstream(c) == UpstreamFormat[c]

\* The format of what is returned.
FinalFormat(c) == IF ClientFormat[c] = "wav" THEN "wav" ELSE UpstreamFormat[c]

\* The family of an error code.
CodeLabel(n) ==
  IF n = 0 THEN "transport"
  ELSE IF n \in 400 .. 499 THEN "client"
  ELSE IF n \in 500 .. 599 THEN "server" ELSE "upstream"

-----------------------------------------------------------------------------

\* Mutant: the call is counted under the format that its client asks for.
BeginAsAsked(c) ==
  /\ pc[c] = "idle"
  /\ BeginAdd(c, <<"started", ClientFormat[c]>>)
  /\ pc' = [pc EXCEPT ![c] = "post"]
  /\ UNCHANGED <<audio, charged, status, code, answer, errors, usage, lines, ended>>
  /\ UNCHANGED <<seen, le, counter, histogram, scraper>>

\* UpstreamStarted.
Begin(c) ==
  /\ pc[c] = "idle"
  /\ BeginAdd(c, <<"started", UpstreamFormat[c]>>)
  /\ pc' = [pc EXCEPT ![c] = "post"]
  /\ UNCHANGED <<audio, charged, status, code, answer, errors, usage, lines, ended>>
  /\ UNCHANGED <<seen, le, counter, histogram, scraper>>

\* The call is over but for its metrics.
Finish(c, s, n) ==
  /\ at[c] = "idle"
  /\ pc' = [pc EXCEPT ![c] = "finish"]
  /\ status' = [status EXCEPT ![c] = s]
  /\ code' = [code EXCEPT ![c] = n]
  /\ audio' = [audio EXCEPT ![c] = {}]
  /\ UNCHANGED <<charged, errors, telemetry>>

Fail(c, s, n) == Finish(c, s, n) /\ UNCHANGED <<answer, usage>>

\* A text, a speaker, a resource or an API key is missing.
Reject(c) ==
  /\ pc[c] = "post"
  /\ Fail(c, "request_error", 0)
  /\ UNCHANGED <<lines, ended>>

\* The service cannot be reached, or has not answered when the time is over.
PostFails(c) ==
  /\ pc[c] = "post"
  /\ Fail(c, "transport_error", 0)
  /\ UNCHANGED <<lines, ended>>

HttpError(c) ==
  /\ pc[c] = "post"
  /\ \E n \in HttpCodes : Fail(c, HttpStatus[n], n)
  /\ UNCHANGED <<lines, ended>>

Respond(c) ==
  /\ pc[c] = "post"
  /\ at[c] = "idle"
  /\ pc' = [pc EXCEPT ![c] = "read"]
  /\ UNCHANGED <<audio, charged, status, code, answer, errors, usage, lines, ended>>
  /\ UNCHANGED telemetry

-----------------------------------------------------------------------------
(* ParseStream.                                                            *)

Receive(c, kind) ==
  /\ Len(lines[c]) < MaxLines[c]
  /\ lines' = [lines EXCEPT ![c] = Append(@, kind)]

ReadAudio(c) ==
  /\ pc[c] = "read"
  /\ Receive(c, "audio")
  /\ audio' = [audio EXCEPT ![c] = @ \cup {Len(lines'[c])}]
  /\ UNCHANGED <<pc, charged, status, code, answer, errors, usage, ended, telemetry>>

\* Mutant: the data of a subtitle are taken for audio.
ReadSilentAsAudio(c) ==
  /\ pc[c] = "read"
  /\ Receive(c, "silent")
  /\ audio' = [audio EXCEPT ![c] = @ \cup {Len(lines'[c])}]
  /\ UNCHANGED <<pc, charged, status, code, answer, errors, usage, ended, telemetry>>

ReadSilent(c) ==
  /\ pc[c] = "read"
  /\ Receive(c, "silent")
  /\ UNCHANGED <<pc, audio, charged, status, code, answer, errors, usage, ended>>
  /\ UNCHANGED telemetry

\* A line that is no JSON is logged at most, and skipped.
ReadBroken(c) ==
  /\ pc[c] = "read"
  /\ Receive(c, "broken")
  /\ UNCHANGED <<pc, audio, charged, status, code, answer, errors, usage, ended>>
  /\ UNCHANGED telemetry

ReadGarbled(c) ==
  /\ pc[c] = "read"
  /\ Receive(c, "garbled")
  /\ Fail(c, "stream_error", 0)
  /\ UNCHANGED ended

ReadError(c) ==
  /\ pc[c] = "read"
  /\ Receive(c, "error")
  /\ \E n \in StreamCodes : Fail(c, "stream_error", n)
  /\ UNCHANGED ended

ReadFinal(c) ==
  /\ pc[c] = "read"
  /\ \E kind \in {"final", "charged"} :
       /\ Receive(c, kind)
       /\ charged' = [charged EXCEPT ![c] = (kind = "charged")]
  /\ pc' = [pc EXCEPT ![c] = "drain"]
  /\ UNCHANGED <<audio, status, code, answer, errors, usage, ended, telemetry>>

\* What follows the final line is read and thrown away.
Drain(c) ==
  /\ pc[c] = "drain"
  /\ \E kind \in {"audio", "error"} : Receive(c, kind)
  /\ UNCHANGED <<pc, audio, charged, status, code, answer, errors, usage, ended>>
  /\ UNCHANGED telemetry

\* Mutant: a read that fails after some audio is taken for the end.
CutUnnoticed(c) ==
  /\ pc[c] \in {"read", "drain"}
  /\ ended' = [ended EXCEPT ![c] = "cut"]
  /\ \/ audio[c] = {} /\ Fail(c, "stream_error", 0)
     \/ /\ audio[c] # {}
        /\ pc' = [pc EXCEPT ![c] = "wrap"]
        /\ UNCHANGED <<audio, charged, status, code, answer, errors, usage, telemetry>>
  /\ UNCHANGED lines

\* Mutant: the deadline does not reach the loop that empties the answer.
CutReadOnly(c) ==
  /\ pc[c] = "read"
  /\ ended' = [ended EXCEPT ![c] = "cut"]
  /\ Fail(c, "stream_error", 0)
  /\ UNCHANGED lines

\* The connection breaks, a line is too long, or the time is over.
Cut(c) ==
  /\ pc[c] \in {"read", "drain"}
  /\ ended' = [ended EXCEPT ![c] = "cut"]
  /\ Fail(c, "stream_error", 0)
  /\ UNCHANGED lines

NoAudio(c) ==
  /\ pc[c] \in {"read", "drain"}
  /\ audio[c] = {}
  /\ ended' = [ended EXCEPT ![c] = "end"]
  /\ Fail(c, "stream_error", 0)
  /\ UNCHANGED lines

StreamEnds(c) ==
  /\ pc[c] \in {"read", "drain"}
  /\ audio[c] # {}
  /\ ended' = [ended EXCEPT ![c] = "end"]
  /\ pc' = [pc EXCEPT ![c] = "wrap"]
  /\ UNCHANGED <<audio, charged, status, code, answer, errors, usage, lines, telemetry>>

-----------------------------------------------------------------------------

\* There is no WAV header for a sample rate that is not positive.
WrapFails(c) ==
  /\ pc[c] = "wrap"
  /\ ClientFormat[c] = "wav"
  /\ Fail(c, "wrap_error", 0)
  /\ UNCHANGED <<lines, ended>>

Wrap(c) ==
  /\ pc[c] = "wrap"
  /\ answer' = [answer EXCEPT ![c] =
       [format |-> FinalFormat(c), encoding |-> UpstreamFormat[c],
        header |-> ClientFormat[c] = "wav", audio |-> audio[c]]]
  /\ usage' = IF charged[c] THEN usage \cup {c} ELSE usage
  /\ Finish(c, "ok", 0)
  /\ UNCHANGED <<lines, ended>>

\* UpstreamFinished begins, with the counter.  What the call returns, and the
\* history that AnswerWhole compares with it, are dropped.
UpstreamFinished(c) ==
  /\ pc[c] = "finish"
  /\ BeginAdd(c, <<status[c], UpstreamFormat[c]>>)
  /\ pc' = [pc EXCEPT ![c] = "observe"]
  /\ answer' = [answer EXCEPT ![c] = NoAnswer]
  /\ lines' = [lines EXCEPT ![c] = <<>>]
  /\ ended' = [ended EXCEPT ![c] = "open"]
  /\ UNCHANGED <<audio, charged, status, code, errors, usage>>
  /\ UNCHANGED <<seen, le, counter, histogram, scraper>>

\* It goes on with the duration...
Observe(c) ==
  /\ pc[c] = "observe"
  /\ BeginObserve(c, <<status[c], UpstreamFormat[c]>>)
  /\ pc' = [pc EXCEPT ![c] = "rest"]
  /\ UNCHANGED <<audio, charged, status, code, answer, errors, usage, lines, ended>>
  /\ UNCHANGED <<seen, le, counter, histogram, scraper>>

\* Mutant: an error without a code is not counted.
RestCodeOnly(c) ==
  /\ pc[c] = "rest"
  /\ at[c] = "idle"
  /\ errors' = IF code[c] # 0 THEN [errors EXCEPT ![CodeLabel(code[c])] = @ + 1] ELSE errors
  /\ pc' = [pc EXCEPT ![c] = "done"]
  /\ UNCHANGED <<audio, charged, status, code, answer, usage, lines, ended, telemetry>>

\* ... and with the metrics that have a step of their own here: the time to
\* the first chunk, the chunks and the bytes of a call that got to its end,
\* and the errors.  Then the call returns.
Rest(c) ==
  /\ pc[c] = "rest"
  /\ at[c] = "idle"
  /\ errors' = IF status[c] # "ok" THEN [errors EXCEPT ![CodeLabel(code[c])] = @ + 1] ELSE errors
  /\ pc' = [pc EXCEPT ![c] = "done"]
  /\ UNCHANGED <<audio, charged, status, code, answer, usage, lines, ended, telemetry>>

-----------------------------------------------------------------------------

Init ==
  /\ TelemetryInit
  /\ pc      = [c \in Calls |-> "idle"]
  /\ audio   = [c \in Calls |-> {}]
  /\ charged = [c \in Calls |-> FALSE]
  /\ status  = [c \in Calls |-> "none"]
  /\ code    = [c \in Calls |-> 0]
  /\ answer  = [c \in Calls |-> NoAnswer]
  /\ errors  = [l \in Labels |-> 0]
  /\ usage   = {}
  /\ lines   = [c \in Calls |-> <<>>]
  /\ ended   = [c \in Calls |-> "open"]

\* The steps that a call takes of itself, or that its deadline makes it take.
Advances(c) ==
  \/ Reject(c) \/ PostFails(c) \/ Cut(c)
  \/ WrapFails(c) \/ Wrap(c) \/ UpstreamFinished(c) \/ Observe(c) \/ Rest(c)

\* What the service sends.
Serves(c) ==
  \/ HttpError(c) \/ Respond(c)
  \/ ReadAudio(c) \/ ReadSilent(c) \/ ReadBroken(c) \/ ReadGarbled(c) \/ ReadError(c)
  \/ ReadFinal(c) \/ Drain(c) \/ NoAudio(c) \/ StreamEnds(c)

Next ==
  \/ \E c \in Calls :
       \/ Begin(c) \/ Advances(c) \/ Serves(c)
       \/ Counts(c) /\ UNCHANGED calls
  \/ (ScrapeCounter \/ Prints) /\ UNCHANGED calls

Spec == Init /\ [][Next]_vars

\* A call that has begun and has not returned.
InFlight(c) == pc[c] \notin {"idle", "done"}

\* The process runs, the deadline of a call passes, and a scraper that does
\* not read is cut off by the server's write timeout.
Fairness ==
  /\ \A c \in Calls :
       WF_vars(InFlight(c) /\ ((Counts(c) /\ UNCHANGED calls) \/ Advances(c)))
  /\ WF_vars(scan # "nothing" /\ Prints /\ UNCHANGED calls)

FairSpec == Spec /\ Fairness

-----------------------------------------------------------------------------
(* Properties.                                                             *)

Kinds    == {"audio", "silent", "broken", "garbled", "error", "final", "charged"}
Stations == {"idle", "post", "read", "drain", "wrap", "finish", "observe", "rest", "done"}
Steps    == {"idle", "find", "lock", "create", "load", "swap",
             "hfind", "hlock", "hcreate", "hload", "hswap", "hcount", "hbucket"}

TypeOK ==
  /\ at \in [Calls -> Steps] /\ on \in [Calls -> Keys]
  /\ seen \in [Calls -> Nat]
  /\ le \in [Calls -> 0 .. Les]
  /\ series \subseteq Keys /\ value \in [Keys -> Nat]
  /\ hseries \subseteq Keys /\ sum \in [Keys -> Nat]
  /\ count \in [Keys -> Nat] /\ bucket \in [Keys -> [1 .. Les -> Nat]]
  /\ scan \in {"nothing", "counter", "between", "histogram"} /\ left \subseteq Keys
  /\ shown \in [Keys -> Nat] /\ cell \in 0 .. Count /\ row \in [1 .. Sum -> Nat]
  /\ pc \in [Calls -> Stations] /\ audio \in [Calls -> SUBSET Nat]
  /\ charged \in [Calls -> BOOLEAN]
  /\ status \in [Calls -> Outcomes \cup {"none"}] /\ code \in [Calls -> Nat]
  /\ answer \in [Calls -> [format : Formats \cup {"wav", "none"}, encoding : Formats \cup {"none"},
                           header : BOOLEAN, audio : SUBSET Nat]]
  /\ errors \in [Labels -> Nat] /\ usage \subseteq Calls
  /\ lines \in [Calls -> Seq(Kinds)] /\ ended \in [Calls -> {"open", "end", "cut"}]

\* The lines of an answer before its final line.
Body(c) == {i \in 1 .. Len(lines[c]) :
              \A j \in 1 .. i : lines[c][j] \notin {"final", "charged"}}

\* What the lines before the final one hold.
Voiced(c)  == {i \in Body(c) : lines[c][i] = "audio"}
Flawed(c)  == \E i \in Body(c) : lines[c][i] \in {"garbled", "error"}

\* A call returns audio exactly when the service's answer was read to its
\* end, and up to the final line had audio and neither data that do not decode
\* nor an error; then it is all of the audio up to there that could be read,
\* and nothing else, and in the format that the client is told.  An answer that
\* is cut off, be it behind its final line, is an error; one with lines that are
\* no JSON is not: they are passed over like lines without audio, also when it
\* was a frame of audio that came broken (adapter/volcano/response.go,
\* ParseStream).
AnswerWhole == \A c \in Calls : pc[c] = "finish" =>
  /\ status[c] \in {"ok", "wrap_error"} => ended[c] = "end" /\ ~Flawed(c) /\ Voiced(c) # {}
  /\ status[c] = "stream_error" => ended[c] = "cut" \/ Flawed(c) \/ Voiced(c) = {}
  /\ status[c] = "ok" =>
       /\ answer[c].audio = Voiced(c)
       /\ answer[c].header = (answer[c].format = "wav")
       /\ answer[c].encoding = IF answer[c].header THEN "pcm" ELSE answer[c].format
  /\ status[c] # "ok" => answer[c] = NoAnswer

\* Where a call has got to with its metrics: it has been counted as started,
\* counted under its outcome, added to the sum, to the count, to bucket i.
Started(c)     == pc[c] # "idle" /\ ~(pc[c] = "post" /\ at[c] # "idle")
Counted(c)     == pc[c] \in {"rest", "done"} \/ (pc[c] = "observe" /\ at[c] = "idle")
Summed(c)      == pc[c] = "done" \/ (pc[c] = "rest" /\ at[c] \in {"hcount", "hbucket", "idle"})
Observed(c)    == pc[c] = "done" \/ (pc[c] = "rest" /\ at[c] \in {"hbucket", "idle"})
Bucketed(c, i) == Latency[c] <= i /\ Observed(c) /\ (at[c] = "hbucket" => i < le[c])

\* The key that a call ends under.
Outcome(c) == <<status[c], UpstreamFormat[c]>>

Entered(k)   == {c \in Calls : \/ Started(c) /\ k = <<"started", UpstreamFormat[c]>>
                               \/ Counted(c) /\ k = Outcome(c)}
Additions(k) == {c \in Calls : Summed(c) /\ k = Outcome(c)}
Durations(k) == {c \in Calls : Observed(c) /\ k = Outcome(c)}
Within(k, i) == {c \in Calls : Bucketed(c, i) /\ k = Outcome(c)}
Failures(l)  == {c \in Calls : pc[c] = "done" /\ status[c] # "ok" /\ CodeLabel(code[c]) = l}

\* No update of a metric is lost or made twice, whatever calls and scrapes
\* run at the same time: each counter, and each cell of the histogram, tells
\* the calls that have got so far, every failure is an error of some family,
\* also one without a code, and only a call that returns audio is charged for
\* (telemetry/counter.go, histogram.go; metrics/metrics.go).
Accounted ==
  /\ \A k \in Keys :
       /\ value[k] = Cardinality(Entered(k))
       /\ sum[k] = Cardinality(Additions(k))
       /\ count[k] = Cardinality(Durations(k))
       /\ \A i \in 1 .. Les : bucket[k][i] = Cardinality(Within(k, i))
  /\ \A l \in Labels : errors[l] = Cardinality(Failures(l))
  /\ usage = {c \in Calls : status[c] = "ok" /\ charged[c]}

\* What a scrape prints while calls go on counting is of different instants,
\* but no bucket exceeds the +Inf bucket, nor that one the observations in the
\* sum, and there are no more successes than calls that
\* have started (telemetry/counter.go and histogram.go, collect).
ScrapeBounded ==
  /\ scan = "counter" => \A f \in Asked :
       <<"started", f>> \in left \/ shown[<<"ok", f>>] <= shown[<<"started", f>>]
  /\ cell > Inf   => \A i \in 1 .. Les : row[i] <= row[Inf]
  /\ cell > Sum   => row[Inf] <= row[Sum]

\* tts_upstream_total, with its map, its lock and its compare-and-swap, is as
\* good as a ledger in which calls are entered in single steps.
Book == INSTANCE Ledger WITH
  total    <- value,
  stage    <- [c \in Calls |-> IF Counted(c) THEN "finished"
                               ELSE IF Started(c) THEN "started" ELSE "not started"],
  Formats  <- Asked,
  FormatOf <- UpstreamFormat

CountsCalls == Book!LSpec

\* The cell that a call's next step is about to read or to change.
Cell(c) == IF at[c] \in {"hload", "hswap"} THEN sum[on[c]] ELSE value[on[c]]

\* The most steps that a call can still take: inside Add and Observe, where a
\* retry needs a cell that has grown since it was read, ...
AddSteps     == 2 * Cardinality(Calls) + 6
ObserveSteps == 2 * Cardinality(Calls) + Les + 7

MetricLeft(step, current, read, next) ==
  CASE step = "find"    -> AddSteps - 1
    [] step = "lock"    -> AddSteps - 2
    [] step = "create"  -> AddSteps - 3
    [] step = "load"    -> 2 * (Cardinality(Calls) - current) + 2
    [] step = "swap"    -> 2 * (Cardinality(Calls) - read) + 1
    [] step = "hfind"   -> ObserveSteps - 1
    [] step = "hlock"   -> ObserveSteps - 2
    [] step = "hcreate" -> ObserveSteps - 3
    [] step = "hload"   -> 2 * (Cardinality(Calls) - current) + Les + 3
    [] step = "hswap"   -> 2 * (Cardinality(Calls) - read) + Les + 2
    [] step = "hcount"  -> Les + 1
    [] step = "hbucket" -> Les + 1 - next
    [] step = "idle"    -> 0

\* ... and between these, one for each station and each line to come.
StationLeft(station, coming) ==
  LET over == AddSteps + ObserveSteps + 1 IN
  CASE station = "idle"    -> over + coming + 4 + AddSteps
    [] station = "post"    -> over + coming + 4
    [] station = "read"    -> over + coming + 3
    [] station = "drain"   -> over + coming + 2
    [] station = "wrap"    -> over + 1
    [] station = "finish"  -> over
    [] station = "observe" -> ObserveSteps + 1
    [] station = "rest"    -> 1
    [] station = "done"    -> 0

ToGo(c) == StationLeft(pc[c], MaxLines[c] - Len(lines[c]))
           + MetricLeft(at[c], Cell(c), seen[c], le[c])

Moves(c) == Begin(c) \/ Advances(c) \/ Serves(c) \/ (Counts(c) /\ UNCHANGED calls)

\* No call has more left to do after a step than before, and one that has made
\* the step itself has less.
Nearer == \A c \in Calls : /\ ToGo(c)' \in Nat
                           /\ ToGo(c)' <= ToGo(c)
                           /\ Moves(c) => ToGo(c)' < ToGo(c)

\* Whatever calls and scrapes run, a call returns after a bounded number of its
\* own steps: each of them, a compare-and-swap that fails included, brings it
\* nearer to its end, and no step of another call or of a scrape takes it away
\* from there (telemetry/counter.go, the loop of Add; histogram.go, that of
\* Observe; adapter/volcano/synthesis.go).
Nearing == [][Nearer]_vars

\* Every call that begins returns: no lock that a scrape or another call
\* holds, no retry and no service that falls silent keeps it for good.  A call
\* is made once, so this is so when there is always a time to come when none
\* is in flight.
Finishes == []<>(\A c \in Calls : ~InFlight(c))

=============================================================================
