---------------------------- MODULE SpeechProofs ----------------------------
(***************************************************************************)
(* Proofs about Speech, for every number of requests, administrators and   *)
(* voices and any overlap of them: the types, that a voice which has been  *)
(* switched off stays silent, and that the service keeps its keys also     *)
(* beside the requests and the switches.                                   *)
(***************************************************************************)
EXTENDS Speech, EffectProofs

\* The administrators' part of a step is a step of RuntimeConfig.
LEMMA StepsOfConfig ==
  ASSUME [SpeechNext]_all
  PROVE  [Next]_vars
BY DEF SpeechNext, Administer, Next, Request, Arrive, CorsAll, CorsList, Authenticate, Check,
       ReadFormat, ReadOptions, LookUp, LookUpFails, Synthesise, Reads, Reply,
       Toggle, Switch, SwitchFind, SwitchRow, SwitchFails, Switched, Over, all

\* The configuration keeps its invariant beside the requests and the switches.
LEMMA ConfigInductive == SpeechSpec => []IInv
<1>1. SpeechInit => IInv
  BY InvariantInit DEF SpeechInit
<1>2. IInv /\ [SpeechNext]_all => IInv'
  BY StepsOfConfig, InvariantStep
<1>. QED
  BY <1>1, <1>2, PTL DEF SpeechSpec

-----------------------------------------------------------------------------
(* Rows of the voices table.                                               *)

\* A row has one name, and those that are switched on are rows.
RowsRight ==
  /\ \A m, n \in Names : voices[m] = voices[n] /\ voices[m] # 0 => m = n
  /\ enabled \subseteq {voices[n] : n \in Names} \ {0}

\* A voice is created on a row that is free, or deleted, or none is.
VoicesMove ==
  \/ voices' = voices
  \/ \E n \in Names, r \in 1 .. MaxRows :
       /\ voices[n] = 0 /\ \A m \in Names : voices[m] # r
       /\ voices' = [voices EXCEPT ![n] = r]
  \/ \E n \in Names : voices' = [voices EXCEPT ![n] = 0]

\* This is what an admin request does to the table.
LEMMA AdminVoices ==
  ASSUME IInv, NEW h \in Handlers, Admit(h) \/ Handle(h)
  PROVE  VoicesMove
<1>1. CASE InsertVoice(h)
  <2>1. job[h].name \in Names
    BY <1>1, VoiceJob DEF InsertVoice, IInv, HandlersOK
  <2>2. CASE voices[job[h].name] # 0
    BY <1>1, <2>2 DEF InsertVoice, tables, VoicesMove
  <2>3. CASE voices[job[h].name] = 0
    <3>. DEFINE r == CHOOSE r \in FreeRows : TRUE
    <3>1. r \in FreeRows /\ voices' = [voices EXCEPT ![job[h].name] = r]
      BY <1>1, <2>3 DEF InsertVoice
    <3>2. r \in 1 .. MaxRows /\ \A m \in Names : voices[m] # r
      BY <3>1 DEF FreeRows
    <3>. HIDE DEF r
    <3>. QED
      BY <2>1, <2>3, <3>1, <3>2 DEF VoicesMove
  <2>. QED
    BY <2>2, <2>3
<1>2. CASE DeleteVoice(h)
  <2>1. job[h].name \in Names
    BY <1>2, VoiceJob DEF DeleteVoice, IInv, HandlersOK, Fits
  <2>. QED
    BY <1>2, <2>1 DEF DeleteVoice, VoicesMove
<1>3. CASE UNCHANGED voices
  BY <1>3 DEF VoicesMove
<1>4. (Admit(h) \/ Handle(h)) /\ ~InsertVoice(h) /\ ~DeleteVoice(h) => UNCHANGED voices
  BY DEF Admit, Handle, Fail, FindDefault, WriteOptions, LoadSettings, LoadVoice, LoadRate,
         SetOptions, ClearErr, WriteAuth, SetAuth, WriteAdmin, ReadAuth, ClearAdmin, SetAdmin,
         WriteCors, ReadAll, ReadOrigins, SetCors, FindVoice, GetVoice, ReadDefault, Silent, tables
<1>. QED
  BY <1>1, <1>2, <1>3, <1>4

\* No two voices get the same row.
LEMMA OneNamePerRow ==
  ASSUME voices \in [Names -> Rows], VoicesMove,
         \A m, n \in Names : voices[m] = voices[n] /\ voices[m] # 0 => m = n
  PROVE  \A m, n \in Names : voices'[m] = voices'[n] /\ voices'[m] # 0 => m = n
<1>1. CASE voices' = voices
  BY <1>1
<1>2. CASE \E n \in Names, r \in 1 .. MaxRows :
             /\ voices[n] = 0 /\ \A m \in Names : voices[m] # r
             /\ voices' = [voices EXCEPT ![n] = r]
  BY <1>2
<1>3. CASE \E n \in Names : voices' = [voices EXCEPT ![n] = 0]
  BY <1>3
<1>. QED
  BY <1>1, <1>2, <1>3 DEF VoicesMove

\* A row that is still there has kept its name.
LEMMA RowKeepsName ==
  ASSUME voices \in [Names -> Rows], VoicesMove,
         \A m, n \in Names : voices[m] = voices[n] /\ voices[m] # 0 => m = n,
         NEW m \in Names, voices[m] # 0, voices[m] \in {voices'[n] : n \in Names}
  PROVE  voices'[m] = voices[m]
<1>. PICK k \in Names : voices'[k] = voices[m]
  OBVIOUS
<1>1. CASE voices' = voices
  BY <1>1
<1>2. CASE \E n \in Names, r \in 1 .. MaxRows :
             /\ voices[n] = 0 /\ \A j \in Names : voices[j] # r
             /\ voices' = [voices EXCEPT ![n] = r]
  BY <1>2
<1>3. CASE \E n \in Names : voices' = [voices EXCEPT ![n] = 0]
  BY <1>3
<1>. QED
  BY <1>1, <1>2, <1>3 DEF VoicesMove

-----------------------------------------------------------------------------
(* The types.                                                              *)

SinceType == [conf : Values, rate : Values, row : Rows, key : KeyOrNone, cors : CorsType]

RequestTypes ==
  /\ spc \in [Requests -> SpeechAnswers \cup SpeechSteps]
  /\ req \in [Requests -> SpeechRequests]
  /\ format \in [Requests -> Values \cup {None}]
  /\ opts \in [Requests -> OptsType]
  /\ \A s \in Requests : spc[s] = "voice" => req[s].voice \in Names

ToggleTypes ==
  /\ tpc \in [Togglers -> Answers \cup {"find", "switch"}]
  /\ want \in [Togglers -> [name : Names \cup {None}, on : BOOLEAN]]
  /\ trow \in [Togglers -> Rows]
  /\ switches \in 0 .. MaxSwitches
  /\ \A t \in Togglers : tpc[t] \in {"find", "switch"} => want[t].name \in Names

HistoryTypes ==
  /\ since \in [Requests -> SUBSET SinceType]
  /\ muted \subseteq Names
  /\ unheard \in [Requests -> BOOLEAN]
  /\ silent \in BOOLEAN

Types == RequestTypes /\ ToggleTypes /\ HistoryTypes

\* What is in force can be recorded.
LEMMA InForceType == TypeOK => InForce \in SinceType
<1>. SUFFICES ASSUME TypeOK PROVE InForce \in SinceType
  OBVIOUS
<1>1. db.conf \in Values /\ db.rate \in Values /\ db.def \in Names /\ AuthOf(db) \in KeyOrNone
  BY ConfigAssumption DEF TypeOK, Settings, AuthOf, KeyOrNone
<1>2. voices[db.def] \in Rows /\ cors \in CorsType
  BY <1>1 DEF TypeOK
<1>. QED
  BY <1>1, <1>2 DEF InForce, SinceType

\* A request that is gone leaves nothing.
LEMMA NothingLeft ==
  /\ NoRequest \in SpeechRequests /\ NoOpts \in OptsType
  /\ NoSwitch \in [name : Names \cup {None}, on : BOOLEAN]
  /\ 0 \in Rows
BY ConfigAssumption DEF NoRequest, SpeechRequests, NoOpts, OptsType, NoSwitch, Rows, KeyOrNone

\* Neither does its answer spoil a type.
LEMMA ReplyTypes ==
  ASSUME Types, NEW s \in Requests, NEW a \in SpeechAnswers, Reply(s, a)
  PROVE  Types'
<1>1. RequestTypes'
  BY NothingLeft DEF Reply, Step, Types, RequestTypes, SpeechAnswers
<1>2. ToggleTypes'
  BY DEF Reply, Types, ToggleTypes, toggler
<1>3. HistoryTypes'
  BY DEF Reply, Types, HistoryTypes
<1>. QED
  BY <1>1, <1>2, <1>3 DEF Types

\* A request that goes on without reading keeps the types.
LEMMA StepTypes ==
  ASSUME Types, NEW s \in Requests, NEW p \in SpeechSteps \ {"voice"}, Step(s, p),
         UNCHANGED <<format, opts>>, Reads(s)
  PROVE  Types'
BY DEF Step, Reads, Types, RequestTypes, ToggleTypes, HistoryTypes, toggler, history

\* A request that names no voice does not look for one.
LEMMA StepNames ==
  ASSUME Types, NEW s \in Requests, NEW p \in SpeechSteps, Step(s, p), req' = req,
         p = "voice" => req[s].voice \in Names
  PROVE  /\ spc' \in [Requests -> SpeechAnswers \cup SpeechSteps]
         /\ req' \in [Requests -> SpeechRequests]
         /\ \A q \in Requests : spc'[q] = "voice" => req'[q].voice \in Names
BY DEF Step, Types, RequestTypes

\* The model of a row is given by a row.
LEMMA ModelType ==
  ASSUME NEW r \in Rows, NEW d \in Rows
  PROVE  ModelOf(r, d) \in Rows
BY DEF ModelOf

\* The steps of a request keep the types.
LEMMA RequestTypesKept ==
  ASSUME TypeOK, Types, NEW s \in Requests, Request(s)
  PROVE  Types'
<1>1. CASE Arrive(s)
  <2>1. PICK r \in Asks :
          /\ req' = [req EXCEPT ![s] = r]
          /\ Step(s, IF r.origin = None THEN "authenticate" ELSE "cors_all")
          /\ unheard' = [unheard EXCEPT ![s] = (r.voice \in muted)]
    BY <1>1 DEF Arrive
  <2>2. r \in SpeechRequests
    BY SpeechAssumption DEF SpeechAssumption
  <2>3. RequestTypes'
    BY <1>1, <2>1, <2>2 DEF Arrive, Step, Types, RequestTypes, SpeechSteps
  <2>4. ToggleTypes'
    BY <1>1 DEF Arrive, Types, ToggleTypes, toggler
  <2>5. since' \in [Requests -> SUBSET SinceType]
    <3>1. (IF Quiet /\ ~silent THEN {InForce} ELSE {}) \in SUBSET SinceType
      BY InForceType
    <3>. QED
      BY <1>1, <3>1 DEF Arrive, Types, HistoryTypes
  <2>6. HistoryTypes'
    <3>1. unheard' \in [Requests -> BOOLEAN]
      BY <2>1 DEF Types, HistoryTypes
    <3>. QED
      BY <1>1, <2>5, <3>1 DEF Arrive, Types, HistoryTypes
  <2>. QED
    BY <2>3, <2>4, <2>6 DEF Types
<1>2. CASE CorsAll(s) \/ CorsList(s) \/ Authenticate(s) \/ Check(s)
  <2>1. \/ \E p \in SpeechSteps \ {"voice"} : Step(s, p) /\ UNCHANGED <<format, opts>> /\ Reads(s)
        \/ Reply(s, "refused")
    BY <1>2 DEF CorsAll, CorsList, Authenticate, Check, SpeechSteps
  <2>. QED
    BY <2>1, StepTypes, ReplyTypes DEF SpeechAnswers
<1>3. CASE ReadFormat(s)
  <2>1. options.conf \in Values
    BY DEF TypeOK, OptionsType
  <2>2. format' \in [Requests -> Values \cup {None}] /\ opts' = opts
    BY <1>3, <2>1 DEF ReadFormat, Types, RequestTypes
  <2>3. Step(s, "options") /\ req' = req
    BY <1>3 DEF ReadFormat, Reads
  <2>4. RequestTypes'
    BY <2>2, <2>3, StepNames DEF Types, RequestTypes, SpeechSteps
  <2>. QED
    BY <1>3, <2>4 DEF ReadFormat, Reads, Types, ToggleTypes, HistoryTypes, toggler, history
<1>4. CASE ReadOptions(s)
  <2>. DEFINE o == [conf |-> options.conf, rate |-> options.rate, speaker |-> options.row,
                    resource |-> 0, model |-> ModelOf(options.row, 0)]
  <2>1. o \in OptsType
    <3>1. options.conf \in Values /\ options.rate \in Values \cup {None} /\ options.row \in Rows
      BY DEF TypeOK, OptionsType
    <3>2. ModelOf(options.row, 0) \in Rows
      BY <3>1, NothingLeft, ModelType
    <3>. QED
      BY <3>1, <3>2, NothingLeft DEF OptsType
  <2>2. opts' = [opts EXCEPT ![s] = o]
    BY <1>4 DEF ReadOptions
  <2>. HIDE DEF o
  <2>3. RequestTypes'
    <3>1. req[s].voice # None => req[s].voice \in Names
      BY DEF Types, RequestTypes, SpeechRequests
    <3>2. PICK p \in {"synthesise", "voice"} :
            Step(s, p) /\ (p = "voice" => req[s].voice \in Names)
      BY <1>4, <3>1 DEF ReadOptions, Step
    <3>3. req' = req /\ format' = format
      BY <1>4 DEF ReadOptions, Reads
    <3>4. opts' \in [Requests -> OptsType]
      BY <2>1, <2>2 DEF Types, RequestTypes
    <3>. QED
      BY <3>2, <3>3, <3>4, StepNames DEF Types, RequestTypes, SpeechSteps
  <2>. QED
    BY <1>4, <2>3 DEF ReadOptions, Reads, Types, ToggleTypes, HistoryTypes, toggler, history
<1>5. CASE LookUp(s)
  <2>. DEFINE row == voices[req[s].voice]
              o == [conf |-> opts[s].conf, rate |-> opts[s].rate, speaker |-> row,
                    resource |-> row, model |-> ModelOf(row, opts[s].model)]
  <2>1. CASE Reply(s, "refused")
    BY <2>1, ReplyTypes DEF SpeechAnswers
  <2>2. CASE /\ row \in enabled /\ opts' = [opts EXCEPT ![s] = o] /\ Step(s, "synthesise")
             /\ UNCHANGED format /\ Reads(s)
    <3>1. CASE row \in Rows
      <4>1. opts[s] \in OptsType /\ opts[s].model \in Rows
        BY DEF Types, RequestTypes, OptsType
      <4>2. ModelOf(row, opts[s].model) \in Rows
        BY <3>1, <4>1, ModelType
      <4>3. o \in OptsType
        BY <3>1, <4>1, <4>2 DEF OptsType
      <4>. HIDE DEF o
      <4>4. RequestTypes'
        BY <2>2, <4>3 DEF Reads, Step, Types, RequestTypes, SpeechSteps
      <4>. QED
        BY <2>2, <4>4 DEF Reads, Types, ToggleTypes, HistoryTypes, toggler, history
    <3>2. req[s].voice \in Names => row \in Rows
      BY DEF TypeOK
    <3>3. req[s].voice \in Names
      BY <1>5 DEF LookUp, Types, RequestTypes
    <3>. QED
      BY <3>1, <3>2, <3>3
  <2>3. CASE row \in enabled
    <3>1. Step(s, "synthesise") /\ UNCHANGED format /\ Reads(s)
      BY <1>5, <2>3 DEF LookUp
    <3>2. opts' = [opts EXCEPT ![s] = o]
      BY <1>5, <2>3 DEF LookUp
    <3>. QED
      BY <2>2, <2>3, <3>1, <3>2
  <2>4. CASE row \notin enabled
    BY <1>5, <2>1, <2>4 DEF LookUp
  <2>. QED
    BY <2>3, <2>4
<1>6. CASE LookUpFails(s) \/ Synthesise(s)
  BY <1>6, ReplyTypes DEF LookUpFails, Synthesise, SpeechAnswers
<1>. QED
  BY <1>1, <1>2, <1>3, <1>4, <1>5, <1>6 DEF Request

\* The steps of a switch keep the types.
LEMMA ToggleTypesKept ==
  ASSUME TypeOK, Types, NEW t \in Togglers, Toggle(t)
  PROVE  Types'
<1>1. RequestTypes'
  BY DEF Toggle, Switch, SwitchFind, SwitchRow, SwitchFails, Switched, speech, Types, RequestTypes
<1>2. CASE Switch(t)
  <2>1. \E n \in Names, on \in BOOLEAN : want' = [want EXCEPT ![t] = [name |-> n, on |-> on]]
    BY <1>2 DEF Switch
  <2>2. switches' \in 0 .. MaxSwitches
    BY <1>2, SpeechAssumption DEF Switch, Types, ToggleTypes, SpeechAssumption
  <2>3. ToggleTypes'
    BY <1>2, <2>1, <2>2 DEF Switch, Types, ToggleTypes
  <2>. QED
    BY <1>1, <1>2, <2>3 DEF Switch, Types, HistoryTypes, history
<1>3. ASSUME NEW a \in Answers, Switched(t, a)
      PROVE  ToggleTypes' /\ since' = since /\ silent' = silent
  <2>1. "find" \notin Answers /\ "switch" \notin Answers
    BY DEF Answers
  <2>. QED
    BY <1>3, <2>1, NothingLeft DEF Switched, Types, ToggleTypes
<1>4. CASE SwitchFind(t)
  <2>1. CASE Switched(t, "refused") /\ UNCHANGED <<enabled, muted, unheard>>
    BY <1>1, <2>1, <1>3 DEF Answers, Types, HistoryTypes
  <2>2. CASE /\ trow' = [trow EXCEPT ![t] = voices[want[t].name]]
             /\ tpc' = [tpc EXCEPT ![t] = "switch"]
             /\ UNCHANGED <<vars, enabled, speech, want, switches, history>>
    <3>1. want[t].name \in Names
      BY <1>4 DEF SwitchFind, Types, ToggleTypes
    <3>2. voices[want[t].name] \in Rows
      BY <3>1 DEF TypeOK
    <3>3. ToggleTypes'
      BY <2>2, <3>1, <3>2 DEF Types, ToggleTypes
    <3>. QED
      BY <1>1, <2>2, <3>3 DEF Types, HistoryTypes, history
  <2>. QED
    BY <1>4, <2>1, <2>2 DEF SwitchFind
<1>5. CASE SwitchRow(t) \/ SwitchFails(t)
  <2>1. ToggleTypes' /\ since' = since /\ silent' = silent
    <3>1. PICK a \in {"ok", "failed"} : Switched(t, a)
      BY <1>5 DEF SwitchRow, SwitchFails
    <3>. QED
      BY <3>1, <1>3 DEF Answers
  <2>2. want[t].name \in Names
    BY <1>5 DEF SwitchRow, SwitchFails, Types, ToggleTypes
  <2>3. muted' \subseteq Names
    BY <1>5, <2>2 DEF SwitchRow, SwitchFails, SetEnabled, Unmute, Types, HistoryTypes
  <2>4. unheard' \in [Requests -> BOOLEAN]
    BY <1>5 DEF SwitchRow, SwitchFails, SetEnabled, Unmute, Types, HistoryTypes
  <2>. QED
    BY <1>1, <2>1, <2>3, <2>4 DEF Types, HistoryTypes
<1>. QED
  BY <1>2, <1>4, <1>5 DEF Toggle

\* So does an administrator's step.
LEMMA AdministerTypesKept ==
  ASSUME TypeOK, TypeOK', Types, Administer
  PROVE  Types'
<1>1. RequestTypes'
  BY DEF Administer, speech, Types, RequestTypes
<1>2. trow' \in [Togglers -> Rows]
  <2>1. \A t \in Togglers : trow[t] \in Rows
    BY DEF Types, ToggleTypes
  <2>2. \E rows : trow' = [t \in Togglers |-> IF trow[t] \in rows THEN trow[t] ELSE 0]
    BY DEF Administer
  <2>. QED
    BY <2>1, <2>2, NothingLeft
<1>3. ToggleTypes'
  BY <1>2 DEF Administer, Types, ToggleTypes
<1>4. silent' \in BOOLEAN
  BY DEF Administer
<1>5. since' \in [Requests -> SUBSET SinceType]
  <2>1. InForce' \in SinceType
    <3>1. /\ db'.conf \in Values /\ db'.rate \in Values /\ db'.def \in Names
          /\ AuthOf(db)' \in KeyOrNone
      BY ConfigAssumption DEF TypeOK, Settings, AuthOf, KeyOrNone
    <3>2. voices'[db'.def] \in Rows /\ cors' \in CorsType
      BY <3>1 DEF TypeOK
    <3>. QED
      BY <3>1, <3>2 DEF InForce, SinceType
  <2>2. \A s \in Requests : since[s] \in SUBSET SinceType
    BY DEF Types, HistoryTypes
  <2>3. since' = [s \in Requests |-> IF since[s] = {} \/ silent' THEN {}
                                     ELSE since[s] \cup {InForce'}]
    BY DEF Administer
  <2>. QED
    BY <2>1, <2>2, <2>3
<1>6. \E names : Unmute(names)
  BY DEF Administer
<1>7. muted' \subseteq Names /\ unheard' \in [Requests -> BOOLEAN]
  BY <1>6 DEF Unmute, Types, HistoryTypes
<1>. QED
  BY <1>1, <1>3, <1>4, <1>5, <1>7 DEF Types, HistoryTypes

-----------------------------------------------------------------------------
(* Silence.                                                                *)

\* A switch that has found a row holds the one that its name stands for.
TogglersRight ==
  \A t \in Togglers : trow[t] # 0 => tpc[t] = "switch" /\ voices[want[t].name] = trow[t]

\* No muted name stands for a row that is switched on, and a request for a
\* name that was muted all along does not get past the look-up.
Silence ==
  /\ \A n \in muted : voices[n] \notin enabled
  /\ \A s \in Requests : unheard[s] => req[s].voice \in muted /\ spc[s] # "synthesise"

SInv == RowsRight /\ TogglersRight /\ Silence

\* A request that is answered leaves no trace.
LEMMA ReplySilence ==
  ASSUME Types, SInv, NEW s \in Requests, NEW a \in SpeechAnswers, Reply(s, a)
  PROVE  SInv'
<1>1. RowsRight'
  BY DEF Reply, SInv, RowsRight, vars, tables
<1>2. TogglersRight'
  BY DEF Reply, SInv, TogglersRight, toggler, vars, tables
<1>3. ASSUME NEW q \in Requests, unheard'[q]
      PROVE  req'[q].voice \in muted' /\ spc'[q] # "synthesise"
  <2>1. q # s
    BY <1>3 DEF Reply, Types, HistoryTypes
  <2>2. unheard[q] /\ req'[q] = req[q] /\ spc'[q] = spc[q] /\ muted' = muted
    BY <1>3, <2>1 DEF Reply, Step, Types, RequestTypes, HistoryTypes
  <2>. QED
    BY <2>2 DEF SInv, Silence
<1>4. Silence'
  BY <1>3 DEF Reply, SInv, Silence, vars, tables
<1>. QED
  BY <1>1, <1>2, <1>4 DEF SInv

\* A request that goes on, and not from a muted name to the synthesis.
LEMMA ReadSilence ==
  ASSUME Types, SInv, NEW s \in Requests, NEW p \in SpeechSteps, Step(s, p), Reads(s),
         p = "synthesise" => req[s].voice \notin muted
  PROVE  SInv'
<1>1. RowsRight'
  BY DEF Reads, SInv, RowsRight, vars, tables
<1>2. TogglersRight'
  BY DEF Reads, SInv, TogglersRight, toggler, vars, tables
<1>3. ASSUME NEW q \in Requests, unheard[q]
      PROVE  spc'[q] # "synthesise"
  BY <1>3 DEF Step, Types, RequestTypes, SInv, Silence
<1>4. Silence'
  BY <1>3 DEF Reads, SInv, Silence, vars, tables, history
<1>. QED
  BY <1>1, <1>2, <1>4 DEF SInv

\* The steps of a request keep the silence.
LEMMA RequestSilence ==
  ASSUME Types, SInv, NEW s \in Requests, Request(s)
  PROVE  SInv'
<1>1. CASE Arrive(s)
  <2>1. PICK r \in Asks :
          /\ req' = [req EXCEPT ![s] = r]
          /\ Step(s, IF r.origin = None THEN "authenticate" ELSE "cors_all")
          /\ unheard' = [unheard EXCEPT ![s] = (r.voice \in muted)]
    BY <1>1 DEF Arrive
  <2>2. RowsRight' /\ TogglersRight'
    BY <1>1 DEF Arrive, SInv, RowsRight, TogglersRight, toggler, vars, tables
  <2>3. ASSUME NEW q \in Requests, unheard'[q]
        PROVE  req'[q].voice \in muted /\ spc'[q] # "synthesise"
    <3>1. CASE q = s
      BY <2>1, <2>3, <3>1 DEF Step, Types, RequestTypes, HistoryTypes
    <3>2. CASE q # s
      BY <2>1, <2>3, <3>2 DEF Step, Types, RequestTypes, HistoryTypes, SInv, Silence
    <3>. QED
      BY <3>1, <3>2
  <2>4. Silence'
    BY <1>1, <2>3 DEF Arrive, SInv, Silence, vars, tables
  <2>. QED
    BY <2>2, <2>4 DEF SInv
<1>2. CASE CorsAll(s) \/ CorsList(s) \/ Authenticate(s) \/ Check(s) \/ ReadFormat(s)
  <2>1. \/ \E p \in SpeechSteps \ {"synthesise"} : Step(s, p) /\ Reads(s)
        \/ Reply(s, "refused")
    BY <1>2 DEF CorsAll, CorsList, Authenticate, Check, ReadFormat, SpeechSteps
  <2>. QED
    BY <2>1, ReadSilence, ReplySilence DEF SpeechAnswers
<1>3. CASE ReadOptions(s)
  <2>1. muted \subseteq Names /\ None \notin Names
    BY ConfigAssumption DEF Types, HistoryTypes
  <2>2. CASE req[s].voice = None
    <3>1. Step(s, "synthesise") /\ Reads(s)
      BY <1>3, <2>2 DEF ReadOptions
    <3>. QED
      BY <2>1, <2>2, <3>1, ReadSilence DEF SpeechSteps
  <2>3. CASE req[s].voice # None
    <3>1. Step(s, "voice") /\ Reads(s)
      BY <1>3, <2>3 DEF ReadOptions
    <3>. QED
      BY <3>1, ReadSilence DEF SpeechSteps
  <2>. QED
    BY <2>2, <2>3
<1>4. CASE LookUp(s)
  <2>1. CASE voices[req[s].voice] \in enabled
    <3>1. Step(s, "synthesise") /\ Reads(s)
      BY <1>4, <2>1 DEF LookUp
    <3>2. req[s].voice \notin muted
      BY <2>1 DEF SInv, Silence
    <3>. QED
      BY <3>1, <3>2, ReadSilence DEF SpeechSteps
  <2>2. CASE voices[req[s].voice] \notin enabled
    BY <1>4, <2>2, ReplySilence DEF LookUp, SpeechAnswers
  <2>. QED
    BY <2>1, <2>2
<1>5. CASE LookUpFails(s) \/ Synthesise(s)
  BY <1>5, ReplySilence DEF LookUpFails, Synthesise, SpeechAnswers
<1>. QED
  BY <1>1, <1>2, <1>3, <1>4, <1>5 DEF Request

\* A name that is no longer muted is so for no request.
LEMMA UnmuteSilence ==
  ASSUME Types, SInv, NEW names, Unmute(names), UNCHANGED <<spc, req>>
  PROVE  \A s \in Requests : unheard'[s] => req'[s].voice \in muted' /\ spc'[s] # "synthesise"
BY DEF Unmute, SInv, Silence

\* The steps of a switch keep the silence.
LEMMA ToggleSilence ==
  ASSUME TypeOK, Types, SInv, NEW t \in Togglers, Toggle(t)
  PROVE  SInv'
<1>0. ASSUME NEW a, Switched(t, a) PROVE TogglersRight'
  <2>1. \A u \in Togglers \ {t} : trow'[u] = trow[u] /\ tpc'[u] = tpc[u] /\ want'[u] = want[u]
    BY <1>0 DEF Switched, Types, ToggleTypes
  <2>2. trow'[t] = 0 /\ voices' = voices
    BY <1>0 DEF Switched, Types, ToggleTypes, vars, tables
  <2>. QED
    BY <2>1, <2>2 DEF SInv, TogglersRight
<1>1. CASE Switch(t)
  <2>1. tpc[t] \in Answers /\ trow' = trow /\ voices' = voices
    BY <1>1 DEF Switch, vars, tables
  <2>2. trow[t] = 0
    BY <2>1 DEF SInv, TogglersRight, Answers
  <2>3. \A u \in Togglers \ {t} : tpc'[u] = tpc[u] /\ want'[u] = want[u]
    BY <1>1 DEF Switch, Types, ToggleTypes
  <2>4. TogglersRight'
    BY <2>1, <2>2, <2>3 DEF SInv, TogglersRight
  <2>. QED
    BY <1>1, <2>4 DEF Switch, SInv, RowsRight, Silence, vars, tables, speech, history
<1>2. CASE SwitchFind(t)
  <2>1. CASE Switched(t, "refused") /\ UNCHANGED <<enabled, muted, unheard>>
    BY <2>1, <1>0 DEF Switched, SInv, RowsRight, Silence, vars, tables, speech
  <2>2. CASE /\ trow' = [trow EXCEPT ![t] = voices[want[t].name]]
             /\ tpc' = [tpc EXCEPT ![t] = "switch"]
             /\ UNCHANGED <<vars, enabled, speech, want, switches, history>>
    <3>1. TogglersRight'
      BY <2>2 DEF SInv, TogglersRight, Types, ToggleTypes, vars, tables
    <3>. QED
      BY <2>2, <3>1 DEF SInv, RowsRight, Silence, vars, tables, speech, history
  <2>. QED
    BY <1>2, <2>1, <2>2 DEF SwitchFind
<1>3. CASE SwitchFails(t)
  BY <1>3, <1>0 DEF SwitchFails, Switched, SInv, RowsRight, Silence, vars, tables, speech
<1>4. CASE SwitchRow(t)
  <2>1. CASE trow[t] = 0
    BY <1>4, <2>1, <1>0 DEF SwitchRow, Switched, SInv, RowsRight, Silence, vars, tables, speech
  <2>2. CASE trow[t] # 0
    <3>. DEFINE n == want[t].name
                r == trow[t]
    <3>1. Switched(t, "ok") /\ SetEnabled(t)
      BY <1>4, <2>2 DEF SwitchRow
    <3>2. n \in Names /\ voices[n] = r /\ r # 0
      BY <1>4, <2>2 DEF SwitchRow, SInv, TogglersRight, Types, ToggleTypes
    <3>3. voices' = voices /\ spc' = spc /\ req' = req
      BY <3>1 DEF Switched, vars, tables, speech
    <3>4. muted \subseteq Names
      BY DEF Types, HistoryTypes
    <3>. HIDE DEF n, r
    <3>5. CASE want[t].on
      <4>1. enabled' = enabled \cup {r} /\ Unmute({n})
        BY <3>1, <3>5 DEF SetEnabled, n, r
      <4>2. RowsRight'
        BY <4>1, <3>2, <3>3 DEF SInv, RowsRight
      <4>3. \A m \in muted' : m \in muted /\ m # n /\ m \in Names
        BY <4>1, <3>4 DEF Unmute
      <4>4. \A m \in muted' : voices'[m] \notin enabled'
        <5>. SUFFICES ASSUME NEW m \in muted' PROVE voices[m] \notin enabled \cup {r}
          BY <3>3, <4>1
        <5>1. voices[m] \notin enabled
          BY <4>3 DEF SInv, Silence
        <5>2. voices[m] # r
          BY <4>3, <3>2 DEF SInv, RowsRight
        <5>. QED
          BY <5>1, <5>2
      <4>5. Silence'
        BY <4>1, <4>4, <3>3, UnmuteSilence DEF Silence
      <4>. QED
        BY <3>1, <4>2, <4>5, <1>0 DEF SInv
    <3>6. CASE ~want[t].on
      <4>1. enabled' = enabled \ {r} /\ muted' = muted \cup {n} /\ unheard' = unheard
        BY <3>1, <3>6 DEF SetEnabled, n, r
      <4>2. RowsRight'
        BY <4>1, <3>3 DEF SInv, RowsRight
      <4>3. Silence'
        BY <4>1, <3>2, <3>3 DEF SInv, Silence
      <4>. QED
        BY <3>1, <4>2, <4>3, <1>0 DEF SInv
    <3>. QED
      BY <3>5, <3>6
  <2>. QED
    BY <2>1, <2>2
<1>. QED
  BY <1>1, <1>2, <1>3, <1>4 DEF Toggle

\* So does an administrator's step: what it creates is not muted, and what
\* it deletes is gone for a switch that has found it.
LEMMA AdministerSilence ==
  ASSUME IInv, IInv', Types, SInv, Administer
  PROVE  SInv'
<1>. DEFINE rows    == {voices'[n] : n \in Names}
            created == {n \in Names : voices'[n] \notin {0, voices[n]}}
<1>1. VoicesMove
  BY AdminVoices DEF Administer
<1>2. voices \in [Names -> Rows] /\ voices' \in [Names -> Rows]
  BY DEF IInv, DataOK
<1>3. \A m, n \in Names : voices[m] = voices[n] /\ voices[m] # 0 => m = n
  BY DEF SInv, RowsRight
<1>4. \A m, n \in Names : voices'[m] = voices'[n] /\ voices'[m] # 0 => m = n
  BY <1>1, <1>2, <1>3, OneNamePerRow
<1>5. PICK on \in BOOLEAN :
        enabled' = (enabled \cap rows) \cup IF on THEN {voices'[n] : n \in created} ELSE {}
  BY DEF Administer
<1>6. /\ trow' = [t \in Togglers |-> IF trow[t] \in rows THEN trow[t] ELSE 0]
      /\ Unmute(created)
      /\ UNCHANGED <<speech, tpc, want>>
  BY DEF Administer
<1>7. enabled \subseteq rows \cup enabled /\ 0 \notin enabled
  BY DEF SInv, RowsRight
<1>8. \A n \in created : n \in Names /\ voices'[n] # 0 /\ voices'[n] # voices[n]
  OBVIOUS
<1>9. RowsRight'
  <2>1. enabled' \subseteq rows \ {0}
    BY <1>5, <1>7, <1>8
  <2>. QED
    BY <1>4, <2>1 DEF RowsRight
<1>10. TogglersRight'
  <2>. SUFFICES ASSUME NEW t \in Togglers, trow'[t] # 0
                PROVE  tpc[t] = "switch" /\ voices'[want[t].name] = trow'[t]
    BY <1>6 DEF TogglersRight
  <2>1. trow'[t] = trow[t] /\ trow[t] \in rows /\ trow[t] # 0
    BY <1>6
  <2>2. tpc[t] = "switch" /\ voices[want[t].name] = trow[t]
    BY <2>1 DEF SInv, TogglersRight
  <2>3. want[t].name \in Names
    BY <2>2 DEF Types, ToggleTypes
  <2>4. voices'[want[t].name] = voices[want[t].name]
    BY <1>1, <1>2, <1>3, <2>1, <2>2, <2>3, RowKeepsName
  <2>. QED
    BY <2>1, <2>2, <2>4
<1>11. \A n \in muted' : voices'[n] \notin enabled'
  <2>. SUFFICES ASSUME NEW n \in muted' PROVE voices'[n] \notin enabled'
    OBVIOUS
  <2>1. n \in muted /\ n \in Names /\ n \notin created
    BY <1>6 DEF Unmute, Types, HistoryTypes
  <2>2. voices'[n] = 0 \/ voices'[n] = voices[n]
    BY <2>1
  <2>3. voices[n] \notin enabled
    BY <2>1 DEF SInv, Silence
  <2>4. voices'[n] \notin enabled
    BY <2>2, <2>3, <1>7
  <2>5. \A m \in created : voices'[m] # voices'[n]
    BY <2>1, <1>4, <1>8
  <2>. HIDE DEF created
  <2>. QED
    BY <2>4, <2>5, <1>5
<1>12. Silence'
  <2>1. spc' = spc /\ req' = req
    BY <1>6 DEF speech
  <2>. QED
    BY <2>1, <1>6, <1>11, UnmuteSilence DEF Silence
<1>. QED
  BY <1>9, <1>10, <1>12 DEF SInv

All == IInv /\ Types /\ SInv

\* All this holds when the service starts, ...
LEMMA SpeechInvariantInit == SpeechInit => All
<1>. SUFFICES ASSUME SpeechInit PROVE All
  OBVIOUS
<1>1. IInv
  BY InvariantInit DEF SpeechInit
<1>2. RequestTypes
  BY NothingLeft DEF SpeechInit, RequestTypes, SpeechSteps
<1>3. ToggleTypes
  BY NothingLeft, SpeechAssumption DEF SpeechInit, ToggleTypes, Answers, SpeechAssumption
<1>4. HistoryTypes
  BY DEF SpeechInit, HistoryTypes
<1>5. RowsRight
  <2>1. PICK n \in Names : voices = [m \in Names |-> IF m = n THEN 1 ELSE 0]
    BY DEF SpeechInit, Init
  <2>2. \A i, j \in Names : voices[i] = voices[j] /\ voices[i] # 0 => i = j
    BY <2>1
  <2>. QED
    BY <2>2 DEF SpeechInit, RowsRight
<1>6. TogglersRight /\ Silence
  BY DEF SpeechInit, TogglersRight, Silence
<1>. QED
  BY <1>1, <1>2, <1>3, <1>4, <1>5, <1>6 DEF All, Types, SInv

\* ... and every step keeps it.
LEMMA SpeechInvariantStep == All /\ [SpeechNext]_all => All'
<1>. SUFFICES ASSUME All, [SpeechNext]_all PROVE All'
  OBVIOUS
<1>1. IInv' /\ IInv
  BY StepsOfConfig, InvariantStep DEF All
<1>2. TypeOK /\ TypeOK'
  BY <1>1 DEF IInv, HandlersOK, DataOK, KeysOK, TypeOK, Steps
<1>3. CASE Administer
  BY <1>1, <1>2, <1>3, AdministerTypesKept, AdministerSilence DEF All
<1>4. CASE \E s \in Requests : Request(s)
  BY <1>1, <1>2, <1>4, RequestTypesKept, RequestSilence DEF All
<1>5. CASE \E t \in Togglers : Toggle(t)
  BY <1>1, <1>2, <1>5, ToggleTypesKept, ToggleSilence DEF All
<1>6. CASE UNCHANGED all
  <2>1. Types'
    BY <1>6 DEF all, All, Types, RequestTypes, ToggleTypes, HistoryTypes, speech, toggler, history
  <2>2. SInv'
    BY <1>6 DEF all, All, SInv, RowsRight, TogglersRight, Silence, speech, toggler, history, vars,
                tables
  <2>. QED
    BY <1>1, <2>1, <2>2 DEF All
<1>. QED
  BY <1>3, <1>4, <1>5, <1>6 DEF SpeechNext, Over

\* It holds throughout.
LEMMA SpeechInductive == SpeechSpec => []All
BY SpeechInvariantInit, SpeechInvariantStep, PTL DEF SpeechSpec

\* The types of Speech, beside the administrators (controller/tts.go).
THEOREM SpeechTypeCorrect == SpeechSpec => []SpeechTypeOK
<1>1. All => SpeechTypeOK
  BY InvariantType DEF All, Types, RequestTypes, ToggleTypes, HistoryTypes, SInv, RowsRight,
     SpeechTypeOK, SinceType
<1>. QED
  BY <1>1, SpeechInductive, PTL

\* A voice that has been switched off stays silent, whatever requests,
\* switches, creations and deletions of voices overlap (controller/admin.go,
\* AdminVoiceToggleHandler; controller/tts.go).
THEOREM SwitchedOffHolds == SpeechSpec => []SwitchedOff
<1>1. All => SwitchedOff
  BY DEF All, SInv, Silence, SwitchedOff
<1>. QED
  BY <1>1, SpeechInductive, PTL

-----------------------------------------------------------------------------
(* Freshness.  What a request holds was in force at some moment since it    *)
(* arrived, and so were the copies in memory that it has still to read.     *)

OptionsOf(x) == [conf |-> x.conf, rate |-> x.rate, row |-> x.row]

\* Memory shows what is stored, but for the copy that an admin request is about
\* to replace, and for options that a failed reload has left behind.
Kept ==
  /\ \A h \in Handlers : Busy(h) => solo[h]
  /\ OptionsShown \/ cfgErr \/ \E h \in Handlers : OptionsPending(h)
  /\ AuthShown \/ \E h \in Handlers : AuthPending(h)

BeforeCheck == {"cors_all", "cors_list", "authenticate", "check"}

\* The copies in memory; a request that has not passed the check yet is refused
\* while an error is recorded.
MemorySeen(s) ==
  /\ InForce \in since[s]
  /\ \E x \in since[s] : x.key = auth
  /\ (\E x \in since[s] : OptionsOf(x) = options) \/ (cfgErr /\ spc[s] \in BeforeCheck)

\* What a request at step p holds, when the moments in S are those since it came.
Held(p, r, f, o, S) ==
  /\ p \in {"authenticate", "check", "format", "options", "voice", "synthesise"}
       => \E x \in S : Admits(x.cors, r.origin)
  /\ p \in {"check", "format", "options", "voice", "synthesise"}
       => \E x \in S : x.key = r.key
  /\ p \in {"options", "voice", "synthesise"} => r.format \/ \E x \in S : f = x.conf
  /\ p = "voice" =>
       \E x \in S : o.conf = x.conf /\ o.rate = x.rate /\ o.model = ModelOf(x.row, 0)
  /\ p = "synthesise" =>
       \E x \in S :
         /\ o.conf = x.conf /\ o.rate = x.rate
         /\ IF r.voice = None THEN <<o.speaker, o.model>> = <<x.row, ModelOf(x.row, 0)>>
                              ELSE o.model = ModelOf(o.speaker, ModelOf(x.row, 0))

HeldBy(s) == Held(spc[s], req[s], format[s], opts[s], since[s])

FreshInv ==
  /\ ~silent => DefaultInv /\ Kept
  /\ \A s \in Requests : since[s] # {} => ~silent /\ MemorySeen(s) /\ HeldBy(s)

\* What was in force at some moment goes on to have been.
LEMMA HeldLonger ==
  ASSUME NEW p, NEW r, NEW f, NEW o, NEW S, NEW T, S \subseteq T, Held(p, r, f, o, S)
  PROVE  Held(p, r, f, o, T)
<1>. USE DEF Held
<1>1. p \in {"options", "voice", "synthesise"} => r.format \/ \E x \in T : f = x.conf
  OBVIOUS
<1>2. p = "voice" =>
        \E x \in T : o.conf = x.conf /\ o.rate = x.rate /\ o.model = ModelOf(x.row, 0)
  OBVIOUS
<1>3. p = "synthesise" =>
       \E x \in T :
         /\ o.conf = x.conf /\ o.rate = x.rate
         /\ IF r.voice = None THEN <<o.speaker, o.model>> = <<x.row, ModelOf(x.row, 0)>>
                              ELSE o.model = ModelOf(o.speaker, ModelOf(x.row, 0))
  OBVIOUS
<1>. QED
  BY <1>1, <1>2, <1>3

\* How a step of an undisturbed handler moves the options and what is stored of
\* them: they are shown after it, or about to be replaced, or known to be stale,
\* or the step has nothing to do with them.
LEMMA OptionsFollow ==
  ASSUME IInv, DefaultInv, NEW h \in Handlers, Handle(h), OnCourse(h)'
  PROVE  \/ OptionsShown'
         \/ /\ options' = options /\ (cfgErr => cfgErr')
            /\ OptionsPending(h)' \/ cfgErr'
         \/ /\ options' = options /\ cfgErr' = cfgErr /\ StoredOptions' = StoredOptions
            /\ ~OptionsPending(h)
<1>0. /\ job[h] \in Jobs \cup {NoJob} /\ Fits(pc[h], job[h], snap[h]) /\ cfgErr \in BOOLEAN
      /\ voices \in [Names -> Rows] /\ db \in Settings /\ db.def \in Names
  BY DEF IInv, HandlersOK, DataOK, Settings
<1>1. CASE SetOptions(h)
  <2>1. /\ pc'[h] = "set_auth" /\ job[h].kind = "update" /\ job' = job
        /\ db' = db /\ voices' = voices
    BY <1>0, <1>1, StepPlaces DEF SetOptions, Fits, Loading, tables
  <2>. QED
    BY <2>1 DEF OnCourse, Course, UpdateCourse, OptionsShown, StoredOptions
<1>2. CASE ClearErr(h)
  <2>1. /\ pc'[h] = "ok" /\ job[h].kind = "update" /\ job' = job
        /\ db' = db /\ voices' = voices
    BY <1>0, <1>2, StepPlaces DEF ClearErr, Answer, Fits, Loading, tables
  <2>. QED
    BY <2>1 DEF OnCourse, Course, UpdateCourse, OptionsShown, StoredOptions
<1>3. CASE LoadSettings(h) \/ LoadVoice(h) \/ LoadRate(h) \/ WriteOptions(h)
  <2>1. options' = options /\ cfgErr' = cfgErr
    BY <1>3 DEF LoadSettings, LoadVoice, LoadRate, WriteOptions, Silent, memory
  <2>2. pc'[h] \in {"load_settings", "load_voice", "load_rate", "set_options"}
    BY <1>3, StepPlaces DEF LoadSettings, LoadVoice, LoadRate, WriteOptions
  <2>. QED
    BY <2>1, <2>2 DEF OptionsPending
<1>4. CASE Fail(h)
  <2>1. options' = options /\ cfgErr' = (cfgErr \/ pc[h] = "load_settings")
        /\ db' = db /\ voices' = voices
    BY <1>4 DEF Fail, tables
  <2>2. CASE pc[h] = "load_settings"
    BY <2>1, <2>2
  <2>3. CASE pc[h] # "load_settings"
    <3>1. ~OptionsPending(h)
      BY <1>4, <2>3 DEF Fail, OptionsPending
    <3>. QED
      BY <1>0, <2>1, <2>3, <3>1 DEF StoredOptions
  <2>. QED
    BY <2>2, <2>3
<1>5. CASE InsertVoice(h) \/ DeleteVoice(h)
  <2>1. /\ options' = options /\ cfgErr' = cfgErr /\ db' = db
        /\ pc[h] \in {"write", "delete"}
    BY <1>5 DEF InsertVoice, DeleteVoice, memory, tables
  <2>2. voices'[db.def] = voices[db.def]
    BY <1>0, <1>5, DefaultRowKept
  <2>. QED
    BY <2>1, <2>2 DEF StoredOptions, OptionsPending
<1>6. CASE WriteAuth(h) \/ WriteAdmin(h) \/ ClearAdmin(h) \/ WriteCors(h)
  <2>1. /\ options' = options /\ cfgErr' = cfgErr /\ voices' = voices
        /\ pc[h] \in {"write", "clear"}
    BY <1>6 DEF WriteAuth, WriteAdmin, ClearAdmin, WriteCors, memory
  <2>2. \/ \E k : db' = [db EXCEPT !.auth = k]
        \/ \E k : db' = [db EXCEPT !.admin = k]
        \/ \E a, o : db' = [db EXCEPT !.all = a, !.origins = o]
    BY <1>6 DEF WriteAuth, WriteAdmin, ClearAdmin, WriteCors
  <2>3. db'.conf = db.conf /\ db'.rate = db.rate /\ db'.def = db.def
    BY <1>0, <2>2 DEF Settings
  <2>. QED
    BY <2>1, <2>3 DEF StoredOptions, OptionsPending
<1>7. CASE \/ FindDefault(h) \/ ReadAuth(h) \/ ReadAll(h) \/ ReadOrigins(h)
           \/ FindVoice(h) \/ GetVoice(h) \/ ReadDefault(h)
           \/ SetAuth(h) \/ SetAdmin(h) \/ SetCors(h)
  <2>1. options' = options /\ cfgErr' = cfgErr /\ db' = db /\ voices' = voices
    BY <1>7 DEF FindDefault, ReadAuth, ReadAll, ReadOrigins, FindVoice, GetVoice, ReadDefault,
       SetAuth, SetAdmin, SetCors, Silent, memory, tables
  <2>2. ~OptionsPending(h)
    BY <1>7 DEF FindDefault, ReadAuth, ReadAll, ReadOrigins, FindVoice, GetVoice, ReadDefault,
       SetAuth, SetAdmin, SetCors, OptionsPending
  <2>. QED
    BY <2>1, <2>2 DEF StoredOptions
<1>. QED
  BY <1>1, <1>2, <1>3, <1>4, <1>5, <1>6, <1>7 DEF Handle

\* And how it moves the authentication key.
LEMMA AuthFollows ==
  ASSUME IInv, NEW h \in Handlers, Handle(h), OnCourse(h)'
  PROVE  \/ AuthShown'
         \/ auth' = auth /\ AuthPending(h)'
         \/ auth' = auth /\ AuthOf(db)' = AuthOf(db) /\ ~AuthPending(h)
<1>0. /\ job[h] \in Jobs \cup {NoJob} /\ Fits(pc[h], job[h], snap[h]) /\ db \in Settings
  BY DEF IInv, HandlersOK, DataOK
<1>1. CASE SetAuth(h)
  <2>1. /\ pc[h] = "set_auth" /\ job' = job /\ db' = db
        /\ job[h].kind \in {"update", "auth_key"}
        /\ job[h].kind = "update" => pc'[h] = "set_admin"
        /\ job[h].kind # "update" => pc'[h] = "ok"
    BY <1>0, <1>1, StepPlaces DEF SetAuth, Fits, Answer, tables
  <2>2. CASE job[h].kind = "update"
    BY <2>1, <2>2 DEF OnCourse, Course, UpdateCourse, AuthShown
  <2>3. CASE job[h].kind = "auth_key"
    <3>1. auth' = db'.auth /\ auth' = job[h].key /\ job[h].key # None
      BY <1>0, <2>1, <2>3, AuthJob, ConfigAssumption DEF OnCourse, Course, AuthCourse
    <3>. QED
      BY <3>1 DEF AuthShown, AuthOf
  <2>. QED
    BY <2>1, <2>2, <2>3
<1>2. CASE WriteAuth(h)
  <2>1. /\ auth' = auth /\ pc'[h] = "set_auth" /\ job' = job /\ job[h].kind = "auth_key"
    BY <1>2, StepPlaces DEF WriteAuth, memory
  <2>. QED
    BY <2>1 DEF AuthPending
<1>3. CASE WriteOptions(h) \/ WriteAdmin(h) \/ ClearAdmin(h) \/ WriteCors(h)
  <2>1. auth' = auth /\ pc[h] # "set_auth"
    BY <1>3 DEF WriteOptions, WriteAdmin, ClearAdmin, WriteCors, memory
  <2>2. db'.auth = db.auth
    <3>1. WriteOptions(h) => db'.auth = db.auth
      BY <1>0 DEF WriteOptions, Settings
    <3>2. WriteAdmin(h) \/ ClearAdmin(h) => db'.auth = db.auth
      BY <1>0 DEF WriteAdmin, ClearAdmin, Settings
    <3>3. WriteCors(h) => db'.auth = db.auth
      BY <1>0 DEF WriteCors, Settings
    <3>. QED
      BY <1>3, <3>1, <3>2, <3>3
  <2>. QED
    BY <2>1, <2>2 DEF AuthPending, AuthOf
<1>4. CASE \/ Fail(h) \/ LoadSettings(h) \/ LoadVoice(h) \/ LoadRate(h) \/ SetOptions(h)
           \/ ClearErr(h) \/ FindDefault(h) \/ ReadAuth(h) \/ ReadAll(h) \/ ReadOrigins(h)
           \/ FindVoice(h) \/ GetVoice(h) \/ ReadDefault(h) \/ SetAdmin(h) \/ SetCors(h)
           \/ InsertVoice(h) \/ DeleteVoice(h)
  <2>1. auth' = auth /\ db' = db
    BY <1>4 DEF Fail, LoadSettings, LoadVoice, LoadRate, SetOptions, ClearErr, FindDefault,
       ReadAuth, ReadAll, ReadOrigins, FindVoice, GetVoice, ReadDefault, SetAdmin, SetCors,
       InsertVoice, DeleteVoice, Silent, memory, tables
  <2>2. pc[h] # "set_auth"
    BY <1>4 DEF Fail, LoadSettings, LoadVoice, LoadRate, SetOptions, ClearErr, FindDefault,
       ReadAuth, ReadAll, ReadOrigins, FindVoice, GetVoice, ReadDefault, SetAdmin, SetCors,
       InsertVoice, DeleteVoice
  <2>. QED
    BY <2>1, <2>2 DEF AuthPending, AuthOf
<1>. QED
  BY <1>1, <1>2, <1>3, <1>4 DEF Handle

\* When no request that is under way loses its solitude, none is admitted beside it.
LEMMA LoneWhileSolo ==
  ASSUME \A q \in Handlers : Busy(q) => solo[q],
         \A q \in Handlers : Busy(q) /\ solo[q] => solo'[q]
  PROVE  Lone
<1>. SUFFICES ASSUME NEW h \in Handlers, Admit(h), NEW q \in Handlers
              PROVE  pc[q] \in Answers
  BY DEF Lone, Quiet
<1>1. solo' = [r \in Handlers |-> r = h /\ \A p \in Handlers : pc[p] \in Answers]
  BY DEF Admit
<1>. QED
  BY <1>1 DEF Busy

\* An administrator's step: memory goes on to show what is stored, and a copy
\* that it replaces shows it then.
LEMMA KeptStep ==
  ASSUME IInv, IInv', DefaultInv, EffectInv, Kept,
         NEW h \in Handlers, Admit(h) \/ Handle(h),
         \A q \in Handlers : Busy(q) /\ solo[q] => solo'[q]
  PROVE  /\ Kept'
         /\ auth' = auth \/ AuthShown'
         /\ options' = options \/ OptionsShown'
         /\ cfgErr => cfgErr' \/ OptionsShown'
<1>1. CASE Admit(h)
  <2>0. Lone
    BY LoneWhileSolo DEF Kept
  <2>1. /\ \A q \in Handlers : pc[q] \in Answers
        /\ \A q \in Handlers \ {h} : pc'[q] = pc[q]
    BY <1>1, <2>0, AdmitAlone
  <2>2. /\ UNCHANGED <<tables, memory>>
        /\ solo' = [q \in Handlers |-> q = h /\ \A r \in Handlers : pc[r] \in Answers]
    BY <1>1 DEF Admit
  <2>3. \A q \in Handlers : Busy(q)' => solo'[q]
    BY <2>1, <2>2 DEF Busy
  <2>4. \A q \in Handlers : ~OptionsPending(q) /\ ~AuthPending(q)
    BY <2>1 DEF OptionsPending, AuthPending, Answers
  <2>5. OptionsShown \/ cfgErr
    BY <2>4 DEF Kept
  <2>6. AuthShown
    BY <2>4 DEF Kept
  <2>7. (OptionsShown' \/ cfgErr') /\ AuthShown'
    BY <2>2, <2>5, <2>6 DEF tables, memory, OptionsShown, StoredOptions, AuthShown, AuthOf
  <2>. QED
    BY <2>2, <2>3, <2>7 DEF Kept, memory
<1>2. CASE Handle(h)
  <2>1. /\ Busy(h) /\ Apart(h) /\ solo[h] /\ solo'[h]
        /\ \A q \in Handlers \ {h} : pc[q] \in Answers /\ pc'[q] \in Answers
    BY <1>2, HandleApart, OneStaysOne DEF Kept, DefaultInv
  <2>2. OnCourse(h)'
    BY <1>2, <2>1, HandleCourse DEF EffectInv, Undisturbed
  <2>3. \A q \in Handlers : Busy(q)' => solo'[q]
    BY <2>1 DEF Busy
  <2>4. \A q \in Handlers \ {h} : ~OptionsPending(q) /\ ~AuthPending(q)
    BY <2>1 DEF OptionsPending, AuthPending, Answers
  <2>5. /\ OptionsShown' \/ cfgErr' \/ OptionsPending(h)'
        /\ options' = options \/ OptionsShown'
        /\ cfgErr => cfgErr' \/ OptionsShown'
    <3>1. ~OptionsPending(h) => OptionsShown \/ cfgErr
      BY <2>4 DEF Kept
    <3>2. options' = options /\ StoredOptions' = StoredOptions => (OptionsShown => OptionsShown')
      BY DEF OptionsShown
    <3>. QED
      BY <1>2, <2>2, <3>1, <3>2, OptionsFollow
  <2>6. /\ AuthShown' \/ AuthPending(h)'
        /\ auth' = auth \/ AuthShown'
    <3>1. ~AuthPending(h) => AuthShown
      BY <2>4 DEF Kept
    <3>2. auth' = auth /\ AuthOf(db)' = AuthOf(db) => (AuthShown => AuthShown')
      BY DEF AuthShown
    <3>. QED
      BY <1>2, <2>2, <3>1, <3>2, AuthFollows
  <2>. QED
    BY <2>3, <2>5, <2>6 DEF Kept
<1>. QED
  BY <1>1, <1>2

\* What memory shows, is in force.
LEMMA ShownInForce ==
  /\ OptionsShown => OptionsOf(InForce) = options
  /\ AuthShown => InForce.key = auth
  BY DEF OptionsShown, StoredOptions, AuthShown, OptionsOf, InForce

\* And so after a step.
LEMMA ShownInForceThen ==
  /\ OptionsShown' => OptionsOf(InForce') = options'
  /\ AuthShown' => (InForce').key = auth'
  BY DEF OptionsShown, StoredOptions, AuthShown, OptionsOf, InForce

\* An administrator's step keeps what the requests hold fresh.
LEMMA AdministerFresh ==
  ASSUME IInv, IInv', EffectInv, Types, FreshInv, Administer
  PROVE  FreshInv'
<1>1. PICK h \in Handlers : Admit(h) \/ Handle(h)
  BY DEF Administer
<1>2. /\ since' = [s \in Requests |-> IF since[s] = {} \/ silent' THEN {}
                                      ELSE since[s] \cup {InForce'}]
      /\ silent' = (silent \/ \E q \in Handlers : pc[q] \notin Answers /\ solo[q] /\ ~solo'[q])
      /\ UNCHANGED speech
  BY DEF Administer
<1>3. CASE silent'
  BY <1>2, <1>3 DEF FreshInv
<1>4. CASE ~silent'
  <2>0. ~silent /\ DefaultInv /\ Kept
    BY <1>2, <1>4 DEF FreshInv
  <2>1. \A q \in Handlers : Busy(q) /\ solo[q] => solo'[q]
    BY <1>2, <1>4 DEF Busy
  <2>2. /\ Kept'
        /\ auth' = auth \/ AuthShown'
        /\ options' = options \/ OptionsShown'
        /\ cfgErr => cfgErr' \/ OptionsShown'
    BY <1>1, <2>0, <2>1, KeptStep
  <2>4. DefaultInv'
    <3>1. Lone
      BY <2>0, <2>1, LoneWhileSolo DEF Kept
    <3>2. Next
      BY <1>1 DEF Next
    <3>. QED
      BY <2>0, <3>1, <3>2, DefaultStep
  <2>3. ASSUME NEW s \in Requests, since'[s] # {}
        PROVE  MemorySeen(s)' /\ HeldBy(s)'
    <3>1. /\ since[s] # {} /\ since'[s] = since[s] \cup {InForce'}
          /\ spc' = spc /\ req' = req /\ format' = format /\ opts' = opts
      BY <1>2, <2>3, <1>4 DEF speech
    <3>2. MemorySeen(s) /\ HeldBy(s)
      BY <3>1 DEF FreshInv
    <3>3. HeldBy(s)'
      <4>1. Held(spc[s], req[s], format[s], opts[s], since[s] \cup {InForce'})
        BY <3>2, HeldLonger DEF HeldBy
      <4>. QED
        BY <3>1, <4>1 DEF HeldBy
    <3>4. \E x \in since'[s] : x.key = auth'
      BY <2>2, <3>1, <3>2, ShownInForceThen DEF MemorySeen
    <3>5. \/ \E x \in since'[s] : OptionsOf(x) = options'
          \/ cfgErr' /\ spc'[s] \in BeforeCheck
      <4>1. CASE OptionsShown'
        BY <3>1, <4>1, ShownInForceThen
      <4>2. CASE ~OptionsShown'
        <5>1. options' = options /\ (cfgErr => cfgErr')
          BY <2>2, <4>2
        <5>. QED
          BY <3>1, <3>2, <5>1 DEF MemorySeen
      <4>. QED
        BY <4>1, <4>2
    <3>. QED
      BY <3>1, <3>3, <3>4, <3>5 DEF MemorySeen
  <2>. QED
    BY <1>4, <2>2, <2>3, <2>4 DEF FreshInv
<1>. QED
  BY <1>3, <1>4

\* What a request does not change: the tables, memory and their history.
Beside == UNCHANGED <<vars, silent>>

LEMMA BesideKeeps ==
  ASSUME Beside
  PROVE  /\ Kept => Kept'
         /\ DefaultInv => DefaultInv'
         /\ InForce' = InForce /\ auth' = auth /\ options' = options /\ cfgErr' = cfgErr
<1>1. UNCHANGED <<db, voices, options, auth, cors, cfgErr, pc, job, solo>>
  BY DEF Beside, vars, tables, memory, handlers
<1>. QED
  BY <1>1 DEF Kept, Busy, OptionsShown, StoredOptions, OptionsPending, AuthShown, AuthPending,
     AuthOf, InForce, DefaultInv, OneAtATime, DefaultExists, DefaultFound, DefaultSpared

\* A request of which nothing changes is none the staler.
LEMMA OthersFresh ==
  ASSUME FreshInv, Beside, NEW s \in Requests, since'[s] # {}, since'[s] = since[s],
         spc'[s] = spc[s], req'[s] = req[s], format'[s] = format[s], opts'[s] = opts[s]
  PROVE  ~silent' /\ MemorySeen(s)' /\ HeldBy(s)'
<1>1. ~silent /\ MemorySeen(s) /\ HeldBy(s)
  BY DEF FreshInv
<1>. QED
  BY <1>1, BesideKeeps DEF Beside, MemorySeen, HeldBy

\* So it is enough to look at the one request that takes a step.
LEMMA OneFresh ==
  ASSUME Types, FreshInv, Beside, NEW s \in Requests,
         \A q \in Requests \ {s} :
           /\ since'[q] = since[q] /\ spc'[q] = spc[q] /\ req'[q] = req[q]
           /\ format'[q] = format[q] /\ opts'[q] = opts[q],
         since'[s] # {} => ~silent /\ MemorySeen(s)' /\ HeldBy(s)'
  PROVE  FreshInv'
<1>1. ~silent' => DefaultInv' /\ Kept'
  BY BesideKeeps DEF Beside, FreshInv
<1>2. ASSUME NEW q \in Requests, since'[q] # {}
      PROVE  ~silent' /\ MemorySeen(q)' /\ HeldBy(q)'
  <2>1. CASE q = s
    BY <1>2, <2>1 DEF Beside
  <2>2. CASE q # s
    BY <1>2, <2>2, OthersFresh
  <2>. QED
    BY <2>1, <2>2
<1>. QED
  BY <1>1, <1>2 DEF FreshInv

\* An answered request holds nothing.
LEMMA ReplyFresh ==
  ASSUME Types, FreshInv, NEW s \in Requests, NEW a, Reply(s, a)
  PROVE  FreshInv'
<1>1. Beside /\ since'[s] = {}
  BY DEF Reply, Beside, Types, HistoryTypes
<1>2. \A q \in Requests \ {s} :
           /\ since'[q] = since[q] /\ spc'[q] = spc[q] /\ req'[q] = req[q]
           /\ format'[q] = format[q] /\ opts'[q] = opts[q]
  BY DEF Reply, Step, Types, RequestTypes, HistoryTypes
<1>. QED
  BY <1>1, <1>2, OneFresh

\* A request that goes on to step p with f and o.
LEMMA ReadFresh ==
  ASSUME Types, FreshInv, NEW s \in Requests, NEW p, NEW f, NEW o,
         Step(s, p), Reads(s),
         format' = [format EXCEPT ![s] = f], opts' = [opts EXCEPT ![s] = o],
         since[s] # {} /\ MemorySeen(s) /\ HeldBy(s)
           => /\ Held(p, req[s], f, o, since[s])
              /\ p \in BeforeCheck \/ \E x \in since[s] : OptionsOf(x) = options
  PROVE  FreshInv'
<1>1. Beside /\ since' = since /\ req' = req
  BY DEF Reads, Beside, history
<1>2. /\ spc'[s] = p /\ format'[s] = f /\ opts'[s] = o
      /\ \A q \in Requests \ {s} :
           spc'[q] = spc[q] /\ format'[q] = format[q] /\ opts'[q] = opts[q]
  BY DEF Step, Types, RequestTypes
<1>3. since'[s] # {} => ~silent /\ MemorySeen(s)' /\ HeldBy(s)'
  <2>. SUFFICES ASSUME since[s] # {} PROVE ~silent /\ MemorySeen(s)' /\ HeldBy(s)'
    BY <1>1
  <2>1. ~silent /\ MemorySeen(s) /\ HeldBy(s)
    BY DEF FreshInv
  <2>2. HeldBy(s)'
    BY <1>1, <1>2, <2>1 DEF HeldBy
  <2>3. MemorySeen(s)'
    BY <1>1, <1>2, <2>1, BesideKeeps DEF MemorySeen
  <2>. QED
    BY <2>1, <2>2, <2>3
<1>. QED
  BY <1>1, <1>2, <1>3, OneFresh

\* The step of a request that only moves it on to p.
LEMMA PassFresh ==
  ASSUME Types, FreshInv, NEW s \in Requests, NEW p, Step(s, p), Reads(s),
         UNCHANGED <<format, opts>>,
         since[s] # {} /\ MemorySeen(s) /\ HeldBy(s)
           => /\ Held(p, req[s], format[s], opts[s], since[s])
              /\ p \in BeforeCheck \/ \E x \in since[s] : OptionsOf(x) = options
  PROVE  FreshInv'
<1>1. /\ format' = [format EXCEPT ![s] = format[s]]
      /\ opts' = [opts EXCEPT ![s] = opts[s]]
  BY DEF Types, RequestTypes
<1>. HIDE DEF Types, FreshInv
<1>. QED
  BY <1>1, ReadFresh

\* The steps of a request keep what it holds fresh.
LEMMA RequestFresh ==
  ASSUME IInv, Types, FreshInv, NEW s \in Requests, Request(s)
  PROVE  FreshInv'
<1>1. CASE Arrive(s)
  <2>1. PICK r \in Asks :
          /\ req' = [req EXCEPT ![s] = r]
          /\ Step(s, IF r.origin = None THEN "authenticate" ELSE "cors_all")
    BY <1>1 DEF Arrive
  <2>2. since' = [since EXCEPT ![s] = IF Quiet /\ ~silent THEN {InForce} ELSE {}]
    BY <1>1 DEF Arrive
  <2>3. Beside
    BY <1>1 DEF Arrive, Beside
  <2>4. \A q \in Requests \ {s} :
           /\ since'[q] = since[q] /\ spc'[q] = spc[q] /\ req'[q] = req[q]
           /\ format'[q] = format[q] /\ opts'[q] = opts[q]
    BY <1>1, <2>1, <2>2 DEF Arrive, Step, Types, RequestTypes, HistoryTypes
  <2>5. ASSUME since'[s] # {}
        PROVE  ~silent /\ MemorySeen(s)' /\ HeldBy(s)'
    <3>1. Quiet /\ ~silent /\ since'[s] = {InForce}
      BY <2>2, <2>5 DEF Types, HistoryTypes
    <3>2. /\ req'[s] = r
          /\ spc'[s] = IF r.origin = None THEN "authenticate" ELSE "cors_all"
      BY <2>1 DEF Step, Types, RequestTypes
    <3>3. (OptionsShown \/ cfgErr) /\ AuthShown
      BY <3>1 DEF FreshInv, Kept, Quiet, OptionsPending, AuthPending, Answers
    <3>4. MemorySeen(s)'
      <4>1. spc'[s] \in BeforeCheck
        BY <3>2 DEF BeforeCheck
      <4>2. /\ InForce' \in since'[s]
            /\ \E x \in since'[s] : x.key = auth'
            /\ \/ \E x \in since'[s] : OptionsOf(x) = options'
               \/ cfgErr' /\ spc'[s] \in BeforeCheck
        BY <2>3, <3>1, <3>3, <4>1, BesideKeeps, ShownInForce
      <4>. QED
        BY <4>2 DEF MemorySeen
    <3>5. HeldBy(s)'
      <4>1. \A f, o : Held(spc'[s], r, f, o, {InForce})
        BY <3>2 DEF Held, Admits
      <4>. QED
        BY <3>1, <3>2, <4>1 DEF HeldBy
    <3>. QED
      BY <3>1, <3>4, <3>5
  <2>. QED
    BY <2>3, <2>4, <2>5, OneFresh
<1>2. CASE CorsAll(s)
  <2>1. CASE cors.all
    <3>1. Step(s, "authenticate") /\ UNCHANGED <<format, opts>> /\ Reads(s)
      BY <1>2, <2>1 DEF CorsAll
    <3>2. MemorySeen(s) => Held("authenticate", req[s], format[s], opts[s], since[s])
      BY <2>1 DEF MemorySeen, InForce, Held, Admits
    <3>. QED
      BY <3>1, <3>2, PassFresh DEF BeforeCheck
  <2>2. CASE ~cors.all
    <3>1. Step(s, "cors_list") /\ UNCHANGED <<format, opts>> /\ Reads(s)
      BY <1>2, <2>2 DEF CorsAll
    <3>2. Held("cors_list", req[s], format[s], opts[s], since[s])
      BY DEF Held
    <3>. QED
      BY <3>1, <3>2, PassFresh DEF BeforeCheck
  <2>. QED
    BY <2>1, <2>2
<1>3. CASE CorsList(s)
  <2>1. CASE req[s].origin \in cors.origins
    <3>1. Step(s, "authenticate") /\ UNCHANGED <<format, opts>> /\ Reads(s)
      BY <1>3, <2>1 DEF CorsList
    <3>2. MemorySeen(s) => Held("authenticate", req[s], format[s], opts[s], since[s])
      BY <2>1 DEF MemorySeen, InForce, Held, Admits
    <3>. QED
      BY <3>1, <3>2, PassFresh DEF BeforeCheck
  <2>2. CASE req[s].origin \notin cors.origins
    BY <1>3, <2>2, ReplyFresh DEF CorsList
  <2>. QED
    BY <2>1, <2>2
<1>4. CASE Authenticate(s)
  <2>1. CASE auth \in {None, req[s].key}
    <3>1. Step(s, "check") /\ UNCHANGED <<format, opts>> /\ Reads(s) /\ spc[s] = "authenticate"
      BY <1>4, <2>1 DEF Authenticate
    <3>2. auth = req[s].key
      BY <2>1 DEF IInv, KeysOK
    <3>3. MemorySeen(s) /\ HeldBy(s) => Held("check", req[s], format[s], opts[s], since[s])
      BY <3>1, <3>2 DEF MemorySeen, HeldBy, Held
    <3>. QED
      BY <3>1, <3>3, PassFresh DEF BeforeCheck
  <2>2. CASE auth \notin {None, req[s].key}
    BY <1>4, <2>2, ReplyFresh DEF Authenticate
  <2>. QED
    BY <2>1, <2>2
<1>5. CASE Check(s)
  <2>1. CASE Reply(s, "refused")
    BY <2>1, ReplyFresh
  <2>2. CASE ~cfgErr /\ Step(s, "format") /\ UNCHANGED <<format, opts>> /\ Reads(s)
    <3>1. spc[s] = "check"
      BY <1>5 DEF Check
    <3>2. MemorySeen(s) /\ HeldBy(s)
            => /\ Held("format", req[s], format[s], opts[s], since[s])
               /\ \E x \in since[s] : OptionsOf(x) = options
      BY <2>2, <3>1 DEF MemorySeen, HeldBy, Held
    <3>. QED
      BY <2>2, <3>2, PassFresh
  <2>. QED
    BY <1>5, <2>1, <2>2 DEF Check
<1>6. CASE ReadFormat(s)
  <2>. DEFINE f == IF req[s].format THEN None ELSE options.conf
  <2>1. /\ spc[s] = "format" /\ Step(s, "options") /\ Reads(s)
        /\ format' = [format EXCEPT ![s] = f]
    BY <1>6 DEF ReadFormat
  <2>2. opts' = [opts EXCEPT ![s] = opts[s]]
    BY <1>6 DEF ReadFormat, Types, RequestTypes
  <2>3. ASSUME MemorySeen(s), HeldBy(s)
        PROVE  /\ Held("options", req[s], f, opts[s], since[s])
               /\ \E x \in since[s] : OptionsOf(x) = options
    <3>1. PICK x \in since[s] : OptionsOf(x) = options
      BY <2>1, <2>3 DEF MemorySeen, BeforeCheck
    <3>2. req[s].format \/ f = x.conf
      BY <3>1 DEF OptionsOf
    <3>. HIDE DEF f
    <3>. QED
      BY <2>1, <2>3, <3>1, <3>2 DEF HeldBy, Held
  <2>. HIDE DEF f
  <2>. QED
    BY <2>1, <2>2, <2>3, ReadFresh
<1>7. CASE ReadOptions(s)
  <2>. DEFINE o == [conf |-> options.conf, rate |-> options.rate, speaker |-> options.row,
                    resource |-> 0, model |-> ModelOf(options.row, 0)]
              p == IF req[s].voice = None THEN "synthesise" ELSE "voice"
  <2>1. /\ spc[s] = "options" /\ Step(s, p) /\ Reads(s)
        /\ opts' = [opts EXCEPT ![s] = o]
    BY <1>7 DEF ReadOptions
  <2>2. format' = [format EXCEPT ![s] = format[s]]
    BY <1>7 DEF ReadOptions, Types, RequestTypes
  <2>3. ASSUME MemorySeen(s), HeldBy(s)
        PROVE  /\ Held(p, req[s], format[s], o, since[s])
               /\ \E x \in since[s] : OptionsOf(x) = options
    <3>1. PICK x \in since[s] : OptionsOf(x) = options
      BY <2>1, <2>3 DEF MemorySeen, BeforeCheck
    <3>2. o.conf = x.conf /\ o.rate = x.rate /\ o.speaker = x.row /\ o.model = ModelOf(x.row, 0)
      BY <3>1 DEF OptionsOf
    <3>3. p \in {"synthesise", "voice"} /\ (p = "synthesise" => req[s].voice = None)
      OBVIOUS
    <3>. HIDE DEF o, p
    <3>. QED
      BY <2>1, <2>3, <3>1, <3>2, <3>3 DEF HeldBy, Held
  <2>. HIDE DEF o, p
  <2>. QED
    BY <2>1, <2>2, <2>3, ReadFresh
<1>8. CASE LookUp(s)
  <2>. DEFINE row == voices[req[s].voice]
              o == [conf |-> opts[s].conf, rate |-> opts[s].rate, speaker |-> row,
                    resource |-> row, model |-> ModelOf(row, opts[s].model)]
  <2>1. CASE row \notin enabled
    BY <1>8, <2>1, ReplyFresh DEF LookUp
  <2>2. CASE row \in enabled
    <3>1. spc[s] = "voice" /\ Step(s, "synthesise") /\ Reads(s)
      BY <1>8, <2>2 DEF LookUp
    <3>2. opts' = [opts EXCEPT ![s] = o]
      BY <1>8, <2>2 DEF LookUp
    <3>3. format' = [format EXCEPT ![s] = format[s]]
      BY <1>8, <2>2 DEF LookUp, Types, RequestTypes
    <3>4. req[s].voice # None
      BY <3>1, ConfigAssumption DEF Types, RequestTypes
    <3>5. ASSUME MemorySeen(s), HeldBy(s)
          PROVE  /\ Held("synthesise", req[s], format[s], o, since[s])
                 /\ \E x \in since[s] : OptionsOf(x) = options
      <4>1. PICK x \in since[s] : /\ opts[s].conf = x.conf /\ opts[s].rate = x.rate
                                  /\ opts[s].model = ModelOf(x.row, 0)
        BY <3>1, <3>5 DEF HeldBy, Held
      <4>2. o.conf = x.conf /\ o.rate = x.rate /\ o.model = ModelOf(o.speaker, ModelOf(x.row, 0))
        BY <4>1
      <4>3. \E y \in since[s] : OptionsOf(y) = options
        BY <3>1, <3>5 DEF MemorySeen, BeforeCheck
      <4>. HIDE DEF o
      <4>. QED
        BY <3>1, <3>4, <3>5, <4>2, <4>3 DEF HeldBy, Held
    <3>. HIDE DEF o
    <3>. QED
      BY <3>1, <3>2, <3>3, <3>5, ReadFresh
  <2>. QED
    BY <2>1, <2>2
<1>9. CASE LookUpFails(s) \/ Synthesise(s)
  BY <1>9, ReplyFresh DEF LookUpFails, Synthesise
<1>. QED
  BY <1>1, <1>2, <1>3, <1>4, <1>5, <1>6, <1>7, <1>8, <1>9 DEF Request

\* The switches have nothing to do with it.
LEMMA ToggleFresh ==
  ASSUME FreshInv, \/ \E t \in Togglers : Toggle(t)
                   \/ UNCHANGED all
  PROVE  FreshInv'
<1>1. Beside /\ UNCHANGED <<since, spc, req, format, opts>>
  BY DEF Toggle, Switch, SwitchFind, SwitchRow, SwitchFails, Switched, Beside, speech, history, all
<1>. QED
  BY <1>1, OthersFresh, BesideKeeps DEF FreshInv, Beside

\* It holds throughout.
LEMMA FreshInductive ==
  ASSUME ~Dangling
  PROVE  SpeechSpec => []FreshInv
<1>1. SpeechInit => EffectInv /\ FreshInv
  <2>. SUFFICES ASSUME SpeechInit PROVE EffectInv /\ FreshInv
    OBVIOUS
  <2>1. Init /\ ~silent /\ \A s \in Requests : since[s] = {}
    BY DEF SpeechInit
  <2>2. DefaultInv
    BY <2>1, DefaultInit
  <2>3. EffectInv
    BY <2>1 DEF Init, EffectInv, Clean, Undisturbed
  <2>4. Kept
    BY <2>1 DEF Init, Kept, Busy, Answers, OptionsShown, StoredOptions, AuthShown
  <2>. QED
    BY <2>1, <2>2, <2>3, <2>4 DEF FreshInv
<1>2. All /\ All' /\ EffectInv /\ FreshInv /\ [SpeechNext]_all => EffectInv' /\ FreshInv'
  <2>. SUFFICES ASSUME All, All', EffectInv, FreshInv, [SpeechNext]_all
                PROVE  EffectInv' /\ FreshInv'
    OBVIOUS
  <2>1. IInv /\ IInv' /\ Types
    BY DEF All
  <2>2. EffectInv'
    BY <2>1, StepsOfConfig, EffectStep
  <2>3. FreshInv'
    BY <2>1, AdministerFresh, RequestFresh, ToggleFresh DEF SpeechNext, Over
  <2>. QED
    BY <2>2, <2>3
<1>. QED
  BY <1>1, <1>2, SpeechInductive, PTL DEF SpeechSpec

(* On a service that was set up with the voice it defaults to, a request    *)
(* that arrives when no change is under way, and before any two of them     *)
(* have met or a query has failed unnoticed, reaches the service only for   *)
(* an origin, under a key and with options that were in force since it      *)
(* arrived, also when reloads fail: the recorded error keeps it from what a *)
(* failed one has left behind.                                              *)
THEOREM FreshHolds ==
  ASSUME ~Dangling
  PROVE  SpeechSpec => []Fresh
<1>1. FreshInv => Fresh
  BY DEF FreshInv, HeldBy, Held, Fresh
<1>. QED
  BY <1>1, FreshInductive, PTL

(* The default speaker names a voice that exists for as long as no two      *)
(* administrators have met and no query has failed unnoticed, although      *)
(* nothing keeps them from meeting: what DefaultExistsHolds assumes of the  *)
(* whole run is needed of the past only.                                    *)
THEOREM DefaultExistsUntilTheyMeet ==
  ASSUME ~Dangling
  PROVE  SpeechSpec => [](~silent => DefaultExists)
<1>1. FreshInv => (~silent => DefaultExists)
  BY DEF FreshInv, DefaultInv
<1>. QED
  BY <1>1, FreshInductive, PTL

-----------------------------------------------------------------------------
(* The CORS lists.  Unlike the options they are never stale: a reload that   *)
(* fails has not changed what is stored of them.                             *)

CorsAgrees == cors \in {CorsOf(db.all, db.origins), LoadedCors(db)}

CorsPending(h) == job[h].kind = "cors" /\ pc[h] \in {"read_all", "read_origins", "set_cors"}

CorsInv ==
  ~silent => /\ \A h \in Handlers : Busy(h) => solo[h]
             /\ CorsAgrees \/ \E h \in Handlers : CorsPending(h)

\* How a step of an undisturbed handler moves the lists and what is stored of them.
LEMMA CorsFollows ==
  ASSUME IInv, NEW h \in Handlers, Handle(h), OnCourse(h), OnCourse(h)'
  PROVE  \/ CorsAgrees'
         \/ CorsPending(h)'
         \/ /\ cors' = cors /\ db'.all = db.all /\ db'.origins = db.origins
            /\ ~CorsPending(h)
<1>0. /\ job[h] \in Jobs \cup {NoJob} /\ Fits(pc[h], job[h], snap[h]) /\ db \in Settings
      /\ job' = job
  BY HandleApart DEF IInv, HandlersOK, DataOK, Apart
<1>1. CASE SetCors(h)
  <2>1. /\ pc[h] = "set_cors" /\ job[h].kind \in {"update", "cors"}
        /\ job[h].kind = "update" => pc'[h] = "clear_err"
        /\ job[h].kind # "update" => pc'[h] = "ok"
    BY <1>1, StepPlaces DEF SetCors, Answer, OnCourse, Course
  <2>2. CASE job[h].kind = "update"
    BY <1>0, <2>1, <2>2 DEF OnCourse, Course, UpdateCourse, CorsAgrees
  <2>3. CASE job[h].kind = "cors"
    BY <1>0, <2>1, <2>3 DEF OnCourse, Course, CorsCourse, CorsAgrees
  <2>. QED
    BY <2>1, <2>2, <2>3
<1>2. CASE WriteCors(h)
  <2>1. pc'[h] = "read_all" /\ job[h].kind = "cors"
    BY <1>2, StepPlaces DEF WriteCors
  <2>. QED
    BY <1>0, <2>1 DEF CorsPending
<1>3. CASE ReadAll(h)
  <2>1. CASE job[h].kind = "cors"
    <3>1. pc'[h] = "read_origins"
      BY <1>3, <2>1, StepPlaces DEF ReadAll
    <3>. QED
      BY <1>0, <2>1, <3>1 DEF CorsPending
  <2>2. CASE job[h].kind # "cors"
    BY <1>3, <2>2 DEF ReadAll, Silent, memory, tables, CorsPending
  <2>. QED
    BY <2>1, <2>2
<1>4. CASE ReadOrigins(h)
  <2>1. pc[h] = "read_origins" /\ pc'[h] = "set_cors"
    BY <1>4, StepPlaces DEF ReadOrigins
  <2>2. CASE job[h].kind = "cors"
    BY <1>0, <2>1, <2>2 DEF CorsPending
  <2>3. CASE job[h].kind # "cors"
    BY <1>4, <2>3 DEF ReadOrigins, Silent, memory, tables, CorsPending
  <2>. QED
    BY <2>2, <2>3
<1>5. CASE WriteOptions(h) \/ WriteAuth(h) \/ WriteAdmin(h) \/ ClearAdmin(h)
  <2>1. cors' = cors /\ ~CorsPending(h)
    BY <1>5 DEF WriteOptions, WriteAuth, WriteAdmin, ClearAdmin, memory, CorsPending
  <2>2. db'.all = db.all /\ db'.origins = db.origins
    <3>1. WriteOptions(h) => db'.all = db.all /\ db'.origins = db.origins
      BY <1>0 DEF WriteOptions, Settings
    <3>2. WriteAuth(h) => db'.all = db.all /\ db'.origins = db.origins
      BY <1>0 DEF WriteAuth, Settings
    <3>3. WriteAdmin(h) \/ ClearAdmin(h) => db'.all = db.all /\ db'.origins = db.origins
      BY <1>0 DEF WriteAdmin, ClearAdmin, Settings
    <3>. QED
      BY <1>5, <3>1, <3>2, <3>3
  <2>. QED
    BY <2>1, <2>2
<1>6. CASE \/ Fail(h) \/ LoadSettings(h) \/ LoadVoice(h) \/ LoadRate(h) \/ SetOptions(h)
           \/ ClearErr(h) \/ FindDefault(h) \/ ReadAuth(h) \/ SetAuth(h) \/ SetAdmin(h)
           \/ FindVoice(h) \/ GetVoice(h) \/ ReadDefault(h) \/ InsertVoice(h) \/ DeleteVoice(h)
  BY <1>6 DEF Fail, LoadSettings, LoadVoice, LoadRate, SetOptions, ClearErr, FindDefault,
     ReadAuth, SetAuth, SetAdmin, FindVoice, GetVoice, ReadDefault, InsertVoice, DeleteVoice,
     Silent, memory, tables, CorsPending
<1>. QED
  BY <1>1, <1>2, <1>3, <1>4, <1>5, <1>6 DEF Handle

\* An administrator's step keeps the lists.
LEMMA AdministerCors ==
  ASSUME IInv, EffectInv, CorsInv, Administer
  PROVE  CorsInv'
<1>1. PICK h \in Handlers : Admit(h) \/ Handle(h)
  BY DEF Administer
<1>. SUFFICES ASSUME ~silent'
              PROVE  /\ \A q \in Handlers : Busy(q)' => solo'[q]
                     /\ CorsAgrees' \/ \E q \in Handlers : CorsPending(q)'
  BY DEF CorsInv
<1>2. /\ \A q \in Handlers : Busy(q) => solo[q]
      /\ CorsAgrees \/ \E q \in Handlers : CorsPending(q)
      /\ \A q \in Handlers : Busy(q) /\ solo[q] => solo'[q]
  BY DEF Administer, CorsInv, Busy
<1>3. CASE Admit(h)
  <2>1. /\ \A q \in Handlers : pc[q] \in Answers
        /\ \A q \in Handlers \ {h} : pc'[q] = pc[q]
    BY <1>2, <1>3, LoneWhileSolo, AdmitAlone
  <2>2. UNCHANGED <<tables, memory>>
    BY <1>3 DEF Admit
  <2>3. solo' = [q \in Handlers |-> q = h /\ \A r \in Handlers : pc[r] \in Answers]
    BY <1>3 DEF Admit
  <2>4. CorsAgrees
    BY <1>2, <2>1 DEF CorsPending, Answers
  <2>5. CorsAgrees'
    BY <2>2, <2>4 DEF CorsAgrees, tables, memory
  <2>. QED
    BY <2>1, <2>3, <2>5 DEF Busy
<1>4. CASE Handle(h)
  <2>1. Busy(h) /\ Apart(h) /\ solo[h] /\ solo'[h]
    BY <1>2, <1>4, HandleApart
  <2>2. /\ OnCourse(h) /\ OnCourse(h)'
        /\ \A q \in Handlers \ {h} : pc[q] \in Answers
    BY <1>4, <2>1, HandleCourse DEF EffectInv, Undisturbed
  <2>3. \A q \in Handlers \ {h} : ~CorsPending(q) /\ ~Busy(q)'
    BY <2>1, <2>2 DEF CorsPending, Answers, Apart, Busy
  <2>4. \/ CorsAgrees'
        \/ CorsPending(h)'
        \/ /\ cors' = cors /\ db'.all = db.all /\ db'.origins = db.origins
           /\ ~CorsPending(h)
    BY <1>4, <2>1, <2>2, CorsFollows
  <2>5. ASSUME cors' = cors, db'.all = db.all, db'.origins = db.origins, CorsAgrees
        PROVE  CorsAgrees'
    BY <2>5 DEF CorsAgrees, LoadedCors
  <2>. QED
    BY <1>2, <2>1, <2>3, <2>4, <2>5
<1>. QED
  BY <1>1, <1>3, <1>4

\* It holds throughout.
LEMMA CorsInductive == SpeechSpec => []CorsInv
<1>1. SpeechInit => EffectInv /\ CorsInv
  BY DEF SpeechInit, Init, EffectInv, Clean, Undisturbed, CorsInv, CorsAgrees, Busy, Answers
<1>2. IInv /\ EffectInv /\ CorsInv /\ [SpeechNext]_all => EffectInv' /\ CorsInv'
  <2>. SUFFICES ASSUME IInv, EffectInv, CorsInv, [SpeechNext]_all
                PROVE  EffectInv' /\ CorsInv'
    OBVIOUS
  <2>1. EffectInv'
    BY StepsOfConfig, EffectStep
  <2>2. CASE Administer
    BY <2>1, <2>2, AdministerCors
  <2>3. CASE \/ \E s \in Requests : Request(s)
             \/ \E t \in Togglers : Toggle(t)
             \/ UNCHANGED all
    <3>1. Beside
      BY <2>3 DEF Beside, Request, Arrive, CorsAll, CorsList, Authenticate, Check, ReadFormat,
         ReadOptions, LookUp, LookUpFails, Synthesise, Reads, Reply, Toggle, Switch, SwitchFind,
         SwitchRow, SwitchFails, Switched, history, all
    <3>2. UNCHANGED <<silent, db, cors, pc, job, solo>>
      BY <3>1 DEF Beside, vars, tables, memory, handlers
    <3>. QED
      BY <2>1, <3>2 DEF CorsInv, CorsAgrees, CorsPending, Busy
  <2>. QED
    BY <2>1, <2>2, <2>3 DEF SpeechNext, Over
<1>. QED
  BY <1>1, <1>2, ConfigInductive, PTL DEF SpeechSpec

(* The origins let in are those that are stored, but for the fall-back of a *)
(* reload on the environment, until two changes meet or a query fails       *)
(* unnoticed: reloads that fail do not take them apart.                     *)
THEOREM CorsAsStoredHolds == SpeechSpec => []CorsAsStored
<1>1. CorsInv => CorsAsStored
  BY DEF CorsInv, CorsAsStored, CorsAgrees, CorsPending, Quiet, Answers
<1>. QED
  BY <1>1, CorsInductive, PTL

-----------------------------------------------------------------------------
(* The configuration beside speech requests and switches: what is proved of *)
(* it alone carries over, for they only read what it keeps.                 *)

(* Seen without the speech requests and the switches, the service behaves   *)
(* as RuntimeConfig says: they change nothing of the configuration.         *)
THEOREM ImplementsRuntimeConfig == SpeechSpec => Spec
<1>1. SpeechInit => Init
  BY DEF SpeechInit
<1>2. [SpeechNext]_all => [Next]_vars
  BY StepsOfConfig
<1>. QED
  BY <1>1, <1>2, PTL DEF SpeechSpec, Spec

=============================================================================
