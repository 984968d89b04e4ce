------------------------------- MODULE Speech -------------------------------
(***************************************************************************)
(* Speech requests on a running service, beside the administrators who     *)
(* change its configuration (RuntimeConfig) and switch voices on and off.  *)
(* A request reads the copies of the configuration one by one, each under  *)
(* its lock: the two halves of the CORS lists, the authentication key, the *)
(* recorded error, the options once for the format and once for the rest;  *)
(* and the voice that it names in the database.  Between two of these      *)
(* reads anything may change.                                              *)
(*                                                                         *)
(* The speaker, the resource and the model of a synthesis are given by the *)
(* row of the voices table that they come from, 0 when they come from the  *)
(* settings.  The call of the service is module Synthesis, here one step;  *)
(* the metrics of the request are left out.  The service is installed.     *)
(*                                                                         *)
(* A definition introduced as a mutant is no part of the specification.    *)
(***************************************************************************)
EXTENDS RuntimeConfig

CONSTANTS
  Requests,   \* goroutines that serve speech requests
  Togglers,   \* goroutines that serve a switch of a voice
  Asks,       \* the speech requests that clients send
  MaxSwitches, \* bound on the number of switches
  OwnModel    \* the rows whose voice has a model of its own

\* A request without an Origin header, or from the service's own pages, has no
\* origin.  One whose format is not recognised is one that names none.
SpeechRequests == [key: KeyOrNone, voice: Names \cup {None},
                   format: BOOLEAN, origin: Origins \cup {None}]

ASSUME SpeechAssumption ==
  /\ None \notin Origins
  /\ Asks \subseteq SpeechRequests
  /\ OwnModel \subseteq 1 .. MaxRows
  /\ MaxSwitches \in Nat

VARIABLES
  enabled,   \* the rows with a voice that is switched on
  spc,       \* next step of each speech request, or its answer
  req,       \* the request
  format,    \* the options that its format comes from, None: it names one
  opts,      \* what is to be synthesised with
  tpc,       \* next step of each toggler, or its last answer
  want,      \* the switch that it is asked for
  trow,      \* the row that it has found, 0 once that row is deleted
  switches,  \* number of switches so far
  \* --- history
  since,     \* what was in force since a request arrived
  muted,     \* names whose voice has been switched off, and not on or created since
  unheard,   \* has the voice that a request names been muted since it arrived?
  silent     \* has a query failed unnoticed, or a request met another?

speech  == <<spc, req, format, opts>>
toggler == <<tpc, want, trow, switches>>
history == <<since, muted, unheard, silent>>
all     == <<vars, enabled, speech, toggler, history>>

NoRequest == [key |-> None, voice |-> None, format |-> FALSE, origin |-> None]

OptsType == [conf: Values \cup {None}, rate: Values \cup {None},
             speaker: Rows, resource: Rows, model: Rows]
NoOpts   == [conf |-> None, rate |-> None, speaker |-> 0, resource |-> 0, model |-> 0]

SpeechAnswers == {"ok", "refused", "failed"}
SpeechSteps == {"idle", "cors_all", "cors_list", "authenticate", "check",
                "format", "options", "voice", "synthesise"}

InForce == [conf |-> db.conf, rate |-> db.rate, row |-> voices[db.def],
            key |-> AuthOf(db), cors |-> cors]

-----------------------------------------------------------------------------
(* The steps of a speech request.                                          *)

Step(s, next) == spc' = [spc EXCEPT ![s] = next]

\* A step of request s that touches nothing but what it reads.
Reads(s) == UNCHANGED <<vars, enabled, req, toggler, history>>

\* The request is answered, and gone.
Reply(s, a) ==
  /\ Step(s, a)
  /\ req' = [req EXCEPT ![s] = NoRequest]
  /\ format' = [format EXCEPT ![s] = None]
  /\ opts' = [opts EXCEPT ![s] = NoOpts]
  /\ since' = [since EXCEPT ![s] = {}]
  /\ unheard' = [unheard EXCEPT ![s] = FALSE]
  /\ UNCHANGED <<vars, enabled, toggler, muted, silent>>

\* What is in force is recorded for a request that arrives while no admin
\* request is in flight.
Arrive(s) ==
  /\ spc[s] = "idle"
  /\ \E r \in Asks :
       /\ req' = [req EXCEPT ![s] = r]
       /\ Step(s, IF r.origin = None THEN "authenticate" ELSE "cors_all")
       /\ unheard' = [unheard EXCEPT ![s] = (r.voice \in muted)]
  /\ since' = [since EXCEPT ![s] = IF Quiet /\ ~silent THEN {InForce} ELSE {}]
  /\ UNCHANGED <<vars, enabled, format, opts, toggler, muted, silent>>

\* matchOrigin reads "allow all" ...
CorsAll(s) ==
  /\ spc[s] = "cors_all"
  /\ Step(s, IF cors.all THEN "authenticate" ELSE "cors_list")
  /\ UNCHANGED <<format, opts>> /\ Reads(s)

\* ... and then, under the lock once more, the list.
CorsList(s) ==
  /\ spc[s] = "cors_list"
  /\ IF req[s].origin \in cors.origins
     THEN Step(s, "authenticate") /\ UNCHANGED <<format, opts>> /\ Reads(s)
     ELSE Reply(s, "refused")

\* ValidateAPIKey: everybody is let in while there is no key.
Authenticate(s) ==
  /\ spc[s] = "authenticate"
  /\ IF auth \in {None, req[s].key}
     THEN Step(s, "check") /\ UNCHANGED <<format, opts>> /\ Reads(s)
     ELSE Reply(s, "refused")

\* Mutant: a configuration that could not be loaded is used nonetheless.
CheckBodyOnly(s) ==
  /\ spc[s] = "check"
  /\ \/ Reply(s, "refused")
     \/ Step(s, "format") /\ UNCHANGED <<format, opts>> /\ Reads(s)

\* A recorded error refuses the request; so does a body that is too long, no
\* JSON, or without a text, whatever it asks for.
Check(s) ==
  /\ spc[s] = "check"
  /\ \/ Reply(s, "refused")
     \/ ~cfgErr /\ Step(s, "format") /\ UNCHANGED <<format, opts>> /\ Reads(s)

\* resolveClientFormat.
ReadFormat(s) ==
  /\ spc[s] = "format"
  /\ format' = [format EXCEPT ![s] = IF req[s].format THEN None ELSE options.conf]
  /\ Step(s, "options")
  /\ UNCHANGED opts /\ Reads(s)

ModelOf(row, default) == IF row \in OwnModel THEN row ELSE default

ReadOptions(s) ==
  /\ spc[s] = "options"
  /\ opts' = [opts EXCEPT ![s] =
       [conf |-> options.conf, rate |-> options.rate, speaker |-> options.row,
        resource |-> 0, model |-> ModelOf(options.row, 0)]]
  /\ Step(s, IF req[s].voice = None THEN "synthesise" ELSE "voice")
  /\ UNCHANGED format /\ Reads(s)

\* Mutant: to name a voice is enough to use it, be it switched off.
LookUpAny(s) ==
  /\ spc[s] = "voice"
  /\ LET row == voices[req[s].voice]
     IN  IF row # 0
         THEN /\ opts' = [opts EXCEPT ![s] =
                   [conf |-> @.conf, rate |-> @.rate, speaker |-> row, resource |-> row,
                    model |-> ModelOf(row, @.model)]]
              /\ Step(s, "synthesise")
              /\ UNCHANGED format /\ Reads(s)
         ELSE Reply(s, "refused")

\* The voice that is named must exist and be switched on.  Without a model of
\* its own it leaves that of the default voice.
LookUp(s) ==
  /\ spc[s] = "voice"
  /\ LET row == voices[req[s].voice]
     IN  IF row \in enabled
         THEN /\ opts' = [opts EXCEPT ![s] =
                   [conf |-> @.conf, rate |-> @.rate, speaker |-> row, resource |-> row,
                    model |-> ModelOf(row, @.model)]]
              /\ Step(s, "synthesise")
              /\ UNCHANGED format /\ Reads(s)
         ELSE Reply(s, "refused")

LookUpFails(s) ==
  /\ IOErrors
  /\ spc[s] = "voice"
  /\ Reply(s, "failed")

Synthesise(s) ==
  /\ spc[s] = "synthesise"
  /\ \E a \in {"ok", "failed"} : Reply(s, a)

-----------------------------------------------------------------------------
(* PATCH /api/voices/{name}/toggle.                                        *)

NoSwitch == [name |-> None, on |-> FALSE]

\* The switch is answered, and gone.
Switched(t, a) ==
  /\ tpc' = [tpc EXCEPT ![t] = a]
  /\ want' = [want EXCEPT ![t] = NoSwitch]
  /\ trow' = [trow EXCEPT ![t] = 0]
  /\ UNCHANGED <<vars, speech, switches, since, silent>>

\* RequireAdmin, as for the other admin requests.
Switch(t) ==
  /\ tpc[t] \in Answers
  /\ admin.key # None
  /\ switches < MaxSwitches
  /\ switches' = switches + 1
  /\ tpc' = [tpc EXCEPT ![t] = "find"]
  /\ \E n \in Names, on \in BOOLEAN : want' = [want EXCEPT ![t] = [name |-> n, on |-> on]]
  /\ UNCHANGED <<vars, enabled, speech, trow, history>>

\* The voice is looked up by its name ...
SwitchFind(t) ==
  /\ tpc[t] = "find"
  /\ LET row == voices[want[t].name]
     IN  IF row = 0
         THEN Switched(t, "refused") /\ UNCHANGED <<enabled, muted, unheard>>
         ELSE /\ trow' = [trow EXCEPT ![t] = row]
              /\ tpc' = [tpc EXCEPT ![t] = "switch"]
              /\ UNCHANGED <<vars, enabled, speech, want, switches, history>>

\* The names are no longer muted, nor are they for the requests that run.
Unmute(names) ==
  /\ muted' = muted \ names
  /\ unheard' = [s \in Requests |-> unheard[s] /\ req[s].voice \notin names]

\* The row is switched, and with it what the name stands for.
SetEnabled(t) ==
  IF want[t].on
  THEN enabled' = enabled \cup {trow[t]} /\ Unmute({want[t].name})
  ELSE /\ enabled' = enabled \ {trow[t]}
       /\ muted' = muted \cup {want[t].name}
       /\ UNCHANGED unheard

\* Mutant: that the row is gone goes unnoticed.
SwitchRowUnchecked(t) ==
  /\ tpc[t] = "switch"
  /\ SetEnabled(t)
  /\ Switched(t, "ok")

\* ... and switched by its number; a row that is gone is an error.
SwitchRow(t) ==
  /\ tpc[t] = "switch"
  /\ IF trow[t] = 0
     THEN Switched(t, "failed") /\ UNCHANGED <<enabled, muted, unheard>>
     ELSE Switched(t, "ok") /\ SetEnabled(t)

SwitchFails(t) ==
  /\ IOErrors
  /\ tpc[t] \in {"find", "switch"}
  /\ Switched(t, "failed")
  /\ UNCHANGED <<enabled, muted, unheard>>

-----------------------------------------------------------------------------
(* The administrators of RuntimeConfig.                                    *)

\* A voice is created switched on or off.  A deleted row is neither, and as
\* AUTOINCREMENT never uses its number again, nobody finds it any more.
Administer ==
  /\ \E h \in Handlers : Admit(h) \/ Handle(h)
  /\ LET rows    == {voices'[n] : n \in Names}
         created == {n \in Names : voices'[n] \notin {0, voices[n]}}
     IN  /\ \E on \in BOOLEAN :
              /\ on => created # {}
              /\ enabled' = (enabled \cap rows) \cup
                             IF on THEN {voices'[n] : n \in created} ELSE {}
         /\ trow' = [t \in Togglers |-> IF trow[t] \in rows THEN trow[t] ELSE 0]
         /\ Unmute(created)
  /\ silent' = (silent \/ \E h \in Handlers : pc[h] \notin Answers /\ solo[h] /\ ~solo'[h])
  /\ since' = [s \in Requests |-> IF since[s] = {} \/ silent' THEN {}
                                  ELSE since[s] \cup {InForce'}]
  /\ UNCHANGED <<speech, tpc, want, switches>>

-----------------------------------------------------------------------------

SpeechInit ==
  /\ Init
  /\ db.admin = None
  /\ enabled \in SUBSET ({voices[n] : n \in Names} \ {0})
  /\ spc      = [s \in Requests |-> "idle"]
  /\ req      = [s \in Requests |-> NoRequest]
  /\ format   = [s \in Requests |-> None]
  /\ opts     = [s \in Requests |-> NoOpts]
  /\ tpc      = [t \in Togglers |-> "idle"]
  /\ want     = [t \in Togglers |-> NoSwitch]
  /\ trow     = [t \in Togglers |-> 0]
  /\ switches = 0
  /\ since    = [s \in Requests |-> {}]
  /\ muted    = {}
  /\ unheard  = [s \in Requests |-> FALSE]
  /\ silent   = FALSE

Request(s) ==
  \/ Arrive(s) \/ CorsAll(s) \/ CorsList(s) \/ Authenticate(s) \/ Check(s)
  \/ ReadFormat(s) \/ ReadOptions(s) \/ LookUp(s) \/ LookUpFails(s) \/ Synthesise(s)

Toggle(t) == Switch(t) \/ SwitchFind(t) \/ SwitchRow(t) \/ SwitchFails(t)

\* Everything has been answered and no more is asked.
Over ==
  /\ Quiet /\ requests = MaxRequests /\ switches = MaxSwitches
  /\ \A s \in Requests : spc[s] \in SpeechAnswers
  /\ \A t \in Togglers : tpc[t] \in Answers
  /\ UNCHANGED all

SpeechNext ==
  \/ Administer
  \/ \E s \in Requests : Request(s)
  \/ \E t \in Togglers : Toggle(t)
  \/ Over

SpeechSpec == SpeechInit /\ [][SpeechNext]_all

-----------------------------------------------------------------------------
(* Properties.                                                             *)

SpeechTypeOK ==
  /\ TypeOK
  /\ enabled \subseteq {voices[n] : n \in Names} \ {0}
  /\ spc \in [Requests -> SpeechAnswers \cup SpeechSteps]
  /\ req \in [Requests -> SpeechRequests]
  /\ format \in [Requests -> Values \cup {None}]
  /\ opts \in [Requests -> OptsType]
  /\ tpc \in [Togglers -> Answers \cup {"find", "switch"}]
  /\ want \in [Togglers -> [name : Names \cup {None}, on : BOOLEAN]]
  /\ trow \in [Togglers -> Rows]
  /\ switches \in 0 .. MaxSwitches
  /\ since \in [Requests -> SUBSET [conf : Values, rate : Values, row : Rows,
                                    key : KeyOrNone, cors : CorsType]]
  /\ muted \subseteq Names
  /\ unheard \in [Requests -> BOOLEAN]
  /\ silent \in BOOLEAN

Admits(c, origin) == origin = None \/ c.all \/ origin \in c.origins

\* While administrators work one at a time and no query fails unnoticed, a
\* request that arrives when none of theirs is in flight is let through to the
\* service only for an origin, under a key and with options that were in force
\* at some moment since it arrived: nothing that an acknowledged change has
\* replaced is used again, nor what a failed reload has left behind
\* (controller/tts.go, middleware/auth.go, cors.go; setting/config.go).
Fresh ==
  \A s \in Requests :
    spc[s] = "synthesise" /\ since[s] # {} =>
      /\ \E x \in since[s] : Admits(x.cors, req[s].origin)
      /\ \E x \in since[s] : x.key = req[s].key
      /\ req[s].format \/ \E x \in since[s] : format[s] = x.conf
      /\ \E x \in since[s] :
           /\ opts[s].conf = x.conf /\ opts[s].rate = x.rate
           /\ IF req[s].voice = None
              THEN <<opts[s].speaker, opts[s].model>> = <<x.row, ModelOf(x.row, 0)>>
              ELSE opts[s].model = ModelOf(opts[s].speaker, ModelOf(x.row, 0))

\* While administrators work one at a time and no query fails unnoticed, the
\* origins let in are those stored, in one of the two readings the code has: the
\* reload falls back on the environment when nothing is stored, the handler of a
\* CORS request does not (setting/config.go; controller/settings.go).
CorsAsStored ==
  Quiet /\ ~silent => cors \in {CorsOf(db.all, db.origins), LoadedCors(db)}

\* A voice that has been switched off stays silent: no request that names it
\* gets it, until it is switched on or its name is given to a new voice,
\* however the switch overlaps with the deletion and the creation of voices
\* (controller/admin.go, AdminVoiceToggleHandler; controller/tts.go).
SwitchedOff ==
  /\ \A n \in muted : voices[n] \notin enabled
  /\ \A s \in Requests : spc[s] = "synthesise" => ~unheard[s]

=============================================================================
