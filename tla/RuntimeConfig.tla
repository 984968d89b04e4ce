---------------------------- MODULE RuntimeConfig ----------------------------
(***************************************************************************)
(* The configuration of a running service: the settings and voices tables  *)
(* of the SQLite file, the copies that package setting keeps in memory,    *)
(* and the admin handlers that change the first and refresh the second.    *)
(*                                                                         *)
(* The store has one connection, so every SQL statement or transaction is  *)
(* one step; every Set* function of package setting is one step too, for   *)
(* it replaces its variable under ttsMu.  Between two steps of a handler   *)
(* any other handler may run.                                              *)
(*                                                                         *)
(* A definition introduced as a mutant is no part of the specification: it *)
(* is the definition that follows it with a plausible bug, for which the   *)
(* property that the README pairs it with must fail.                       *)
(***************************************************************************)
EXTENDS Naturals

CONSTANTS
  Handlers,    \* goroutines that serve admin requests
  Values,      \* versions of the settings that end up in volcano.Options
  Names,       \* voice names
  Keys,        \* credentials
  Origins,     \* CORS origins
  None,        \* no value
  EnvKey,      \* OPENAI_TTS_API_KEY, or None
  EnvAll,      \* CORS_ALLOW_ALL
  EnvOrigins,  \* ALLOWED_ORIGINS
  Dangling,    \* may default_speaker name none of the voices set up?
  Clients,     \* the requests that clients send
  Concurrent,  \* may two admin requests overlap?
  IOErrors,    \* may an SQL statement fail?
  MaxRequests, \* bound on the number of requests
  MaxRows      \* row numbers of the voices table

KeyOrNone == Keys \cup {None}

\* The requests, after the checks that need no state.  In an update and in a
\* CORS request a field that is None was not sent; an admin key that is None
\* was sent empty, and clears the key.
Jobs ==
  { j \in [kind: {"update"}, conf: Values \cup {None}, rate: Values \cup {None},
           def: Names \cup {None}] : <<j.conf, j.rate, j.def>> # <<None, None, None>> }
  \cup [kind: {"auth_key"}, key: Keys]
  \cup [kind: {"admin_key"}, key: KeyOrNone]
  \cup { j \in [kind: {"cors"}, all: BOOLEAN \cup {None}, origins: (SUBSET Origins) \cup {None}] :
           j.all # None \/ j.origins # None }
  \cup [kind: {"create", "delete"}, name: Names]

ASSUME ConfigAssumption ==
  /\ None \notin Values \cup Names \cup Keys
  /\ EnvKey \in Keys \cup {None}
  /\ EnvAll \in BOOLEAN
  /\ EnvOrigins \subseteq Origins
  /\ Clients \subseteq Jobs
  /\ {Dangling, Concurrent, IOErrors} \subseteq BOOLEAN
  /\ MaxRequests \in Nat
  /\ MaxRows \in Nat \ {0}

VARIABLES
  \* --- in the database
  db,       \* the settings table
  voices,   \* the voices table: the row of each name, 0 when it has none
  \* --- in memory, package setting
  options,  \* ttsOptions
  auth,     \* authAPIKeys
  admin,    \* adminAPIKeys and adminKeySource
  cors,     \* corsAllowAll and corsOrigins
  cfgErr,   \* ttsConfigErr # nil
  \* --- the handlers
  pc,       \* next step of each handler, or its last answer
  job,      \* the request it serves
  snap,     \* its local variables
  solo,     \* has it run with no other handler beside it and no failed query?
  requests  \* number of requests so far

tables   == <<db, voices>>
memory   == <<options, auth, admin, cors, cfgErr>>
handlers == <<pc, job, snap, solo, requests>>
vars     == <<tables, memory, handlers>>

Rows      == 0 .. MaxRows

\* conf: api_key, default_resource_id, model, default_format, explicit_language;
\* rate: sample_rate, bit_rate, model_type, enable_subtitle, timeout, which
\* LoadRuntimeConfig reads one by one, after the others.
Settings == [conf: Values, rate: Values, def: Names,
             auth: KeyOrNone, admin: KeyOrNone,
             all: BOOLEAN, origins: SUBSET Origins]

OptionsType == [conf: Values, rate: Values \cup {None}, row: Rows]
AdminType   == [key: KeyOrNone, source: {"admin_key", "auth_key", ""}]
CorsType    == [all: BOOLEAN, origins: SUBSET Origins]

NoJob == [kind |-> "none"]

Locals == [conf: Values \cup {None}, rate: Values \cup {None}, def: Names \cup {None},
           auth: KeyOrNone, admin: KeyOrNone, all: BOOLEAN,
           origins: SUBSET Origins, row: Rows]
NoLocals == [conf |-> None, rate |-> None, def |-> None, auth |-> None,
             admin |-> None, all |-> FALSE, origins |-> {}, row |-> 0]

Answers  == {"idle", "ok", "refused", "failed"}
InFlight == {"find_default", "write", "read_auth", "clear",
             "load_settings", "load_voice", "load_rate", "set_options",
             "set_auth", "set_admin", "read_all", "read_origins", "set_cors",
             "clear_err", "find", "get", "read_default", "delete"}

-----------------------------------------------------------------------------
(* What the settings mean.                                                 *)

\* The database takes precedence over the environment.
AuthOf(s) == IF s.auth # None THEN s.auth ELSE EnvKey

\* admin_key, else the authentication key, else nothing.
AdminOf(s) ==
  IF s.admin # None THEN [key |-> s.admin, source |-> "admin_key"]
  ELSE IF AuthOf(s) # None THEN [key |-> AuthOf(s), source |-> "auth_key"]
  ELSE [key |-> None, source |-> ""]

\* "Allow all" empties the list.
CorsOf(all, origins) == [all |-> all, origins |-> IF all THEN {} ELSE origins]

\* LoadRuntimeConfig falls back on the environment, the CORS handler does not.
LoadedCors(s) ==
  CorsOf(s.all \/ EnvAll, IF s.origins = {} THEN EnvOrigins ELSE s.origins)

-----------------------------------------------------------------------------
(* Requests.                                                               *)

GoTo(h, step) == pc' = [pc EXCEPT ![h] = step]

\* The request is answered and its local variables are gone.
Answer(h, a) == GoTo(h, a) /\ snap' = [snap EXCEPT ![h] = NoLocals]

\* A step of handler h that touches neither tables nor memory.
Silent(h) == UNCHANGED <<tables, memory, job, requests>>

\* A query that may have failed unnoticed: what it was to find, or a default.
Found(h, value, default) ==
  {<<value, solo>>}
  \cup (IF IOErrors THEN {<<default, [solo EXCEPT ![h] = FALSE]>>} ELSE {})

FirstStep(j) ==
  CASE j.kind = "update" /\ j.def # None    -> "find_default"
    [] j.kind = "admin_key" /\ j.key = None -> "read_auth"
    [] j.kind = "delete"                    -> "find"
    [] OTHER                                -> "write"

\* RequireAdmin lets a request in that shows the admin credential; nobody can
\* show one that does not exist.
Admit(h) ==
  /\ pc[h] \in Answers
  /\ admin.key # None
  /\ requests < MaxRequests
  /\ LET alone == \A q \in Handlers : pc[q] \in Answers
     IN  /\ Concurrent \/ alone
         /\ solo' = [q \in Handlers |-> q = h /\ alone]
  /\ \E j \in Clients :
       /\ job' = [job EXCEPT ![h] = j]
       /\ GoTo(h, FirstStep(j))
  /\ requests' = requests + 1
  /\ UNCHANGED <<tables, memory, snap>>

\* A query or a write fails and the handler answers 500.  A failure of the
\* query that opens LoadRuntimeConfig is recorded in ttsConfigErr.
Fail(h) ==
  /\ IOErrors
  /\ pc[h] \in {"find_default", "write", "clear", "load_settings",
                "find", "get", "read_default", "delete"}
  /\ cfgErr' = (cfgErr \/ pc[h] = "load_settings")
  /\ Answer(h, "failed")
  /\ UNCHANGED <<tables, options, auth, admin, cors, job, solo, requests>>

-----------------------------------------------------------------------------
(* PUT /api/settings and /api/settings/api-key: write, then reload.        *)

\* default_speaker must name a voice.
FindDefault(h) ==
  /\ pc[h] = "find_default"
  /\ IF voices[job[h].def] # 0
     THEN GoTo(h, "write") /\ UNCHANGED snap
     ELSE Answer(h, "refused")
  /\ Silent(h) /\ UNCHANGED solo

\* The value of a field after a request that may have sent one.
Sent(new, old) == IF new = None THEN old ELSE new

\* Mutant: the copies in memory are not refreshed.
WriteOptionsOnly(h) ==
  /\ pc[h] = "write"
  /\ job[h].kind = "update"
  /\ db' = [db EXCEPT !.conf = Sent(job[h].conf, @),
                      !.rate = Sent(job[h].rate, @),
                      !.def  = Sent(job[h].def, @)]
  /\ Answer(h, "ok")
  /\ UNCHANGED <<voices, memory, job, solo, requests>>

\* SettingsSetBatch: the fields that were sent, in one transaction.
WriteOptions(h) ==
  /\ pc[h] = "write"
  /\ job[h].kind = "update"
  /\ db' = [db EXCEPT !.conf = Sent(job[h].conf, @),
                      !.rate = Sent(job[h].rate, @),
                      !.def  = Sent(job[h].def, @)]
  /\ GoTo(h, "load_settings")
  /\ UNCHANGED <<voices, memory, job, snap, solo, requests>>

\* LoadRuntimeConfig: SettingsGetAll ...
LoadSettings(h) ==
  /\ pc[h] = "load_settings"
  /\ snap' = [snap EXCEPT ![h] =
                [@ EXCEPT !.conf = db.conf, !.def = db.def, !.auth = db.auth,
                          !.admin = db.admin, !.origins = db.origins]]
  /\ GoTo(h, "load_voice")
  /\ Silent(h) /\ UNCHANGED solo

\* Mutant: the name of the voice is taken for its speaker.
LoadVoiceName(h) ==
  /\ pc[h] = "load_voice"
  /\ snap' = [snap EXCEPT ![h].row = snap[h].def]
  /\ GoTo(h, "load_rate")
  /\ Silent(h) /\ UNCHANGED solo

\* ... GetVoiceForTTS: with no such voice, or no answer, the name itself is
\* used as the speaker (row 0) ...
LoadVoice(h) ==
  /\ pc[h] = "load_voice"
  /\ \E f \in Found(h, voices[snap[h].def], 0) :
       /\ snap' = [snap EXCEPT ![h].row = f[1]]
       /\ solo' = f[2]
  /\ GoTo(h, "load_rate")
  /\ Silent(h)

\* ... the numeric and Boolean settings, each with a default ...
LoadRate(h) ==
  /\ pc[h] = "load_rate"
  /\ \E f \in Found(h, db.rate, None) :
       /\ snap' = [snap EXCEPT ![h].rate = f[1]]
       /\ solo' = f[2]
  /\ GoTo(h, "set_options")
  /\ Silent(h)

\* ... and then the copies are replaced, one after the other.
SetOptions(h) ==
  /\ pc[h] = "set_options"
  /\ options' = [conf |-> snap[h].conf, rate |-> snap[h].rate, row |-> snap[h].row]
  /\ GoTo(h, "set_auth")
  /\ UNCHANGED <<tables, auth, admin, cors, cfgErr, job, snap, solo, requests>>

\* Mutant: an earlier failure stays recorded.
ClearErrForgotten(h) ==
  /\ pc[h] = "clear_err"
  /\ Answer(h, "ok")
  /\ UNCHANGED <<tables, memory, job, solo, requests>>

ClearErr(h) ==
  /\ pc[h] = "clear_err"
  /\ cfgErr' = FALSE
  /\ Answer(h, "ok")
  /\ UNCHANGED <<tables, options, auth, admin, cors, job, solo, requests>>

-----------------------------------------------------------------------------
(* PUT /api/settings/auth-key and /admin-key: write, then replace the one  *)
(* list in memory.                                                         *)

WriteAuth(h) ==
  /\ pc[h] = "write"
  /\ job[h].kind = "auth_key"
  /\ db'   = [db EXCEPT !.auth = job[h].key]
  /\ snap' = [snap EXCEPT ![h].auth = job[h].key]
  /\ GoTo(h, "set_auth")
  /\ UNCHANGED <<voices, memory, job, solo, requests>>

\* Mutant: no fall-back on the environment.
SetAuthFromDb(h) ==
  /\ pc[h] = "set_auth"
  /\ auth' = snap[h].auth
  /\ IF job[h].kind = "update" THEN GoTo(h, "set_admin") /\ UNCHANGED snap
                               ELSE Answer(h, "ok")
  /\ UNCHANGED <<tables, options, admin, cors, cfgErr, job, solo, requests>>

\* SetAuthAPIKeys, by this handler and by LoadRuntimeConfig.
SetAuth(h) ==
  /\ pc[h] = "set_auth"
  /\ auth' = AuthOf(snap[h])
  /\ IF job[h].kind = "update" THEN GoTo(h, "set_admin") /\ UNCHANGED snap
                               ELSE Answer(h, "ok")
  /\ UNCHANGED <<tables, options, admin, cors, cfgErr, job, solo, requests>>

WriteAdmin(h) ==
  /\ pc[h] = "write"
  /\ job[h].kind = "admin_key"
  /\ db'   = [db EXCEPT !.admin = job[h].key]
  /\ snap' = [snap EXCEPT ![h].admin = job[h].key]
  /\ GoTo(h, "set_admin")
  /\ UNCHANGED <<voices, memory, job, solo, requests>>

\* Mutant: the admin key is cleared whatever there is to fall back on.
ReadAuthUnchecked(h) ==
  /\ pc[h] = "read_auth"
  /\ \E f \in Found(h, db.auth, None) :
       /\ solo' = f[2]
       /\ snap' = [snap EXCEPT ![h].auth = f[1]]
  /\ GoTo(h, "clear")
  /\ Silent(h)

\* An empty admin key: refused unless the database has an authentication key
\* to fall back on.  A failed query counts as "has none".
ReadAuth(h) ==
  /\ pc[h] = "read_auth"
  /\ \E f \in Found(h, db.auth, None) :
       /\ solo' = f[2]
       /\ IF f[1] = None
          THEN Answer(h, "refused")
          ELSE GoTo(h, "clear") /\ snap' = [snap EXCEPT ![h].auth = f[1]]
  /\ Silent(h)

ClearAdmin(h) ==
  /\ pc[h] = "clear"
  /\ db' = [db EXCEPT !.admin = None]
  /\ GoTo(h, "set_admin")
  /\ UNCHANGED <<voices, memory, job, snap, solo, requests>>

\* SetAdminKeys, by this handler and by LoadRuntimeConfig.
SetAdmin(h) ==
  /\ pc[h] = "set_admin"
  /\ IF job[h].kind = "update"
     THEN /\ admin' = AdminOf(snap[h])
          /\ GoTo(h, "read_all")
          /\ UNCHANGED snap
     ELSE /\ admin' = IF snap[h].admin # None
                      THEN [key |-> snap[h].admin, source |-> "admin_key"]
                      ELSE [key |-> snap[h].auth, source |-> "auth_key"]
          /\ Answer(h, "ok")
  /\ UNCHANGED <<tables, options, auth, cors, cfgErr, job, solo, requests>>

-----------------------------------------------------------------------------
(* PUT /api/settings/cors: write, read back, replace the CORS lists.       *)

WriteCors(h) ==
  /\ pc[h] = "write"
  /\ job[h].kind = "cors"
  /\ db' = [db EXCEPT !.all     = Sent(job[h].all, @),
                      !.origins = Sent(job[h].origins, @)]
  /\ GoTo(h, "read_all")
  /\ UNCHANGED <<voices, memory, job, snap, solo, requests>>

\* Mutant: "allow all" is not read back.
ReadAllForgotten(h) ==
  /\ pc[h] = "read_all"
  /\ GoTo(h, IF job[h].kind = "update" THEN "set_cors" ELSE "read_origins")
  /\ UNCHANGED snap
  /\ Silent(h) /\ UNCHANGED solo

\* SettingsGetBool, by this handler and by LoadRuntimeConfig.
ReadAll(h) ==
  /\ pc[h] = "read_all"
  /\ \E f \in Found(h, db.all, FALSE) :
       /\ snap' = [snap EXCEPT ![h].all = f[1]]
       /\ solo' = f[2]
  /\ GoTo(h, IF job[h].kind = "update" THEN "set_cors" ELSE "read_origins")
  /\ Silent(h)

ReadOrigins(h) ==
  /\ pc[h] = "read_origins"
  /\ \E f \in Found(h, db.origins, {}) :
       /\ snap' = [snap EXCEPT ![h].origins = f[1]]
       /\ solo' = f[2]
  /\ GoTo(h, "set_cors")
  /\ Silent(h)

\* SetCORS, by this handler and by LoadRuntimeConfig.
SetCors(h) ==
  /\ pc[h] = "set_cors"
  /\ IF job[h].kind = "update"
     THEN /\ cors' = LoadedCors(snap[h])
          /\ GoTo(h, "clear_err")
          /\ UNCHANGED snap
     ELSE /\ cors' = CorsOf(snap[h].all, snap[h].origins)
          /\ Answer(h, "ok")
  /\ UNCHANGED <<tables, options, auth, admin, cfgErr, job, solo, requests>>

-----------------------------------------------------------------------------
(* POST and DELETE /api/voices: the tables only, memory is not refreshed.  *)

\* AUTOINCREMENT never uses a row number again; the model does not use one that
\* the tables, the memory or a handler still refer to.
FreeRows ==
  { r \in 1 .. MaxRows :
      /\ \A n \in Names : voices[n] # r
      /\ \A h \in Handlers : snap[h].row # r
      /\ options.row # r }

\* VoiceInsert: names are unique.
InsertVoice(h) ==
  /\ pc[h] = "write"
  /\ job[h].kind = "create"
  /\ IF voices[job[h].name] # 0
     THEN Answer(h, "refused") /\ UNCHANGED tables
     ELSE /\ FreeRows # {}
          /\ voices' = [voices EXCEPT ![job[h].name] = CHOOSE r \in FreeRows : TRUE]
          /\ Answer(h, "ok")
          /\ UNCHANGED db
  /\ UNCHANGED <<memory, job, solo, requests>>

\* The handler looks the row up by name ...
FindVoice(h) ==
  /\ pc[h] = "find"
  /\ LET row == voices[job[h].name]
     IN  IF row = 0 THEN Answer(h, "refused")
         ELSE GoTo(h, "get") /\ snap' = [snap EXCEPT ![h].row = row]
  /\ Silent(h) /\ UNCHANGED solo

\* ... VoiceDelete by its number ...
GetVoice(h) ==
  /\ pc[h] = "get"
  /\ IF voices[job[h].name] # snap[h].row
     THEN Answer(h, "refused")
     ELSE GoTo(h, "read_default") /\ UNCHANGED snap
  /\ Silent(h) /\ UNCHANGED solo

\* Mutant: the default voice may be deleted.
ReadDefaultIgnored(h) ==
  /\ pc[h] = "read_default"
  /\ GoTo(h, "delete")
  /\ UNCHANGED snap
  /\ Silent(h) /\ UNCHANGED solo

\* ... a default voice is in use ...
ReadDefault(h) ==
  /\ pc[h] = "read_default"
  /\ IF db.def = job[h].name
     THEN Answer(h, "refused")
     ELSE GoTo(h, "delete") /\ UNCHANGED snap
  /\ Silent(h) /\ UNCHANGED solo

\* ... and any other is deleted, in a statement of its own.
DeleteVoice(h) ==
  /\ pc[h] = "delete"
  /\ IF voices[job[h].name] # snap[h].row
     THEN Answer(h, "refused") /\ UNCHANGED voices
     ELSE /\ voices' = [voices EXCEPT ![job[h].name] = 0]
          /\ Answer(h, "ok")
  /\ UNCHANGED <<db, memory, job, solo, requests>>

-----------------------------------------------------------------------------
\* A service that has been installed with one voice, and has just loaded its
\* configuration.  The set-up requires an authentication key; a database that
\* was set up before there was one relies on the environment.  The set-up does
\* not check that default_speaker names one of its voices.  The values of conf
\* and rate are never compared, so that they start out equal is no restriction.
Init ==
  /\ db \in Settings
  /\ db.rate = db.conf
  /\ AuthOf(db) # None
  /\ \E n \in Names :
       /\ n = db.def \/ Dangling
       /\ voices = [m \in Names |-> IF m = n THEN 1 ELSE 0]
  /\ options = [conf |-> db.conf, rate |-> db.rate, row |-> voices[db.def]]
  /\ auth    = AuthOf(db)
  /\ admin   = AdminOf(db)
  /\ cors    = LoadedCors(db)
  /\ cfgErr  = FALSE
  /\ pc      = [h \in Handlers |-> "idle"]
  /\ job     = [h \in Handlers |-> NoJob]
  /\ snap    = [h \in Handlers |-> NoLocals]
  /\ solo    = [h \in Handlers |-> FALSE]
  /\ requests = 0

\* One handler after it has been admitted.
Handle(h) ==
  \/ Fail(h) \/ FindDefault(h) \/ WriteOptions(h)
  \/ LoadSettings(h) \/ LoadVoice(h) \/ LoadRate(h) \/ SetOptions(h) \/ ClearErr(h)
  \/ WriteAuth(h) \/ SetAuth(h)
  \/ WriteAdmin(h) \/ ReadAuth(h) \/ ClearAdmin(h) \/ SetAdmin(h)
  \/ WriteCors(h) \/ ReadAll(h) \/ ReadOrigins(h) \/ SetCors(h)
  \/ InsertVoice(h) \/ FindVoice(h) \/ GetVoice(h) \/ ReadDefault(h) \/ DeleteVoice(h)

Quiet == \A h \in Handlers : pc[h] \in Answers

\* All requests have been answered and no more are sent.
Rest == Quiet /\ requests = MaxRequests /\ UNCHANGED vars

Next ==
  \/ \E h \in Handlers : Admit(h) \/ Handle(h)
  \/ Rest

Spec == Init /\ [][Next]_vars

\* The Go runtime schedules the goroutine of every request.
FairSpec == Spec /\ \A h \in Handlers : WF_vars(Handle(h))

-----------------------------------------------------------------------------
(* Properties.                                                             *)

TypeOK ==
  /\ db \in Settings
  /\ voices \in [Names -> Rows]
  /\ options \in OptionsType
  /\ auth \in KeyOrNone
  /\ admin \in AdminType
  /\ cors \in CorsType
  /\ cfgErr \in BOOLEAN
  /\ pc \in [Handlers -> Answers \cup InFlight]
  /\ job \in [Handlers -> Jobs \cup {NoJob}]
  /\ snap \in [Handlers -> Locals]
  /\ solo \in [Handlers -> BOOLEAN]
  /\ requests \in 0 .. MaxRequests

\* ValidateAPIKey lets everybody in while there is no key: a service that has
\* an authentication key never drops to having none, whatever admin requests
\* overlap and whichever of their queries fail.
AuthNeverOpen == auth # None

\* RequireAdmin answers 401 to everybody while there is no admin credential:
\* no sequence of admin requests locks the administrator out.
AdminNeverLockedOut == admin.key # None

\* A change that was acknowledged has taken effect, when its handler met no
\* other request and no failing query - and an update then repairs whatever
\* earlier races have left behind.
TakesEffect ==
  \A h \in Handlers : pc[h] = "ok" /\ solo[h] =>
    CASE job[h].kind = "update" ->
           /\ options = [conf |-> db.conf, rate |-> db.rate, row |-> voices[db.def]]
           /\ auth = AuthOf(db)
           /\ admin = AdminOf(db)
           /\ cors = LoadedCors(db)
           /\ ~cfgErr
      [] job[h].kind = "auth_key"  -> auth = db.auth /\ auth = job[h].key
      [] job[h].kind = "admin_key" -> admin = AdminOf(db) /\ db.admin = job[h].key
      [] job[h].kind = "cors"      -> cors = CorsOf(db.all, db.origins)
      [] job[h].kind = "create"    -> voices[job[h].name] # 0
      [] job[h].kind = "delete"    -> voices[job[h].name] = 0

\* When default_speaker was set up to name a voice it goes on to do so, as long
\* as administrators work one at a time: controller/settings.go checks it when
\* it is set, store/voices.go refuses to delete the voice it names.
DefaultExists == voices[db.def] # 0

\* An administrator who works alone, on a service whose default voice exists,
\* sees every change of the options, the authentication key and the admin key
\* take effect, at once and as a whole.
Live == INSTANCE LiveSettings WITH
  stored    <- <<db.conf, db.rate, voices[db.def], AuthOf(db), db.admin>>,
  effective <- <<options.conf, options.rate, options.row, auth,
                 IF admin.source = "admin_key" THEN admin.key ELSE None>>

ChangesAreLive == Live!LSpec

\* With an admin key of its own, the administration no longer opens to the
\* authentication key (middleware/admin_auth.go, RequireAdmin).
AdminIsolated ==
  Quiet /\ db.admin \notin {None, AuthOf(db)} => admin.source = "admin_key"

\* A service without an admin key takes its authentication key for the
\* administration too, the current one (controller/settings.go, auth-key:
\* the next request uses the new key).
AdminFollowsAuth == Quiet /\ db.admin = None => admin.key = AuthOf(db)

=============================================================================
