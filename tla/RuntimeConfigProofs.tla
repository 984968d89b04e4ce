------------------------- MODULE RuntimeConfigProofs -------------------------
(***************************************************************************)
(* Proofs about RuntimeConfig, for every number of handlers, voices and    *)
(* keys, with any overlap of requests and any failure of a query: types,   *)
(* and that neither the authentication nor the administration is ever left *)
(* without a key.                                                          *)
(***************************************************************************)
EXTENDS RuntimeConfig, TLAPS

-----------------------------------------------------------------------------
(* What is known of a request from its kind.                               *)

\* An update carries some settings.
LEMMA UpdateJob ==
  ASSUME NEW j \in Jobs \cup {NoJob}, j.kind = "update"
  PROVE  /\ j.conf \in Values \cup {None}
         /\ j.rate \in Values \cup {None}
         /\ j.def \in Names \cup {None}
  BY DEF Jobs, NoJob

\* A change of the authentication key carries one.
LEMMA AuthJob ==
  ASSUME NEW j \in Jobs \cup {NoJob}, j.kind = "auth_key"
  PROVE  j.key \in Keys
  BY DEF Jobs, NoJob

\* A change of the admin key carries one, or none.
LEMMA AdminJob ==
  ASSUME NEW j \in Jobs \cup {NoJob}, j.kind = "admin_key"
  PROVE  j.key \in KeyOrNone
  BY DEF Jobs, NoJob, KeyOrNone

\* A CORS request carries the flag or the list.
LEMMA CorsJob ==
  ASSUME NEW j \in Jobs \cup {NoJob}, j.kind = "cors"
  PROVE  j.all \in BOOLEAN \cup {None} /\ j.origins \in (SUBSET Origins) \cup {None}
  BY DEF Jobs, NoJob

\* A voice request carries a name.
LEMMA VoiceJob ==
  ASSUME NEW j \in Jobs \cup {NoJob}, j.kind \in {"create", "delete"}
  PROVE  j.name \in Names
  BY DEF Jobs, NoJob

-----------------------------------------------------------------------------
(* The inductive invariant.  A credential in memory comes from the local    *)
(* variables of a handler, so the invariant says what those hold at every   *)
(* step that is yet to write one: it is there that "the database had a key  *)
(* when it was read" turns into "the list in memory is not empty".          *)

\* The steps at which LoadRuntimeConfig has read the settings.
Loading == {"load_voice", "load_rate", "set_options"}

\* What a handler at step p with job j has in its local variables s.
Fits(p, j, s) ==
  /\ p = "find_default" => j.kind = "update" /\ j.def \in Names
  /\ p \in Loading \cup {"load_settings", "clear_err"} => j.kind = "update"
  /\ p = "set_auth" => j.kind \in {"update", "auth_key"}
  /\ p \in {"read_auth", "clear"} => j.kind = "admin_key"
  /\ p = "set_admin" => j.kind \in {"update", "admin_key"}
  /\ p \in {"find", "get", "read_default", "delete"} => j.kind = "delete"
  /\ p \in Loading => s.conf \in Values /\ s.def \in Names
  /\ p \in Loading \cup {"set_auth"} => AuthOf(s) # None
  /\ p = "set_admin" /\ j.kind = "update" => AuthOf(s) # None
  /\ p = "write" /\ j.kind = "admin_key" => j.key # None
  /\ p = "clear" => s.auth # None
  /\ p = "set_admin" /\ j.kind = "admin_key" => s.admin # None \/ s.auth # None

Steps == Answers \cup InFlight

HandlersOK ==
  /\ pc \in [Handlers -> Steps]
  /\ job \in [Handlers -> Jobs \cup {NoJob}]
  /\ snap \in [Handlers -> Locals]
  /\ requests \in 0 .. MaxRequests
  /\ \A h \in Handlers : Fits(pc[h], job[h], snap[h])

DataOK ==
  /\ db \in Settings
  /\ voices \in [Names -> Rows]
  /\ options \in OptionsType
  /\ cors \in CorsType
  /\ cfgErr \in BOOLEAN
  /\ solo \in [Handlers -> BOOLEAN]

KeysOK ==
  /\ auth \in KeyOrNone
  /\ admin \in AdminType
  /\ AuthOf(db) # None
  /\ auth # None
  /\ admin.key # None

IInv == HandlersOK /\ DataOK /\ KeysOK

\* The invariant contains the types.
LEMMA InvariantType == IInv => TypeOK
  BY DEF IInv, HandlersOK, DataOK, KeysOK, TypeOK, Steps

\* The empty local variables are local variables.
LEMMA EmptyLocals == NoLocals \in Locals
  BY ConfigAssumption DEF NoLocals, Locals, KeyOrNone, Rows

-----------------------------------------------------------------------------
\* The invariant holds when the service has loaded its configuration.
LEMMA InvariantInit == Init => IInv
<1>. SUFFICES ASSUME Init PROVE IInv
  OBVIOUS
<1>1. db.def \in Names /\ db.conf \in Values /\ db \in Settings
  BY DEF Init, Settings
<1>2. voices \in [Names -> Rows]
  BY ConfigAssumption DEF Init, Rows
<1>3. options \in OptionsType
  BY <1>1, <1>2 DEF Init, OptionsType
<1>4. auth \in KeyOrNone /\ admin \in AdminType
  BY <1>1, ConfigAssumption DEF Init, AuthOf, AdminOf, AdminType, Settings, KeyOrNone
<1>5. AuthOf(db) # None /\ auth # None /\ admin.key # None
  BY DEF Init, AdminOf
<1>6. cors \in CorsType
  BY <1>1, ConfigAssumption DEF Init, LoadedCors, CorsOf, CorsType, Settings
<1>7. pc \in [Handlers -> Steps]
  BY DEF Init, Answers, Steps
<1>8. job \in [Handlers -> Jobs \cup {NoJob}]
  BY DEF Init
<1>9. requests \in 0 .. MaxRequests
  BY ConfigAssumption DEF Init
<1>10. snap \in [Handlers -> Locals] /\ solo \in [Handlers -> BOOLEAN] /\ cfgErr \in BOOLEAN
  BY EmptyLocals DEF Init
<1>11. \A h \in Handlers : Fits(pc[h], job[h], snap[h])
  BY DEF Init, Fits, Loading
<1>. QED
  BY <1>1, <1>2, <1>3, <1>4, <1>5, <1>6, <1>7, <1>8, <1>9, <1>10, <1>11
     DEF IInv, HandlersOK, DataOK, KeysOK

\* A failed query yields the default, a successful one what it was to find.
LEMMA FoundType ==
  ASSUME NEW h \in Handlers, NEW v, NEW d, NEW f \in Found(h, v, d),
         solo \in [Handlers -> BOOLEAN]
  PROVE  f[1] \in {v, d} /\ f[2] \in [Handlers -> BOOLEAN]
<1>1. f \in {<<v, solo>>, <<d, [solo EXCEPT ![h] = FALSE]>>}
  BY DEF Found
<1>2. CASE f = <<v, solo>>
  BY <1>2
<1>3. CASE f = <<d, [solo EXCEPT ![h] = FALSE]>>
  BY <1>3
<1>. QED
  BY <1>1, <1>2, <1>3

-----------------------------------------------------------------------------
(* A step of one handler leaves the others as they are: what remains to be  *)
(* shown is that its own new step fits what it holds.                       *)

\* A handler that moves to a step which its new local variables fit keeps its
\* part of the invariant.
LEMMA ReadMove ==
  ASSUME HandlersOK, NEW h \in Handlers, NEW p \in Steps, NEW s \in Locals,
         GoTo(h, p), snap' = [snap EXCEPT ![h] = s], UNCHANGED <<job, requests>>,
         Fits(p, job[h], s)
  PROVE  HandlersOK'
<1>1. pc' \in [Handlers -> Steps] /\ snap' \in [Handlers -> Locals]
  BY DEF HandlersOK, GoTo
<1>2. ASSUME NEW q \in Handlers
      PROVE  Fits(pc[q], job[q], snap[q])'
  <2>1. CASE q = h
    <3>1. pc'[q] = p /\ snap'[q] = s /\ job'[q] = job[h]
      BY <2>1 DEF HandlersOK, GoTo
    <3>. QED
      BY <3>1 DEF Fits, AuthOf
  <2>2. CASE q # h
    <3>1. pc'[q] = pc[q] /\ snap'[q] = snap[q] /\ job'[q] = job[q]
      BY <2>2 DEF HandlersOK, GoTo
    <3>2. Fits(pc[q], job[q], snap[q])
      BY DEF HandlersOK
    <3>. QED
      BY <3>1, <3>2 DEF Fits, AuthOf
  <2>. QED
    BY <2>1, <2>2
<1>. QED
  BY <1>1, <1>2 DEF HandlersOK

\* Likewise for one that moves on and leaves its variables alone.
LEMMA GoToMove ==
  ASSUME HandlersOK, NEW h \in Handlers, NEW p \in Steps,
         GoTo(h, p), UNCHANGED <<snap, job, requests>>,
         Fits(p, job[h], snap[h])
  PROVE  HandlersOK'
<1>1. snap[h] \in Locals /\ snap' = [snap EXCEPT ![h] = snap[h]]
  BY DEF HandlersOK
<1>. QED
  BY <1>1, ReadMove

\* A handler that answers satisfies its part of the invariant.
LEMMA AnswerMove ==
  ASSUME HandlersOK, NEW h \in Handlers, NEW a \in Answers,
         Answer(h, a), UNCHANGED <<job, requests>>
  PROVE  HandlersOK'
<1>1. Fits(a, job[h], NoLocals) /\ a \in Steps
  BY DEF Fits, Loading, Answers, Steps
<1>. QED
  BY <1>1, EmptyLocals, ReadMove DEF Answer

\* A step that touches neither tables nor memory keeps the rest of the
\* invariant, whatever it does to its handler.
LEMMA SilentData ==
  ASSUME DataOK, KeysOK, NEW h \in Handlers, Silent(h), solo' \in [Handlers -> BOOLEAN]
  PROVE  DataOK' /\ KeysOK'
  BY DEF Silent, tables, memory, DataOK, KeysOK, AuthOf

-----------------------------------------------------------------------------
(* The steps, one lemma for each group of actions.                          *)

\* Admit keeps the invariant.
LEMMA AdmitStep ==
  ASSUME IInv, NEW h \in Handlers, Admit(h)
  PROVE  IInv'
<1>1. PICK j \in Clients : /\ job' = [job EXCEPT ![h] = j]
                           /\ pc' = [pc EXCEPT ![h] = FirstStep(j)]
  BY DEF Admit, GoTo
<1>2. j \in Jobs /\ j \in Jobs \cup {NoJob}
  BY <1>1, ConfigAssumption
<1>3. /\ FirstStep(j) \in {"find_default", "read_auth", "find", "write"}
      /\ FirstStep(j) = "find_default" => j.kind = "update" /\ j.def # None
      /\ FirstStep(j) = "read_auth" => j.kind = "admin_key"
      /\ FirstStep(j) = "find" => j.kind = "delete"
      /\ FirstStep(j) = "write" /\ j.kind = "admin_key" => j.key # None
  BY DEF FirstStep
<1>4. j.kind = "update" => j.def \in Names \cup {None}
  BY <1>2, UpdateJob
<1>5. Fits(FirstStep(j), j, snap[h])
  BY <1>3, <1>4 DEF Fits, Loading
<1>6. FirstStep(j) \in Steps
  BY <1>3 DEF Steps, InFlight
<1>7. /\ pc' \in [Handlers -> Steps]
      /\ job' \in [Handlers -> Jobs \cup {NoJob}]
      /\ snap' = snap /\ snap \in [Handlers -> Locals]
  BY <1>1, <1>2, <1>6 DEF Admit, IInv, HandlersOK
<1>8. requests' \in 0 .. MaxRequests
  BY ConfigAssumption DEF Admit, IInv, HandlersOK
<1>9. ASSUME NEW q \in Handlers
      PROVE  Fits(pc[q], job[q], snap[q])'
  <2>1. CASE q = h
    <3>1. pc'[q] = FirstStep(j) /\ job'[q] = j /\ snap'[q] = snap[h]
      BY <1>1, <1>7, <2>1 DEF IInv, HandlersOK
    <3>. QED
      BY <3>1, <1>5 DEF Fits, AuthOf
  <2>2. CASE q # h
    <3>1. pc'[q] = pc[q] /\ job'[q] = job[q] /\ snap'[q] = snap[q]
      BY <1>1, <1>7, <2>2 DEF IInv, HandlersOK
    <3>2. Fits(pc[q], job[q], snap[q])
      BY DEF IInv, HandlersOK
    <3>. QED
      BY <3>1, <3>2 DEF Fits, AuthOf
  <2>. QED
    BY <2>1, <2>2
<1>10. solo' \in [Handlers -> BOOLEAN]
  BY DEF Admit
<1>11. DataOK' /\ KeysOK'
  BY <1>10 DEF Admit, IInv, DataOK, KeysOK, AuthOf, tables, memory
<1>. QED
  BY <1>7, <1>8, <1>9, <1>11 DEF IInv, HandlersOK

\* Fail keeps the invariant.
LEMMA FailStep ==
  ASSUME IInv, NEW h \in Handlers, Fail(h)
  PROVE  IInv'
<1>1. HandlersOK'
  BY AnswerMove DEF Fail, IInv, Answers
<1>2. cfgErr' \in BOOLEAN
  BY DEF Fail, IInv, DataOK
<1>. QED
  BY <1>1, <1>2 DEF Fail, IInv, DataOK, KeysOK, AuthOf, tables

\* What a settings handler writes is a setting.
LEMMA WriteOptionsStep ==
  ASSUME IInv, NEW h \in Handlers, WriteOptions(h)
  PROVE  IInv'
<1>1. job[h] \in Jobs \cup {NoJob} /\ job[h].kind = "update"
  BY DEF WriteOptions, IInv, HandlersOK
<1>2. /\ Sent(job[h].conf, db.conf) \in Values
      /\ Sent(job[h].rate, db.rate) \in Values
      /\ Sent(job[h].def, db.def) \in Names
  BY <1>1, UpdateJob DEF Sent, IInv, DataOK, Settings
<1>3. db' \in Settings /\ db'.auth = db.auth
  BY <1>2 DEF WriteOptions, IInv, DataOK, Settings
<1>4. HandlersOK'
  <2>1. Fits("load_settings", job[h], snap[h]) /\ "load_settings" \in Steps
    BY <1>1 DEF Fits, Loading, Steps, InFlight
  <2>. QED
    BY <2>1, GoToMove DEF WriteOptions, IInv
<1>. QED
  BY <1>3, <1>4 DEF WriteOptions, IInv, DataOK, KeysOK, AuthOf, memory

\* FindDefault keeps the invariant.
LEMMA FindDefaultStep ==
  ASSUME IInv, NEW h \in Handlers, FindDefault(h)
  PROVE  IInv'
<1>1. DataOK' /\ KeysOK'
  BY SilentData DEF FindDefault, IInv, DataOK
<1>2. job[h].kind = "update"
  BY DEF FindDefault, IInv, HandlersOK, Fits
<1>3. Fits("write", job[h], snap[h]) /\ "write" \in Steps
  BY <1>2 DEF Fits, Loading, Steps, InFlight
<1>4. HandlersOK'
  BY <1>3, GoToMove, AnswerMove DEF FindDefault, Silent, IInv, Answers
<1>. QED
  BY <1>1, <1>4 DEF IInv

\* The reading part of LoadRuntimeConfig.
LEMMA LoadSettingsStep ==
  ASSUME IInv, NEW h \in Handlers, LoadSettings(h)
  PROVE  IInv'
<1> DEFINE s == [snap[h] EXCEPT !.conf = db.conf, !.def = db.def, !.auth = db.auth,
                                !.admin = db.admin, !.origins = db.origins]
<1>1. job[h].kind = "update" /\ snap[h] \in Locals
  BY DEF LoadSettings, IInv, HandlersOK, Fits
<1>2. s \in Locals /\ s.conf = db.conf /\ s.def = db.def /\ s.auth = db.auth
  BY <1>1 DEF Locals, IInv, DataOK, Settings
<1>3. AuthOf(s) = AuthOf(db) /\ s.conf \in Values /\ s.def \in Names
  BY <1>2 DEF AuthOf, IInv, DataOK, Settings
<1>4. Fits("load_voice", job[h], s) /\ "load_voice" \in Steps
  BY <1>1, <1>3 DEF Fits, Loading, Steps, InFlight, IInv, KeysOK
<1>5. snap' = [snap EXCEPT ![h] = s]
  BY DEF LoadSettings
<1>6. HandlersOK'
  BY <1>2, <1>4, <1>5, ReadMove DEF LoadSettings, Silent, IInv
<1>7. DataOK' /\ KeysOK'
  BY SilentData DEF LoadSettings, IInv, DataOK
<1>. QED
  BY <1>6, <1>7 DEF IInv

\* LoadVoice keeps the invariant.
LEMMA LoadVoiceStep ==
  ASSUME IInv, NEW h \in Handlers, LoadVoice(h)
  PROVE  IInv'
<1>1. PICK f \in Found(h, voices[snap[h].def], 0) :
        snap' = [snap EXCEPT ![h].row = f[1]] /\ solo' = f[2]
  BY DEF LoadVoice
<1> DEFINE s == [snap[h] EXCEPT !.row = f[1]]
<1>2. Fits("load_voice", job[h], snap[h]) /\ snap[h] \in Locals
  BY DEF LoadVoice, IInv, HandlersOK
<1>3. voices[snap[h].def] \in Rows /\ 0 \in Rows
  BY <1>2, ConfigAssumption DEF Fits, Loading, IInv, DataOK, Rows
<1>4. f[1] \in Rows /\ solo' \in [Handlers -> BOOLEAN]
  BY <1>1, <1>3, FoundType DEF IInv, DataOK
<1>5. s \in Locals /\ s.conf = snap[h].conf /\ s.def = snap[h].def /\ s.auth = snap[h].auth
  BY <1>2, <1>4 DEF Locals
<1>6. Fits("load_rate", job[h], s) /\ "load_rate" \in Steps
  BY <1>2, <1>5 DEF Fits, Loading, Steps, InFlight, AuthOf
<1>7. snap' = [snap EXCEPT ![h] = s]
  BY <1>1
<1>8. HandlersOK'
  BY <1>5, <1>6, <1>7, ReadMove DEF LoadVoice, Silent, IInv
<1>9. DataOK' /\ KeysOK'
  BY <1>4, SilentData DEF LoadVoice, IInv
<1>. QED
  BY <1>8, <1>9 DEF IInv

\* LoadRate keeps the invariant.
LEMMA LoadRateStep ==
  ASSUME IInv, NEW h \in Handlers, LoadRate(h)
  PROVE  IInv'
<1>1. PICK f \in Found(h, db.rate, None) :
        snap' = [snap EXCEPT ![h].rate = f[1]] /\ solo' = f[2]
  BY DEF LoadRate
<1> DEFINE s == [snap[h] EXCEPT !.rate = f[1]]
<1>2. Fits("load_rate", job[h], snap[h]) /\ snap[h] \in Locals
  BY DEF LoadRate, IInv, HandlersOK
<1>3. db.rate \in Values
  BY DEF IInv, DataOK, Settings
<1>4. f[1] \in Values \cup {None} /\ solo' \in [Handlers -> BOOLEAN]
  BY <1>1, <1>3, FoundType DEF IInv, DataOK
<1>5. s \in Locals /\ s.conf = snap[h].conf /\ s.def = snap[h].def /\ s.auth = snap[h].auth
  BY <1>2, <1>4 DEF Locals
<1>6. Fits("set_options", job[h], s) /\ "set_options" \in Steps
  BY <1>2, <1>5 DEF Fits, Loading, Steps, InFlight, AuthOf
<1>7. snap' = [snap EXCEPT ![h] = s]
  BY <1>1
<1>8. HandlersOK'
  BY <1>5, <1>6, <1>7, ReadMove DEF LoadRate, Silent, IInv
<1>9. DataOK' /\ KeysOK'
  BY <1>4, SilentData DEF LoadRate, IInv
<1>. QED
  BY <1>8, <1>9 DEF IInv

\* SetOptions keeps the invariant.
LEMMA SetOptionsStep ==
  ASSUME IInv, NEW h \in Handlers, SetOptions(h)
  PROVE  IInv'
<1>1. Fits("set_options", job[h], snap[h]) /\ snap[h] \in Locals
  BY DEF SetOptions, IInv, HandlersOK
<1>2. Fits("set_auth", job[h], snap[h]) /\ "set_auth" \in Steps
  BY <1>1 DEF Fits, Loading, Steps, InFlight
<1>3. HandlersOK'
  BY <1>2, GoToMove DEF SetOptions, IInv
<1>4. options' \in OptionsType
  BY <1>1 DEF SetOptions, Fits, Loading, Locals, OptionsType
<1>. QED
  BY <1>3, <1>4 DEF SetOptions, IInv, DataOK, KeysOK, AuthOf, tables

\* ClearErr keeps the invariant.
LEMMA ClearErrStep ==
  ASSUME IInv, NEW h \in Handlers, ClearErr(h)
  PROVE  IInv'
<1>1. HandlersOK'
  BY AnswerMove DEF ClearErr, IInv, Answers
<1>. QED
  BY <1>1 DEF ClearErr, IInv, DataOK, KeysOK, AuthOf, tables

\* The two ways to a new list of authentication keys: neither is empty.
LEMMA WriteAuthStep ==
  ASSUME IInv, NEW h \in Handlers, WriteAuth(h)
  PROVE  IInv'
<1> DEFINE s == [snap[h] EXCEPT !.auth = job[h].key]
<1>1. job[h].kind = "auth_key" /\ job[h] \in Jobs \cup {NoJob} /\ snap[h] \in Locals
  BY DEF WriteAuth, IInv, HandlersOK
<1>2. job[h].key \in Keys /\ job[h].key # None
  BY <1>1, AuthJob, ConfigAssumption
<1>3. db' \in Settings /\ db'.auth = job[h].key
  BY <1>2 DEF WriteAuth, IInv, DataOK, Settings, KeyOrNone
<1>4. s \in Locals /\ s.auth = job[h].key
  BY <1>1, <1>2 DEF Locals, KeyOrNone
<1>5. Fits("set_auth", job[h], s) /\ "set_auth" \in Steps
  BY <1>1, <1>2, <1>4 DEF Fits, Loading, AuthOf, Steps, InFlight
<1>6. HandlersOK'
  BY <1>4, <1>5, ReadMove DEF WriteAuth, IInv
<1>7. AuthOf(db') # None
  BY <1>2, <1>3 DEF AuthOf
<1>. QED
  BY <1>3, <1>6, <1>7 DEF WriteAuth, IInv, DataOK, KeysOK, AuthOf, memory

\* SetAuth keeps the invariant.
LEMMA SetAuthStep ==
  ASSUME IInv, NEW h \in Handlers, SetAuth(h)
  PROVE  IInv'
<1>1. Fits("set_auth", job[h], snap[h]) /\ snap[h] \in Locals
  BY DEF SetAuth, IInv, HandlersOK
<1>2. auth' \in KeyOrNone /\ auth' # None
  BY <1>1, ConfigAssumption DEF SetAuth, Fits, AuthOf, Locals, KeyOrNone
<1>3. job[h].kind = "update" => Fits("set_admin", job[h], snap[h])
  BY <1>1 DEF Fits, Loading
<1>4. "set_admin" \in Steps /\ "ok" \in Answers
  BY DEF Steps, InFlight, Answers
<1>5. HandlersOK'
  BY <1>3, <1>4, GoToMove, AnswerMove DEF SetAuth, IInv
<1>. QED
  BY <1>2, <1>5 DEF SetAuth, IInv, DataOK, KeysOK, AuthOf, tables

\* The three ways to a new admin credential: each leaves one behind.
LEMMA WriteAdminStep ==
  ASSUME IInv, NEW h \in Handlers, WriteAdmin(h)
  PROVE  IInv'
<1> DEFINE s == [snap[h] EXCEPT !.admin = job[h].key]
<1>1. job[h].kind = "admin_key" /\ job[h] \in Jobs \cup {NoJob} /\ snap[h] \in Locals
  BY DEF WriteAdmin, IInv, HandlersOK
<1>2. job[h].key \in KeyOrNone /\ job[h].key # None
  BY <1>1, AdminJob DEF WriteAdmin, IInv, HandlersOK, Fits
<1>3. db' \in Settings /\ db'.auth = db.auth
  BY <1>2 DEF WriteAdmin, IInv, DataOK, Settings
<1>4. s \in Locals /\ s.admin # None
  BY <1>1, <1>2 DEF Locals
<1>5. Fits("set_admin", job[h], s) /\ "set_admin" \in Steps
  BY <1>1, <1>4 DEF Fits, Loading, Steps, InFlight
<1>6. HandlersOK'
  BY <1>4, <1>5, ReadMove DEF WriteAdmin, IInv
<1>. QED
  BY <1>3, <1>6 DEF WriteAdmin, IInv, DataOK, KeysOK, AuthOf, memory

\* ReadAuth keeps the invariant.
LEMMA ReadAuthStep ==
  ASSUME IInv, NEW h \in Handlers, ReadAuth(h)
  PROVE  IInv'
<1>1. PICK f \in Found(h, db.auth, None) :
        /\ solo' = f[2]
        /\ IF f[1] = None
           THEN Answer(h, "refused")
           ELSE GoTo(h, "clear") /\ snap' = [snap EXCEPT ![h].auth = f[1]]
  BY DEF ReadAuth
<1> DEFINE s == [snap[h] EXCEPT !.auth = f[1]]
<1>2. job[h].kind = "admin_key" /\ snap[h] \in Locals
  BY DEF ReadAuth, IInv, HandlersOK, Fits
<1>3. f[1] \in KeyOrNone /\ solo' \in [Handlers -> BOOLEAN]
  BY <1>1, FoundType DEF IInv, DataOK, Settings, KeyOrNone
<1>4. s \in Locals /\ s.auth = f[1]
  BY <1>2, <1>3 DEF Locals
<1>5. f[1] # None => Fits("clear", job[h], s)
  BY <1>2, <1>4 DEF Fits, Loading
<1>6. "clear" \in Steps /\ "refused" \in Answers
  BY DEF Steps, InFlight, Answers
<1>7. UNCHANGED <<job, requests>>
  BY DEF ReadAuth, Silent
<1>8. CASE f[1] = None
  <2>1. HandlersOK'
    BY <1>1, <1>6, <1>7, <1>8, AnswerMove DEF IInv
  <2>. QED
    BY <2>1, <1>3, SilentData DEF ReadAuth, IInv
<1>9. CASE f[1] # None
  <2>1. snap' = [snap EXCEPT ![h] = s] /\ GoTo(h, "clear")
    BY <1>1, <1>9
  <2>2. HandlersOK'
    BY <1>4, <1>5, <1>6, <1>7, <1>9, <2>1, ReadMove DEF IInv
  <2>. QED
    BY <2>2, <1>3, SilentData DEF ReadAuth, IInv
<1>. QED
  BY <1>8, <1>9

\* ClearAdmin keeps the invariant.
LEMMA ClearAdminStep ==
  ASSUME IInv, NEW h \in Handlers, ClearAdmin(h)
  PROVE  IInv'
<1>1. Fits("clear", job[h], snap[h])
  BY DEF ClearAdmin, IInv, HandlersOK
<1>2. Fits("set_admin", job[h], snap[h]) /\ "set_admin" \in Steps
  BY <1>1 DEF Fits, Loading, Steps, InFlight
<1>3. HandlersOK'
  BY <1>2, GoToMove DEF ClearAdmin, IInv
<1>4. db' \in Settings /\ db'.auth = db.auth
  BY DEF ClearAdmin, IInv, DataOK, Settings, KeyOrNone
<1>. QED
  BY <1>3, <1>4 DEF ClearAdmin, IInv, DataOK, KeysOK, AuthOf, memory

\* SetAdmin keeps the invariant.
LEMMA SetAdminStep ==
  ASSUME IInv, NEW h \in Handlers, SetAdmin(h)
  PROVE  IInv'
<1>1. Fits("set_admin", job[h], snap[h]) /\ snap[h] \in Locals
  BY DEF SetAdmin, IInv, HandlersOK
<1>2. AuthOf(snap[h]) \in KeyOrNone
  BY <1>1, ConfigAssumption DEF AuthOf, Locals, KeyOrNone
<1>3. "read_all" \in Steps /\ "ok" \in Answers
  BY DEF Steps, InFlight, Answers
<1>4. CASE job[h].kind = "update"
  <2>1. AuthOf(snap[h]) # None
    BY <1>1, <1>4 DEF Fits
  <2>2. admin' \in AdminType /\ admin'.key # None
    <3>1. admin' = AdminOf(snap[h])
      BY <1>4 DEF SetAdmin
    <3>2. PICK k \in KeyOrNone, o \in {"admin_key", "auth_key"} :
            k # None /\ AdminOf(snap[h]) = [key |-> k, source |-> o]
      BY <1>1, <1>2, <2>1 DEF AdminOf, Locals
    <3>3. admin' = [key |-> k, source |-> o] /\ [key |-> k, source |-> o].key = k
      BY <3>1, <3>2
    <3>4. [key |-> k, source |-> o] \in AdminType
      BY DEF AdminType
    <3>. QED
      BY <3>2, <3>3, <3>4
  <2>3. Fits("read_all", job[h], snap[h])
    BY DEF Fits, Loading
  <2>4. HandlersOK'
    BY <1>3, <1>4, <2>3, GoToMove DEF SetAdmin, IInv
  <2>. QED
    BY <2>2, <2>4 DEF SetAdmin, IInv, DataOK, KeysOK, AuthOf, tables
<1>5. CASE job[h].kind # "update"
  <2>1. snap[h].admin # None \/ snap[h].auth # None
    BY <1>1, <1>5 DEF Fits
  <2>2. admin' \in AdminType /\ admin'.key # None
    <3>1. PICK k \in KeyOrNone, o \in {"admin_key", "auth_key"} :
            k # None /\ admin' = [key |-> k, source |-> o]
      BY <1>1, <1>5, <2>1 DEF SetAdmin, Locals
    <3>2. [key |-> k, source |-> o] \in AdminType /\ [key |-> k, source |-> o].key = k
      BY DEF AdminType
    <3>. QED
      BY <3>1, <3>2
  <2>3. HandlersOK'
    BY <1>3, <1>5, AnswerMove DEF SetAdmin, IInv
  <2>. QED
    BY <2>2, <2>3 DEF SetAdmin, IInv, DataOK, KeysOK, AuthOf, tables
<1>. QED
  BY <1>4, <1>5

\* The CORS lists, which hold no credential.
LEMMA WriteCorsStep ==
  ASSUME IInv, NEW h \in Handlers, WriteCors(h)
  PROVE  IInv'
<1>1. job[h] \in Jobs \cup {NoJob} /\ job[h].kind = "cors"
  BY DEF WriteCors, IInv, HandlersOK
<1>2. Sent(job[h].all, db.all) \in BOOLEAN /\ Sent(job[h].origins, db.origins) \in SUBSET Origins
  <2>1. db.all \in BOOLEAN /\ db.origins \in SUBSET Origins
    BY DEF IInv, DataOK, Settings
  <2>2. job[h].all \in BOOLEAN \cup {None} /\ job[h].origins \in (SUBSET Origins) \cup {None}
    BY <1>1, CorsJob
  <2>3. Sent(job[h].all, db.all) \in BOOLEAN
    <3>1. CASE job[h].all = None
      BY <2>1, <3>1, Zenon DEF Sent
    <3>2. CASE job[h].all # None
      <4>1. job[h].all \in BOOLEAN
        BY <2>2, <3>2, Zenon
      <4>. QED
        BY <3>2, <4>1, Zenon DEF Sent
    <3>. QED
      BY <3>1, <3>2
  <2>4. Sent(job[h].origins, db.origins) \in SUBSET Origins
    <3>1. CASE job[h].origins = None
      BY <2>1, <3>1, Zenon DEF Sent
    <3>2. CASE job[h].origins # None
      <4>1. job[h].origins \in SUBSET Origins
        BY <2>2, <3>2, Zenon
      <4>. QED
        BY <3>2, <4>1, Zenon DEF Sent
    <3>. QED
      BY <3>1, <3>2
  <2>. QED
    BY <2>3, <2>4
<1>3. db' \in Settings /\ db'.auth = db.auth
  BY <1>2 DEF WriteCors, IInv, DataOK, Settings
<1>4. Fits("read_all", job[h], snap[h]) /\ "read_all" \in Steps
  BY DEF Fits, Loading, Steps, InFlight
<1>5. HandlersOK'
  BY <1>4, GoToMove DEF WriteCors, IInv
<1>. QED
  BY <1>3, <1>5 DEF WriteCors, IInv, DataOK, KeysOK, AuthOf, memory

\* ReadAll keeps the invariant.
LEMMA ReadAllStep ==
  ASSUME IInv, NEW h \in Handlers, ReadAll(h)
  PROVE  IInv'
<1>1. PICK f \in Found(h, db.all, FALSE) :
        snap' = [snap EXCEPT ![h].all = f[1]] /\ solo' = f[2]
  BY DEF ReadAll
<1> DEFINE s == [snap[h] EXCEPT !.all = f[1]]
           p == IF job[h].kind = "update" THEN "set_cors" ELSE "read_origins"
<1>2. f[1] \in BOOLEAN /\ solo' \in [Handlers -> BOOLEAN]
  <2>1. db.all \in BOOLEAN /\ solo \in [Handlers -> BOOLEAN]
    BY DEF IInv, DataOK, Settings
  <2>2. f[1] \in {db.all, FALSE} /\ f[2] \in [Handlers -> BOOLEAN]
    BY <2>1, FoundType
  <2>. QED
    BY <1>1, <2>1, <2>2, Zenon
<1>3. s \in Locals
  BY <1>2 DEF Locals, IInv, HandlersOK
<1>4. Fits(p, job[h], s) /\ p \in Steps
  BY DEF Fits, Loading, Steps, InFlight
<1>5. snap' = [snap EXCEPT ![h] = s]
  BY <1>1
<1>6. GoTo(h, p) /\ UNCHANGED <<job, requests>>
  BY DEF ReadAll, Silent
<1>7. HandlersOK'
  BY <1>3, <1>4, <1>5, <1>6, ReadMove DEF IInv
<1>8. DataOK' /\ KeysOK'
  BY <1>2, SilentData DEF ReadAll, IInv
<1>. QED
  BY <1>7, <1>8 DEF IInv

\* ReadOrigins keeps the invariant.
LEMMA ReadOriginsStep ==
  ASSUME IInv, NEW h \in Handlers, ReadOrigins(h)
  PROVE  IInv'
<1>1. PICK f \in Found(h, db.origins, {}) :
        snap' = [snap EXCEPT ![h].origins = f[1]] /\ solo' = f[2]
  BY DEF ReadOrigins
<1> DEFINE s == [snap[h] EXCEPT !.origins = f[1]]
<1>2. f[1] \in SUBSET Origins /\ solo' \in [Handlers -> BOOLEAN]
  BY <1>1, FoundType DEF IInv, DataOK, Settings
<1>3. s \in Locals
  BY <1>2 DEF Locals, IInv, HandlersOK
<1>4. Fits("set_cors", job[h], s) /\ "set_cors" \in Steps
  BY DEF Fits, Loading, Steps, InFlight
<1>5. snap' = [snap EXCEPT ![h] = s]
  BY <1>1
<1>6. HandlersOK'
  BY <1>3, <1>4, <1>5, ReadMove DEF ReadOrigins, Silent, IInv
<1>7. DataOK' /\ KeysOK'
  BY <1>2, SilentData DEF ReadOrigins, IInv
<1>. QED
  BY <1>6, <1>7 DEF IInv

\* SetCors keeps the invariant.
LEMMA SetCorsStep ==
  ASSUME IInv, NEW h \in Handlers, SetCors(h)
  PROVE  IInv'
<1>1. snap[h] \in Locals /\ snap[h].all \in BOOLEAN /\ snap[h].origins \in SUBSET Origins
  BY DEF IInv, HandlersOK, Locals
<1>2. cors' \in CorsType
  <2>1. ASSUME NEW a \in BOOLEAN, NEW o \in SUBSET Origins
        PROVE  CorsOf(a, o) \in CorsType
    BY DEF CorsOf, CorsType
  <2>2. (snap[h].all \/ EnvAll) \in BOOLEAN
    BY <1>1
  <2>3. (IF snap[h].origins = {} THEN EnvOrigins ELSE snap[h].origins) \in SUBSET Origins
    BY <1>1, ConfigAssumption
  <2>4. LoadedCors(snap[h]) \in CorsType
    BY <2>1, <2>2, <2>3 DEF LoadedCors
  <2>5. CorsOf(snap[h].all, snap[h].origins) \in CorsType
    BY <1>1, <2>1
  <2>. QED
    BY <2>4, <2>5 DEF SetCors
<1>3. job[h].kind = "update" => Fits("clear_err", job[h], snap[h])
  BY DEF Fits, Loading
<1>4. "clear_err" \in Steps /\ "ok" \in Answers
  BY DEF Steps, InFlight, Answers
<1>5. HandlersOK'
  BY <1>3, <1>4, GoToMove, AnswerMove DEF SetCors, IInv
<1>. QED
  BY <1>2, <1>5 DEF SetCors, IInv, DataOK, KeysOK, AuthOf, tables

\* The voices.
LEMMA InsertVoiceStep ==
  ASSUME IInv, NEW h \in Handlers, InsertVoice(h)
  PROVE  IInv'
<1>1. HandlersOK'
  BY AnswerMove DEF InsertVoice, IInv, Answers
<1>2. voices' \in [Names -> Rows] /\ UNCHANGED db
  <2>1. FreeRows # {} => (CHOOSE r \in FreeRows : TRUE) \in Rows
    BY ConfigAssumption DEF FreeRows, Rows
  <2>. QED
    BY <2>1 DEF InsertVoice, IInv, DataOK, tables
<1>. QED
  BY <1>1, <1>2 DEF InsertVoice, IInv, DataOK, KeysOK, AuthOf, memory

\* FindVoice keeps the invariant.
LEMMA FindVoiceStep ==
  ASSUME IInv, NEW h \in Handlers, FindVoice(h)
  PROVE  IInv'
<1> DEFINE row == voices[job[h].name]
           s == [snap[h] EXCEPT !.row = row]
<1>1. /\ job[h].kind = "delete" /\ job[h] \in Jobs \cup {NoJob}
      /\ snap[h] \in Locals
  BY DEF FindVoice, IInv, HandlersOK, Fits
<1>2. row \in Rows
  BY <1>1, VoiceJob DEF IInv, DataOK
<1>3. s \in Locals
  BY <1>1, <1>2 DEF Locals
<1>4. Fits("get", job[h], s) /\ "get" \in Steps /\ "refused" \in Answers
  BY <1>1 DEF Fits, Loading, Steps, InFlight, Answers
<1>5. UNCHANGED <<job, requests>>
  BY DEF FindVoice, Silent
<1>6. Answer(h, "refused") \/ (GoTo(h, "get") /\ snap' = [snap EXCEPT ![h] = s])
  BY DEF FindVoice
<1>7. HandlersOK'
  BY <1>3, <1>4, <1>5, <1>6, ReadMove, AnswerMove DEF IInv
<1>8. DataOK' /\ KeysOK'
  BY SilentData DEF FindVoice, IInv, DataOK
<1>. QED
  BY <1>7, <1>8 DEF IInv

\* GetVoice keeps the invariant.
LEMMA GetVoiceStep ==
  ASSUME IInv, NEW h \in Handlers, GetVoice(h)
  PROVE  IInv'
<1>1. Fits("get", job[h], snap[h])
  BY DEF GetVoice, IInv, HandlersOK
<1>2. Fits("read_default", job[h], snap[h]) /\ "read_default" \in Steps /\ "refused" \in Answers
  BY <1>1 DEF Fits, Loading, Steps, InFlight, Answers
<1>3. HandlersOK'
  BY <1>2, GoToMove, AnswerMove DEF GetVoice, Silent, IInv
<1>4. DataOK' /\ KeysOK'
  BY SilentData DEF GetVoice, IInv, DataOK
<1>. QED
  BY <1>3, <1>4 DEF IInv

\* ReadDefault keeps the invariant.
LEMMA ReadDefaultStep ==
  ASSUME IInv, NEW h \in Handlers, ReadDefault(h)
  PROVE  IInv'
<1>1. Fits("read_default", job[h], snap[h])
  BY DEF ReadDefault, IInv, HandlersOK
<1>2. Fits("delete", job[h], snap[h]) /\ "delete" \in Steps /\ "refused" \in Answers
  BY <1>1 DEF Fits, Loading, Steps, InFlight, Answers
<1>3. HandlersOK'
  BY <1>2, GoToMove, AnswerMove DEF ReadDefault, Silent, IInv
<1>4. DataOK' /\ KeysOK'
  BY SilentData DEF ReadDefault, IInv, DataOK
<1>. QED
  BY <1>3, <1>4 DEF IInv

\* DeleteVoice keeps the invariant.
LEMMA DeleteVoiceStep ==
  ASSUME IInv, NEW h \in Handlers, DeleteVoice(h)
  PROVE  IInv'
<1>1. HandlersOK'
  BY AnswerMove DEF DeleteVoice, IInv, Answers
<1>2. voices' \in [Names -> Rows]
  BY ConfigAssumption DEF DeleteVoice, IInv, DataOK, Rows
<1>. QED
  BY <1>1, <1>2 DEF DeleteVoice, IInv, DataOK, KeysOK, AuthOf, memory

-----------------------------------------------------------------------------
\* Every step keeps the invariant.
LEMMA InvariantStep == IInv /\ [Next]_vars => IInv'
<1>1. CASE UNCHANGED vars
  BY <1>1 DEF vars, tables, memory, handlers, IInv, HandlersOK, DataOK, KeysOK, Fits, AuthOf
<1>2. CASE Rest
  BY <1>1, <1>2 DEF Rest
<1>3. ASSUME IInv, NEW h \in Handlers, Admit(h)
      PROVE  IInv'
  BY <1>3, AdmitStep
<1>4. ASSUME IInv, NEW h \in Handlers, Handle(h)
      PROVE  IInv'
  BY <1>4, FailStep, FindDefaultStep, WriteOptionsStep, LoadSettingsStep, LoadVoiceStep,
     LoadRateStep, SetOptionsStep, ClearErrStep, WriteAuthStep, SetAuthStep,
     WriteAdminStep, ReadAuthStep, ClearAdminStep, SetAdminStep, WriteCorsStep,
     ReadAllStep, ReadOriginsStep, SetCorsStep, InsertVoiceStep, FindVoiceStep,
     GetVoiceStep, ReadDefaultStep, DeleteVoiceStep DEF Handle
<1>. QED
  BY <1>1, <1>2, <1>3, <1>4 DEF Next

\* Hence it always holds.
LEMMA Inductive == Spec => []IInv
  BY InvariantInit, InvariantStep, PTL DEF Spec

(* Every variable keeps its type, with any number of handlers, overlapping  *)
(* or not, and whichever of their queries fail.                             *)
THEOREM TypeCorrect == Spec => []TypeOK
  BY InvariantType, Inductive, PTL

(* A running service that has an authentication key never comes to have     *)
(* none: ValidateAPIKey never lets everybody in, however admin requests     *)
(* overlap and whichever of their queries fail.                             *)
THEOREM AuthNeverOpenHolds == Spec => []AuthNeverOpen
<1>1. IInv => AuthNeverOpen
  BY DEF IInv, KeysOK, AuthNeverOpen
<1>. QED
  BY <1>1, Inductive, PTL

(* A running service always has an admin credential: no sequence and no     *)
(* overlap of admin requests locks the administrator out.                   *)
THEOREM AdminNeverLockedOutHolds == Spec => []AdminNeverLockedOut
<1>1. IInv => AdminNeverLockedOut
  BY DEF IInv, KeysOK, AdminNeverLockedOut
<1>. QED
  BY <1>1, Inductive, PTL

=============================================================================
