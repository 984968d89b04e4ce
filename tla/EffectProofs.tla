---------------------------- MODULE EffectProofs ----------------------------
(***************************************************************************)
(* Proofs about RuntimeConfig: what an admin request that meets no other   *)
(* request achieves.  The default voice goes on to exist, a change that    *)
(* was acknowledged has taken effect, and a service with one administrator *)
(* at a time never shows half a change.                                    *)
(***************************************************************************)
EXTENDS RuntimeConfigProofs

Busy(h) == pc[h] \notin Answers

-----------------------------------------------------------------------------
(* A step of one handler leaves the others as they are.                     *)

\* A failing query marks its handler, so that a handler that is still unmarked
\* found what there was.
LEMMA FoundSolo ==
  ASSUME NEW h \in Handlers, NEW v, NEW d, NEW f \in Found(h, v, d),
         solo \in [Handlers -> BOOLEAN]
  PROVE  /\ \A q \in Handlers \ {h} : f[2][q] = solo[q]
         /\ f[2][h] => solo[h] /\ f[1] = v
         /\ ~IOErrors => f[1] = v /\ f[2] = solo
<1>1. \/ f = <<v, solo>>
      \/ IOErrors /\ f = <<d, [solo EXCEPT ![h] = FALSE]>>
  BY DEF Found
<1>2. CASE f = <<v, solo>>
  BY <1>2
<1>3. CASE IOErrors /\ f = <<d, [solo EXCEPT ![h] = FALSE]>>
  BY <1>3
<1>. QED
  BY <1>1, <1>2, <1>3

\* What a step of handler h leaves alone.
Apart(h) ==
  /\ job' = job
  /\ \A q \in Handlers \ {h} : pc'[q] = pc[q] /\ snap'[q] = snap[q] /\ solo'[q] = solo[q]
  /\ solo'[h] => solo[h]
  /\ ~IOErrors => solo' = solo

\* A step of one handler leaves the others as they are.
LEMMA HandleApart ==
  ASSUME IInv, NEW h \in Handlers, Handle(h)
  PROVE  Apart(h) /\ Busy(h)
<1>1. Busy(h)
  BY DEF Handle, Busy, Answers, Fail, FindDefault, WriteOptions, LoadSettings, LoadVoice,
         LoadRate, SetOptions, ClearErr, WriteAuth, SetAuth, WriteAdmin, ReadAuth,
         ClearAdmin, SetAdmin, WriteCors, ReadAll, ReadOrigins, SetCors, InsertVoice,
         FindVoice, GetVoice, ReadDefault, DeleteVoice
<1>2. /\ pc \in [Handlers -> Steps] /\ snap \in [Handlers -> Locals]
      /\ solo \in [Handlers -> BOOLEAN]
  BY DEF IInv, HandlersOK, DataOK
<1>3. CASE Fail(h)
  BY <1>1, <1>2, <1>3 DEF Fail, GoTo, Answer, Silent, Apart
<1>4. CASE FindDefault(h)
  BY <1>1, <1>2, <1>4 DEF FindDefault, GoTo, Answer, Silent, Apart
<1>5. CASE WriteOptions(h)
  BY <1>1, <1>2, <1>5 DEF WriteOptions, GoTo, Answer, Silent, Apart
<1>6. CASE LoadSettings(h)
  BY <1>1, <1>2, <1>6 DEF LoadSettings, GoTo, Answer, Silent, Apart
<1>7. CASE SetOptions(h)
  BY <1>1, <1>2, <1>7 DEF SetOptions, GoTo, Answer, Silent, Apart
<1>8. CASE ClearErr(h)
  BY <1>1, <1>2, <1>8 DEF ClearErr, GoTo, Answer, Silent, Apart
<1>9. CASE WriteAuth(h)
  BY <1>1, <1>2, <1>9 DEF WriteAuth, GoTo, Answer, Silent, Apart
<1>10. CASE SetAuth(h)
  BY <1>1, <1>2, <1>10 DEF SetAuth, GoTo, Answer, Silent, Apart
<1>11. CASE WriteAdmin(h)
  BY <1>1, <1>2, <1>11 DEF WriteAdmin, GoTo, Answer, Silent, Apart
<1>12. CASE ClearAdmin(h)
  BY <1>1, <1>2, <1>12 DEF ClearAdmin, GoTo, Answer, Silent, Apart
<1>13. CASE SetAdmin(h)
  BY <1>1, <1>2, <1>13 DEF SetAdmin, GoTo, Answer, Silent, Apart
<1>14. CASE WriteCors(h)
  BY <1>1, <1>2, <1>14 DEF WriteCors, GoTo, Answer, Silent, Apart
<1>15. CASE SetCors(h)
  BY <1>1, <1>2, <1>15 DEF SetCors, GoTo, Answer, Silent, Apart
<1>16. CASE InsertVoice(h)
  BY <1>1, <1>2, <1>16 DEF InsertVoice, GoTo, Answer, Silent, Apart
<1>17. CASE FindVoice(h)
  BY <1>1, <1>2, <1>17 DEF FindVoice, GoTo, Answer, Silent, Apart
<1>18. CASE GetVoice(h)
  BY <1>1, <1>2, <1>18 DEF GetVoice, GoTo, Answer, Silent, Apart
<1>19. CASE ReadDefault(h)
  BY <1>1, <1>2, <1>19 DEF ReadDefault, GoTo, Answer, Silent, Apart
<1>20. CASE DeleteVoice(h)
  BY <1>1, <1>2, <1>20 DEF DeleteVoice, GoTo, Answer, Silent, Apart
<1>21. CASE LoadVoice(h)
  <2>1. PICK f \in Found(h, voices[snap[h].def], 0) : solo' = f[2]
    BY <1>21 DEF LoadVoice
  <2>2. /\ \A q \in Handlers \ {h} : solo'[q] = solo[q]
        /\ solo'[h] => solo[h]
        /\ ~IOErrors => solo' = solo
    BY <1>2, <2>1, FoundSolo
  <2>3. job' = job /\ \A q \in Handlers \ {h} : pc'[q] = pc[q] /\ snap'[q] = snap[q]
    BY <1>2, <1>21 DEF LoadVoice, GoTo, Answer, Silent
  <2>. QED
    BY <1>1, <2>2, <2>3 DEF Apart
<1>22. CASE LoadRate(h)
  <2>1. PICK f \in Found(h, db.rate, None) : solo' = f[2]
    BY <1>22 DEF LoadRate
  <2>2. /\ \A q \in Handlers \ {h} : solo'[q] = solo[q]
        /\ solo'[h] => solo[h]
        /\ ~IOErrors => solo' = solo
    BY <1>2, <2>1, FoundSolo
  <2>3. job' = job /\ \A q \in Handlers \ {h} : pc'[q] = pc[q] /\ snap'[q] = snap[q]
    BY <1>2, <1>22 DEF LoadRate, GoTo, Answer, Silent
  <2>. QED
    BY <1>1, <2>2, <2>3 DEF Apart
<1>23. CASE ReadAuth(h)
  <2>1. PICK f \in Found(h, db.auth, None) : solo' = f[2]
    BY <1>23 DEF ReadAuth
  <2>2. /\ \A q \in Handlers \ {h} : solo'[q] = solo[q]
        /\ solo'[h] => solo[h]
        /\ ~IOErrors => solo' = solo
    BY <1>2, <2>1, FoundSolo
  <2>3. job' = job /\ \A q \in Handlers \ {h} : pc'[q] = pc[q] /\ snap'[q] = snap[q]
    <3>1. PICK g \in Found(h, db.auth, None) :
            IF g[1] = None THEN Answer(h, "refused")
            ELSE GoTo(h, "clear") /\ snap' = [snap EXCEPT ![h].auth = g[1]]
      BY <1>23 DEF ReadAuth
    <3>2. CASE g[1] = None
      BY <1>2, <1>23, <3>1, <3>2 DEF ReadAuth, GoTo, Answer, Silent
    <3>3. CASE g[1] # None
      BY <1>2, <1>23, <3>1, <3>3 DEF ReadAuth, GoTo, Silent
    <3>. QED
      BY <3>2, <3>3
  <2>. QED
    BY <1>1, <2>2, <2>3 DEF Apart
<1>24. CASE ReadAll(h)
  <2> DEFINE no == FALSE
  <2>1. PICK f \in Found(h, db.all, no) : solo' = f[2]
    BY <1>24 DEF ReadAll
  <2>2. /\ \A q \in Handlers \ {h} : solo'[q] = solo[q]
        /\ solo'[h] => solo[h]
        /\ ~IOErrors => solo' = solo
    <3>. HIDE DEF no
    <3>. QED
      BY <1>2, <2>1, FoundSolo
  <2>3. job' = job /\ \A q \in Handlers \ {h} : pc'[q] = pc[q] /\ snap'[q] = snap[q]
    BY <1>2, <1>24 DEF ReadAll, GoTo, Answer, Silent
  <2>. QED
    BY <1>1, <2>2, <2>3 DEF Apart
<1>25. CASE ReadOrigins(h)
  <2>1. PICK f \in Found(h, db.origins, {}) : solo' = f[2]
    BY <1>25 DEF ReadOrigins
  <2>2. /\ \A q \in Handlers \ {h} : solo'[q] = solo[q]
        /\ solo'[h] => solo[h]
        /\ ~IOErrors => solo' = solo
    BY <1>2, <2>1, FoundSolo
  <2>3. job' = job /\ \A q \in Handlers \ {h} : pc'[q] = pc[q] /\ snap'[q] = snap[q]
    BY <1>2, <1>25 DEF ReadOrigins, GoTo, Answer, Silent
  <2>. QED
    BY <1>1, <2>2, <2>3 DEF Apart
<1>. QED
  BY <1>1, <1>3, <1>4, <1>5, <1>6, <1>7, <1>8, <1>9, <1>10, <1>11, <1>12, <1>13,
     <1>14, <1>15, <1>16, <1>17, <1>18, <1>19, <1>20, <1>21, <1>22, <1>23, <1>24, <1>25 DEF Handle

-----------------------------------------------------------------------------
(* One administrator at a time.                                             *)

\* No two requests are under way.
OneAtATime == \A h, q \in Handlers : Busy(h) /\ Busy(q) => h = q

\* A handler's step does not wake another.
LEMMA OneStaysOne ==
  ASSUME IInv, OneAtATime, NEW h \in Handlers, Handle(h)
  PROVE  /\ OneAtATime'
         /\ \A q \in Handlers \ {h} : pc[q] \in Answers /\ pc'[q] \in Answers
<1>1. Busy(h) /\ \A q \in Handlers \ {h} : pc'[q] = pc[q]
  BY HandleApart DEF Apart
<1>2. \A q \in Handlers \ {h} : pc[q] \in Answers /\ pc'[q] \in Answers
  BY <1>1 DEF OneAtATime, Busy
<1>. QED
  BY <1>2 DEF OneAtATime, Busy

\* No request is admitted while another is under way.
Lone == \A h \in Handlers : Admit(h) => Quiet

\* One administrator at a time sees to that.
LEMMA SequentialIsLone ==
  ASSUME ~Concurrent
  PROVE  Lone
BY DEF Lone, Admit, Quiet

\* A request is admitted alone, and then all the others have answered.
LEMMA AdmitAlone ==
  ASSUME IInv, Lone, NEW h \in Handlers, Admit(h)
  PROVE  /\ OneAtATime'
         /\ \A q \in Handlers : pc[q] \in Answers
         /\ \A q \in Handlers \ {h} : pc'[q] = pc[q] /\ job'[q] = job[q]
         /\ job'[h] \in Clients /\ pc'[h] = FirstStep(job'[h])
<1>1. \A q \in Handlers : pc[q] \in Answers
  BY DEF Lone, Quiet
<1>2. /\ \A q \in Handlers \ {h} : pc'[q] = pc[q] /\ job'[q] = job[q]
      /\ job'[h] \in Clients /\ pc'[h] = FirstStep(job'[h])
  BY DEF Admit, GoTo, IInv, HandlersOK
<1>. QED
  BY <1>1, <1>2 DEF OneAtATime, Busy

-----------------------------------------------------------------------------
(* The default voice.  It is looked up, and it is spared, one step before    *)
(* the statement that counts on it: the invariant carries what was found     *)
(* over that step, which it survives for no other request is under way.      *)

\* A handler about to write a default speaker has found its voice.
DefaultFound ==
  \A h \in Handlers :
    pc[h] = "write" /\ job[h].kind = "update" /\ job[h].def # None
      => voices[job[h].def] # 0

\* A handler about to delete a voice has found that it is not the default.
DefaultSpared == \A h \in Handlers : pc[h] = "delete" => job[h].name # db.def

DefaultInv == OneAtATime /\ DefaultExists /\ DefaultFound /\ DefaultSpared

\* Who changes the default speaker and the voices.
LEMMA DefaultStays ==
  ASSUME IInv, NEW h \in Handlers, Handle(h)
  PROVE  \/ WriteOptions(h) \/ InsertVoice(h) \/ DeleteVoice(h)
         \/ voices' = voices /\ db'.def = db.def
<1>1. \/ Fail(h) \/ FindDefault(h) \/ LoadSettings(h) \/ LoadVoice(h) \/ LoadRate(h)
      \/ SetOptions(h) \/ ClearErr(h) \/ SetAuth(h) \/ ReadAuth(h) \/ SetAdmin(h)
      \/ ReadAll(h) \/ ReadOrigins(h) \/ SetCors(h) \/ FindVoice(h) \/ GetVoice(h)
      \/ ReadDefault(h)
      => voices' = voices /\ db' = db
  BY DEF Fail, FindDefault, LoadSettings, LoadVoice, LoadRate, SetOptions, ClearErr,
         SetAuth, ReadAuth, SetAdmin, ReadAll, ReadOrigins, SetCors, FindVoice,
         GetVoice, ReadDefault, Silent, tables
<1>2. WriteAuth(h) \/ WriteAdmin(h) \/ ClearAdmin(h) \/ WriteCors(h) => db'.def = db.def
  BY DEF WriteAuth, WriteAdmin, ClearAdmin, WriteCors, IInv, DataOK, Settings
<1>3. WriteAuth(h) \/ WriteAdmin(h) \/ ClearAdmin(h) \/ WriteCors(h) => voices' = voices
  BY DEF WriteAuth, WriteAdmin, ClearAdmin, WriteCors
<1>. QED
  BY <1>1, <1>2, <1>3 DEF Handle

\* What leads to the two statements.
LEMMA BeforeStatement ==
  ASSUME IInv, NEW h \in Handlers, Handle(h)
  PROVE  /\ pc'[h] = "write" => FindDefault(h) /\ voices[job[h].def] # 0
         /\ pc'[h] = "delete" => ReadDefault(h) /\ job[h].name # db.def
<1>. pc \in [Handlers -> Steps]
  BY DEF IInv, HandlersOK
<1>1. CASE FindDefault(h)
  BY <1>1 DEF FindDefault, GoTo, Answer
<1>2. CASE ReadDefault(h)
  BY <1>2 DEF ReadDefault, GoTo, Answer
<1>3. CASE \/ Fail(h) \/ WriteOptions(h) \/ LoadSettings(h) \/ LoadVoice(h)
           \/ LoadRate(h) \/ SetOptions(h) \/ ClearErr(h) \/ WriteAuth(h) \/ SetAuth(h)
  BY <1>3 DEF Fail, WriteOptions, LoadSettings, LoadVoice, LoadRate, SetOptions,
     ClearErr, WriteAuth, SetAuth, GoTo, Answer
<1>4. CASE WriteAdmin(h) \/ ReadAuth(h) \/ ClearAdmin(h) \/ SetAdmin(h) \/ WriteCors(h)
  BY <1>4 DEF WriteAdmin, ReadAuth, ClearAdmin, SetAdmin, WriteCors, GoTo, Answer
<1>5. CASE \/ ReadAll(h) \/ ReadOrigins(h) \/ SetCors(h) \/ InsertVoice(h)
           \/ FindVoice(h) \/ GetVoice(h) \/ DeleteVoice(h)
  BY <1>5 DEF ReadAll, ReadOrigins, SetCors, InsertVoice, FindVoice, GetVoice,
     DeleteVoice, GoTo, Answer
<1>. QED
  BY <1>1, <1>2, <1>3, <1>4, <1>5 DEF Handle

\* The default voice exists at the start, if the set-up named one of its own.
LEMMA DefaultInit ==
  ASSUME Init, ~Dangling
  PROVE  DefaultInv
<1>1. PICK n \in Names : n = db.def /\ voices = [m \in Names |-> IF m = n THEN 1 ELSE 0]
  BY DEF Init
<1>2. DefaultExists
  BY <1>1 DEF DefaultExists
<1>. QED
  BY <1>2 DEF Init, DefaultInv, OneAtATime, Busy, DefaultFound, DefaultSpared, Answers

\* Every step keeps it.
LEMMA DefaultStep ==
  ASSUME IInv, Lone, DefaultInv, [Next]_vars
  PROVE  DefaultInv'
<1>. USE DEF DefaultInv
<1>1. CASE UNCHANGED vars
  BY <1>1 DEF vars, tables, memory, handlers, OneAtATime, Busy, DefaultExists,
     DefaultFound, DefaultSpared
<1>2. CASE Rest
  BY <1>1, <1>2 DEF Rest
<1>3. ASSUME NEW h \in Handlers, Admit(h)
      PROVE  DefaultInv'
  <2>1. /\ OneAtATime'
        /\ \A q \in Handlers \ {h} : pc'[q] \in Answers
        /\ pc'[h] = FirstStep(job'[h])
    BY <1>3, AdmitAlone
  <2>2. voices' = voices /\ db' = db
    BY <1>3 DEF Admit, tables
  <2>3. DefaultFound' /\ DefaultSpared'
    BY <2>1 DEF FirstStep, Answers, DefaultFound, DefaultSpared
  <2>. QED
    BY <2>1, <2>2, <2>3 DEF DefaultExists
<1>4. ASSUME NEW h \in Handlers, Handle(h)
      PROVE  DefaultInv'
  <2>1. OneAtATime' /\ \A q \in Handlers \ {h} : pc'[q] \in Answers
    BY <1>4, OneStaysOne
  <2>2. job' = job
    BY <1>4, HandleApart DEF Apart
  <2>3. DefaultExists'
    <3>1. CASE WriteOptions(h)
      <4>1. pc[h] = "write" /\ job[h].kind = "update" /\ voices' = voices
        BY <3>1 DEF WriteOptions
      <4>2. db'.def = Sent(job[h].def, db.def)
        BY <3>1 DEF WriteOptions, IInv, DataOK, Settings
      <4>. QED
        BY <4>1, <4>2 DEF Sent, DefaultFound, DefaultExists
    <3>2. CASE InsertVoice(h)
      <4>1. voices \in [Names -> Rows] /\ db' = db /\ db.def \in Names
        BY <3>2 DEF InsertVoice, tables, IInv, DataOK, Settings
      <4>2. CASE voices' = voices
        BY <4>1, <4>2 DEF DefaultExists
      <4>3. CASE FreeRows # {} /\ voices' = [voices EXCEPT ![job[h].name] = CHOOSE r \in FreeRows : TRUE]
        <5>1. (CHOOSE r \in FreeRows : TRUE) # 0
          BY <4>3, ConfigAssumption DEF FreeRows
        <5>. QED
          BY <4>1, <4>3, <5>1 DEF DefaultExists
      <4>. QED
        BY <3>2, <4>2, <4>3 DEF InsertVoice, tables
    <3>3. CASE DeleteVoice(h)
      <4>1. job[h].name # db.def /\ db' = db /\ db.def \in Names /\ voices \in [Names -> Rows]
        BY <3>3 DEF DeleteVoice, DefaultSpared, IInv, DataOK, Settings
      <4>2. voices' = voices \/ voices' = [voices EXCEPT ![job[h].name] = 0]
        BY <3>3 DEF DeleteVoice
      <4>. QED
        BY <4>1, <4>2 DEF DefaultExists
    <3>4. CASE voices' = voices /\ db'.def = db.def
      BY <3>4 DEF DefaultExists
    <3>. QED
      BY <1>4, <3>1, <3>2, <3>3, <3>4, DefaultStays
  <2>4. DefaultFound'
    <3>1. pc'[h] = "write" => voices' = voices /\ voices[job[h].def] # 0
      BY <1>4, BeforeStatement DEF FindDefault, Silent, tables
    <3>. QED
      BY <2>1, <2>2, <3>1 DEF DefaultFound, Answers
  <2>5. DefaultSpared'
    <3>1. pc'[h] = "delete" => db' = db /\ job[h].name # db.def
      BY <1>4, BeforeStatement DEF ReadDefault, Silent, tables
    <3>. QED
      BY <2>1, <2>2, <3>1 DEF DefaultSpared, Answers
  <2>. QED
    BY <2>1, <2>3, <2>4, <2>5
<1>. QED
  BY <1>1, <1>2, <1>3, <1>4 DEF Next

\* Hence it always holds.
LEMMA DefaultInductive ==
  ASSUME ~Concurrent, ~Dangling
  PROVE  Spec => []DefaultInv
<1>1. Init => DefaultInv
  BY DefaultInit
<1>2. IInv /\ DefaultInv /\ [Next]_vars => DefaultInv'
  BY DefaultStep, SequentialIsLone
<1>. QED
  BY <1>1, <1>2, Inductive, PTL DEF Spec

(* With one administrator at a time, on a service that was set up with the  *)
(* voice it defaults to, the default speaker always names a voice that      *)
(* exists: the check of SettingsUpdate and that of VoiceDelete suffice.     *)
THEOREM DefaultExistsHolds ==
  ASSUME ~Concurrent, ~Dangling
  PROVE  Spec => []DefaultExists
<1>1. DefaultInv => DefaultExists
  BY DEF DefaultInv
<1>. QED
  BY <1>1, DefaultInductive, PTL

-----------------------------------------------------------------------------
(* A change takes effect.  A request that meets no other finds, at each of   *)
(* its steps, tables and memory as its earlier steps left them: Course says  *)
(* how that is, for each kind of request.                                    *)

\* The settings that LoadRuntimeConfig reads first.
FromDb(s) ==
  /\ s.conf = db.conf /\ s.def = db.def /\ s.auth = db.auth
  /\ s.admin = db.admin /\ s.origins = db.origins

UpdateCourse(p, s) ==
  /\ p \in {"load_voice", "load_rate", "set_options", "set_auth", "set_admin",
            "read_all", "set_cors"} => FromDb(s)
  /\ p \in {"load_rate", "set_options"} => s.row = voices[db.def]
  /\ p = "set_options" => s.rate = db.rate
  /\ p \in {"set_auth", "set_admin", "read_all", "set_cors", "clear_err", "ok"}
       => options = [conf |-> db.conf, rate |-> db.rate, row |-> voices[db.def]]
  /\ p \in {"set_admin", "read_all", "set_cors", "clear_err", "ok"} => auth = AuthOf(db)
  /\ p \in {"read_all", "set_cors", "clear_err", "ok"} => admin = AdminOf(db)
  /\ p = "set_cors" => s.all = db.all
  /\ p \in {"clear_err", "ok"} => cors = LoadedCors(db)
  /\ p = "ok" => ~cfgErr

AuthCourse(p, j, s) ==
  /\ p \in {"read_all", "read_origins", "set_cors"} => j.kind \in {"update", "cors"}
  /\ p = "read_origins" => j.kind = "cors"
  /\ p = "set_auth" => db.auth = j.key /\ s.auth = j.key
  /\ p = "ok" => auth = db.auth /\ auth = j.key

AdminCourse(p, j, s) ==
  /\ p \in {"read_all", "read_origins", "set_cors"} => j.kind \in {"update", "cors"}
  /\ p = "read_origins" => j.kind = "cors"
  /\ p \in {"read_auth", "clear"} => j.key = None /\ s.admin = None
  /\ p = "clear" => s.auth = db.auth
  /\ p = "set_admin" =>
       db.admin = j.key /\ s.admin = j.key /\ (j.key = None => s.auth = db.auth)
  /\ p = "ok" => admin = AdminOf(db) /\ db.admin = j.key

CorsCourse(p, s) ==
  /\ p \in {"read_origins", "set_cors"} => s.all = db.all
  /\ p = "set_cors" => s.origins = db.origins
  /\ p = "ok" => cors = CorsOf(db.all, db.origins)

Course(p, j, s) ==
  /\ p \in {"read_all", "read_origins", "set_cors"} => j.kind \in {"update", "cors"}
  /\ p = "read_origins" => j.kind = "cors"
  /\ j.kind = "update"    => UpdateCourse(p, s)
  /\ j.kind = "auth_key"  => AuthCourse(p, j, s)
  /\ j.kind = "admin_key" => AdminCourse(p, j, s)
  /\ j.kind = "cors"      => CorsCourse(p, s)
  /\ j.kind = "create" /\ p = "ok" => voices[j.name] # 0
  /\ j.kind = "delete" /\ p = "ok" => voices[j.name] = 0

OnCourse(h) == Course(pc[h], job[h], snap[h])

\* The local variables of a handler that has answered are gone.
Clean == \A h \in Handlers : pc[h] \in Answers => snap[h] = NoLocals

Undisturbed ==
  \A h \in Handlers : solo[h] =>
    /\ job[h] \in Jobs /\ OnCourse(h)
    /\ \A q \in Handlers \ {h} : pc[q] \in Answers

EffectInv == Clean /\ Undisturbed

\* Where a handler stands after a step, and with what.
LEMMA StepPlaces ==
  ASSUME IInv, NEW h \in Handlers, NEW p, GoTo(h, p)
  PROVE  /\ pc'[h] = p
         /\ snap' = snap => snap'[h] = snap[h]
         /\ \A s : snap' = [snap EXCEPT ![h] = s] => snap'[h] = s
  BY DEF IInv, HandlersOK, GoTo

\* A handler that answers anything but "ok" has no more to show.
LEMMA OtherAnswer ==
  ASSUME IInv, NEW h \in Handlers, NEW a \in {"refused", "failed"}, Answer(h, a)
  PROVE  OnCourse(h)'
<1>1. pc'[h] = a
  BY StepPlaces DEF Answer
<1>. QED
  BY <1>1 DEF OnCourse, Course, UpdateCourse, AuthCourse, AdminCourse, CorsCourse

\* The steps of an update up to the first publication.
LEMMA LoadingCourse ==
  ASSUME IInv, NEW h \in Handlers, OnCourse(h), solo'[h],
         \/ FindDefault(h) \/ WriteOptions(h) \/ LoadSettings(h) \/ LoadVoice(h)
         \/ LoadRate(h)
  PROVE  OnCourse(h)'
<1>0. job' = job /\ snap[h] \in Locals /\ solo \in [Handlers -> BOOLEAN]
      /\ db \in Settings /\ snap \in [Handlers -> Locals]
      /\ Fits(pc[h], job[h], snap[h])
  BY DEF FindDefault, WriteOptions, LoadSettings, LoadVoice, LoadRate, Silent, IInv,
     HandlersOK, DataOK
<1>1. CASE FindDefault(h)
  <2>1. job[h].kind = "update"
    BY <1>0, <1>1 DEF FindDefault, Fits
  <2>2. CASE Answer(h, "refused")
    BY <2>2, OtherAnswer
  <2>3. CASE GoTo(h, "write")
    <3>1. pc'[h] = "write"
      BY <2>3, StepPlaces
    <3>. QED
      BY <1>0, <2>1, <3>1 DEF OnCourse, Course, UpdateCourse
  <2>. QED
    BY <1>1, <2>2, <2>3 DEF FindDefault
<1>2. CASE WriteOptions(h)
  <2>1. pc'[h] = "load_settings" /\ job[h].kind = "update"
    BY <1>2, StepPlaces DEF WriteOptions
  <2>. QED
    BY <1>0, <2>1 DEF OnCourse, Course, UpdateCourse
<1>3. CASE LoadSettings(h)
  <2>1. pc'[h] = "load_voice" /\ job[h].kind = "update" /\ db' = db
    BY <1>0, <1>3, StepPlaces DEF LoadSettings, Silent, tables, Fits
  <2>2. snap'[h] = [snap[h] EXCEPT !.conf = db.conf, !.def = db.def, !.auth = db.auth,
                                   !.admin = db.admin, !.origins = db.origins]
    BY <1>0, <1>3 DEF LoadSettings
  <2>3. FromDb(snap[h])'
    BY <1>0, <2>1, <2>2 DEF FromDb, Locals
  <2>. QED
    BY <1>0, <2>1, <2>3 DEF OnCourse, Course, UpdateCourse
<1>4. CASE LoadVoice(h)
  <2>1. PICK f \in Found(h, voices[snap[h].def], 0) :
          snap' = [snap EXCEPT ![h].row = f[1]] /\ solo' = f[2]
    BY <1>4 DEF LoadVoice
  <2>2. f[1] = voices[snap[h].def]
    BY <1>0, <2>1, FoundSolo
  <2>3. pc'[h] = "load_rate" /\ job[h].kind = "update" /\ db' = db /\ voices' = voices
        /\ pc[h] = "load_voice"
    BY <1>0, <1>4, StepPlaces DEF LoadVoice, Silent, tables, Fits, Loading
  <2>4. FromDb(snap[h])
    BY <2>3 DEF OnCourse, Course, UpdateCourse
  <2>5. snap'[h] = [snap[h] EXCEPT !.row = voices[db.def]]
    BY <1>0, <2>1, <2>2, <2>4 DEF FromDb
  <2>6. FromDb(snap[h])' /\ snap'[h].row = voices'[db'.def]
    BY <1>0, <2>3, <2>4, <2>5 DEF FromDb, Locals
  <2>. QED
    BY <1>0, <2>3, <2>6 DEF OnCourse, Course, UpdateCourse
<1>5. CASE LoadRate(h)
  <2>1. PICK f \in Found(h, db.rate, None) :
          snap' = [snap EXCEPT ![h].rate = f[1]] /\ solo' = f[2]
    BY <1>5 DEF LoadRate
  <2>2. f[1] = db.rate
    BY <1>0, <2>1, FoundSolo
  <2>3. pc'[h] = "set_options" /\ job[h].kind = "update" /\ db' = db /\ voices' = voices
        /\ pc[h] = "load_rate"
    BY <1>0, <1>5, StepPlaces DEF LoadRate, Silent, tables, Fits, Loading
  <2>4. FromDb(snap[h]) /\ snap[h].row = voices[db.def]
    BY <2>3 DEF OnCourse, Course, UpdateCourse
  <2>5. snap'[h] = [snap[h] EXCEPT !.rate = db.rate]
    BY <1>0, <2>1, <2>2
  <2>6. FromDb(snap[h])' /\ snap'[h].row = voices'[db'.def] /\ snap'[h].rate = db'.rate
    BY <1>0, <2>3, <2>4, <2>5 DEF FromDb, Locals
  <2>. QED
    BY <1>0, <2>3, <2>6 DEF OnCourse, Course, UpdateCourse
<1>. QED
  BY <1>1, <1>2, <1>3, <1>4, <1>5

\* The publications of an update, and those of the requests that change a key.
LEMMA PublishingCourse ==
  ASSUME IInv, NEW h \in Handlers, OnCourse(h), solo'[h],
         SetOptions(h) \/ SetAuth(h) \/ SetAdmin(h) \/ SetCors(h) \/ ClearErr(h)
  PROVE  OnCourse(h)'
<1>0. /\ job' = job /\ db' = db /\ voices' = voices
      /\ job[h] \in Jobs \cup {NoJob} /\ Fits(pc[h], job[h], snap[h])
  BY DEF SetOptions, SetAuth, SetAdmin, SetCors, ClearErr, tables, IInv, HandlersOK
<1>1. CASE SetOptions(h)
  <2>1. /\ pc'[h] = "set_auth" /\ pc[h] = "set_options" /\ job[h].kind = "update"
        /\ snap'[h] = snap[h]
    BY <1>0, <1>1, StepPlaces DEF SetOptions, Fits, Loading
  <2>2. FromDb(snap[h]) /\ snap[h].row = voices[db.def] /\ snap[h].rate = db.rate
    BY <2>1 DEF OnCourse, Course, UpdateCourse
  <2>3. options' = [conf |-> db.conf, rate |-> db.rate, row |-> voices[db.def]]
    BY <1>1, <2>2 DEF SetOptions, FromDb
  <2>4. FromDb(snap[h])'
    BY <1>0, <2>1, <2>2 DEF FromDb
  <2>. QED
    BY <1>0, <2>1, <2>3, <2>4 DEF OnCourse, Course, UpdateCourse
<1>2. CASE SetAuth(h)
  <2>1. CASE job[h].kind = "update"
    <3>1. /\ pc'[h] = "set_admin" /\ pc[h] = "set_auth" /\ snap'[h] = snap[h]
          /\ auth' = AuthOf(snap[h]) /\ options' = options
      BY <1>2, <2>1, StepPlaces DEF SetAuth
    <3>2. /\ FromDb(snap[h])
          /\ options = [conf |-> db.conf, rate |-> db.rate, row |-> voices[db.def]]
      BY <2>1, <3>1 DEF OnCourse, Course, UpdateCourse
    <3>3. auth' = AuthOf(db') /\ FromDb(snap[h])'
      BY <1>0, <3>1, <3>2 DEF FromDb, AuthOf
    <3>. QED
      BY <1>0, <2>1, <3>1, <3>2, <3>3 DEF OnCourse, Course, UpdateCourse, AuthOf
  <2>2. CASE job[h].kind # "update"
    <3>1. /\ pc'[h] = "ok" /\ pc[h] = "set_auth" /\ job[h].kind = "auth_key"
          /\ auth' = AuthOf(snap[h])
      BY <1>0, <1>2, <2>2, StepPlaces DEF SetAuth, Answer, Fits
    <3>2. db.auth = job[h].key /\ snap[h].auth = job[h].key /\ job[h].key # None
      BY <1>0, <3>1, AuthJob, ConfigAssumption DEF OnCourse, Course, AuthCourse
    <3>3. auth' = db.auth /\ auth' = job[h].key
      BY <3>1, <3>2 DEF AuthOf
    <3>. QED
      BY <1>0, <3>1, <3>3 DEF OnCourse, Course, AuthCourse
  <2>. QED
    BY <2>1, <2>2
<1>3. CASE SetAdmin(h)
  <2>1. CASE job[h].kind = "update"
    <3>1. /\ pc'[h] = "read_all" /\ pc[h] = "set_admin" /\ snap'[h] = snap[h]
          /\ admin' = AdminOf(snap[h]) /\ options' = options /\ auth' = auth
      BY <1>3, <2>1, StepPlaces DEF SetAdmin
    <3>2. /\ FromDb(snap[h]) /\ auth = AuthOf(db)
          /\ options = [conf |-> db.conf, rate |-> db.rate, row |-> voices[db.def]]
      BY <2>1, <3>1 DEF OnCourse, Course, UpdateCourse
    <3>3. admin' = AdminOf(db') /\ FromDb(snap[h])' /\ auth' = AuthOf(db')
      BY <1>0, <3>1, <3>2 DEF FromDb, AuthOf, AdminOf
    <3>. QED
      BY <1>0, <2>1, <3>1, <3>2, <3>3 DEF OnCourse, Course, UpdateCourse, AuthOf, AdminOf
  <2>2. CASE job[h].kind # "update"
    <3>1. /\ pc'[h] = "ok" /\ pc[h] = "set_admin" /\ job[h].kind = "admin_key"
          /\ admin' = IF snap[h].admin # None
                      THEN [key |-> snap[h].admin, source |-> "admin_key"]
                      ELSE [key |-> snap[h].auth, source |-> "auth_key"]
      BY <1>0, <1>3, <2>2, StepPlaces DEF SetAdmin, Answer, Fits
    <3>2. /\ db.admin = job[h].key /\ snap[h].admin = job[h].key
          /\ job[h].key = None => snap[h].auth = db.auth
      BY <3>1 DEF OnCourse, Course, AdminCourse
    <3>3. snap[h].admin # None \/ snap[h].auth # None
      BY <1>0, <3>1 DEF Fits
    <3>4. admin' = AdminOf(db)
      BY <3>1, <3>2, <3>3 DEF AdminOf, AuthOf
    <3>5. admin' = AdminOf(db')
      BY <1>0, <3>4
    <3>. QED
      BY <1>0, <3>1, <3>2, <3>5 DEF OnCourse, Course, AdminCourse, AdminOf, AuthOf
  <2>. QED
    BY <2>1, <2>2
<1>4. CASE SetCors(h)
  <2>1. CASE job[h].kind = "update"
    <3>1. /\ pc'[h] = "clear_err" /\ pc[h] = "set_cors"
          /\ cors' = LoadedCors(snap[h]) /\ UNCHANGED <<options, auth, admin>>
      BY <1>4, <2>1, StepPlaces DEF SetCors
    <3>2. /\ FromDb(snap[h]) /\ auth = AuthOf(db) /\ admin = AdminOf(db)
          /\ options = [conf |-> db.conf, rate |-> db.rate, row |-> voices[db.def]]
          /\ snap[h].all = db.all
      BY <2>1, <3>1 DEF OnCourse, Course, UpdateCourse
    <3>3. cors' = LoadedCors(db)
      BY <3>1, <3>2 DEF FromDb, LoadedCors
    <3>4. cors' = LoadedCors(db') /\ auth' = AuthOf(db') /\ admin' = AdminOf(db')
      BY <1>0, <3>1, <3>2, <3>3
    <3>. QED
      BY <1>0, <2>1, <3>1, <3>2, <3>4 DEF OnCourse, Course, UpdateCourse, AuthOf, AdminOf,
         LoadedCors, CorsOf
  <2>2. CASE job[h].kind # "update"
    <3>1. /\ pc'[h] = "ok" /\ pc[h] = "set_cors"
          /\ cors' = CorsOf(snap[h].all, snap[h].origins)
      BY <1>4, <2>2, StepPlaces DEF SetCors, Answer
    <3>2. job[h].kind = "cors" /\ cors' = CorsOf(db.all, db.origins)
      BY <2>2, <3>1 DEF OnCourse, Course, CorsCourse
    <3>. QED
      BY <1>0, <3>1, <3>2 DEF OnCourse, Course, CorsCourse, CorsOf
  <2>. QED
    BY <2>1, <2>2
<1>5. CASE ClearErr(h)
  <2>1. /\ pc'[h] = "ok" /\ pc[h] = "clear_err" /\ job[h].kind = "update"
        /\ ~cfgErr' /\ UNCHANGED <<options, auth, admin, cors>>
    BY <1>0, <1>5, StepPlaces DEF ClearErr, Answer, Fits
  <2>2. /\ auth = AuthOf(db) /\ admin = AdminOf(db) /\ cors = LoadedCors(db)
        /\ options = [conf |-> db.conf, rate |-> db.rate, row |-> voices[db.def]]
    BY <2>1 DEF OnCourse, Course, UpdateCourse
  <2>3. auth' = AuthOf(db') /\ admin' = AdminOf(db') /\ cors' = LoadedCors(db')
    BY <1>0, <2>1, <2>2
  <2>. QED
    BY <1>0, <2>1, <2>2, <2>3 DEF OnCourse, Course, UpdateCourse, AuthOf, AdminOf,
       LoadedCors, CorsOf
<1>. QED
  BY <1>1, <1>2, <1>3, <1>4, <1>5

\* The other steps of the requests that change a key.
LEMMA KeyCourse ==
  ASSUME IInv, NEW h \in Handlers, OnCourse(h), solo'[h],
         WriteAuth(h) \/ WriteAdmin(h) \/ ReadAuth(h) \/ ClearAdmin(h)
  PROVE  OnCourse(h)'
<1>0. /\ job' = job /\ job[h] \in Jobs \cup {NoJob} /\ Fits(pc[h], job[h], snap[h])
      /\ db \in Settings /\ snap \in [Handlers -> Locals] /\ snap[h] \in Locals
      /\ solo \in [Handlers -> BOOLEAN]
  BY DEF WriteAuth, WriteAdmin, ReadAuth, ClearAdmin, Silent, IInv, HandlersOK, DataOK
<1>1. CASE WriteAuth(h)
  <2>1. /\ pc'[h] = "set_auth" /\ job[h].kind = "auth_key"
        /\ snap'[h] = [snap[h] EXCEPT !.auth = job[h].key]
        /\ db' = [db EXCEPT !.auth = job[h].key]
    BY <1>0, <1>1, StepPlaces DEF WriteAuth
  <2>2. snap'[h].auth = job[h].key /\ db'.auth = job[h].key
    BY <1>0, <2>1 DEF Locals, Settings
  <2>. QED
    BY <1>0, <2>1, <2>2 DEF OnCourse, Course, AuthCourse
<1>2. CASE WriteAdmin(h)
  <2>1. /\ pc'[h] = "set_admin" /\ pc[h] = "write" /\ job[h].kind = "admin_key"
        /\ snap'[h] = [snap[h] EXCEPT !.admin = job[h].key]
        /\ db' = [db EXCEPT !.admin = job[h].key]
    BY <1>0, <1>2, StepPlaces DEF WriteAdmin
  <2>2. snap'[h].admin = job[h].key /\ db'.admin = job[h].key /\ job[h].key # None
    BY <1>0, <2>1 DEF Locals, Settings, Fits
  <2>. QED
    BY <1>0, <2>1, <2>2 DEF OnCourse, Course, AdminCourse
<1>3. CASE ReadAuth(h)
  <2>1. PICK f \in Found(h, db.auth, None) :
          /\ solo' = f[2]
          /\ IF f[1] = None THEN Answer(h, "refused")
             ELSE GoTo(h, "clear") /\ snap' = [snap EXCEPT ![h].auth = f[1]]
    BY <1>3 DEF ReadAuth
  <2>2. f[1] = db.auth
    BY <1>0, <2>1, FoundSolo
  <2>3. CASE Answer(h, "refused")
    BY <2>3, OtherAnswer
  <2>4. CASE GoTo(h, "clear") /\ snap' = [snap EXCEPT ![h].auth = f[1]]
    <3>1. /\ pc[h] = "read_auth" /\ pc'[h] = "clear" /\ job[h].kind = "admin_key" /\ db' = db
          /\ snap'[h] = [snap[h] EXCEPT !.auth = db.auth]
      BY <1>0, <1>3, <2>2, <2>4, StepPlaces DEF ReadAuth, Silent, tables, Fits
    <3>2. job[h].key = None /\ snap[h].admin = None
      BY <3>1 DEF OnCourse, Course, AdminCourse
    <3>3. snap'[h].admin = None /\ snap'[h].auth = db'.auth
      BY <1>0, <3>1, <3>2 DEF Locals
    <3>. QED
      BY <1>0, <3>1, <3>2, <3>3 DEF OnCourse, Course, AdminCourse
  <2>. QED
    BY <2>1, <2>3, <2>4
<1>4. CASE ClearAdmin(h)
  <2>1. /\ pc[h] = "clear" /\ pc'[h] = "set_admin" /\ job[h].kind = "admin_key"
        /\ snap'[h] = snap[h] /\ db' = [db EXCEPT !.admin = None]
    BY <1>0, <1>4, StepPlaces DEF ClearAdmin, Fits
  <2>2. job[h].key = None /\ snap[h].admin = None /\ snap[h].auth = db.auth
    BY <2>1 DEF OnCourse, Course, AdminCourse
  <2>3. db'.admin = None /\ db'.auth = db.auth
    BY <1>0, <2>1 DEF Settings
  <2>. QED
    BY <1>0, <2>1, <2>2, <2>3 DEF OnCourse, Course, AdminCourse
<1>. QED
  BY <1>1, <1>2, <1>3, <1>4

\* The other steps of a CORS request, and the flag of an update.
LEMMA CorsSteps ==
  ASSUME IInv, NEW h \in Handlers, OnCourse(h), solo'[h],
         WriteCors(h) \/ ReadAll(h) \/ ReadOrigins(h)
  PROVE  OnCourse(h)'
<1>0. /\ job' = job /\ db \in Settings
      /\ snap \in [Handlers -> Locals] /\ snap[h] \in Locals
      /\ solo \in [Handlers -> BOOLEAN]
  BY DEF WriteCors, ReadAll, ReadOrigins, Silent, IInv, HandlersOK, DataOK
<1>1. CASE WriteCors(h)
  <2>1. pc'[h] = "read_all" /\ job[h].kind = "cors"
    BY <1>1, StepPlaces DEF WriteCors
  <2>. QED
    BY <1>0, <2>1 DEF OnCourse, Course, CorsCourse
<1>2. CASE ReadAll(h)
  <2> DEFINE no == FALSE
  <2>1. PICK f \in Found(h, db.all, no) :
          snap' = [snap EXCEPT ![h].all = f[1]] /\ solo' = f[2]
    BY <1>2 DEF ReadAll
  <2>2. f[1] = db.all
    <3>. HIDE DEF no
    <3>. QED
      BY <1>0, <2>1, FoundSolo
  <2>3. /\ pc[h] = "read_all" /\ db' = db
        /\ pc'[h] = IF job[h].kind = "update" THEN "set_cors" ELSE "read_origins"
        /\ UNCHANGED <<voices, options, auth, admin>>
    BY <1>2, StepPlaces DEF ReadAll, Silent, tables, memory
  <2>4. snap'[h] = [snap[h] EXCEPT !.all = db.all]
    BY <1>0, <2>1, <2>2
  <2>5. snap'[h].all = db'.all /\ (FromDb(snap[h]) => FromDb(snap[h])')
    BY <1>0, <2>3, <2>4 DEF FromDb, Locals
  <2>6. CASE job[h].kind = "update"
    <3>1. /\ FromDb(snap[h]) /\ auth = AuthOf(db) /\ admin = AdminOf(db)
          /\ options = [conf |-> db.conf, rate |-> db.rate, row |-> voices[db.def]]
      BY <2>3, <2>6 DEF OnCourse, Course, UpdateCourse
    <3>2. auth' = AuthOf(db') /\ admin' = AdminOf(db')
      BY <2>3, <3>1
    <3>. QED
      BY <1>0, <2>3, <2>5, <2>6, <3>1, <3>2 DEF OnCourse, Course, UpdateCourse, AuthOf, AdminOf
  <2>7. CASE job[h].kind # "update"
    <3>1. job[h].kind = "cors" /\ pc'[h] = "read_origins"
      BY <2>3, <2>7 DEF OnCourse, Course
    <3>. QED
      BY <1>0, <2>5, <3>1 DEF OnCourse, Course, CorsCourse
  <2>. QED
    BY <2>6, <2>7
<1>3. CASE ReadOrigins(h)
  <2>1. PICK f \in Found(h, db.origins, {}) :
          snap' = [snap EXCEPT ![h].origins = f[1]] /\ solo' = f[2]
    BY <1>3 DEF ReadOrigins
  <2>2. f[1] = db.origins
    BY <1>0, <2>1, FoundSolo
  <2>3. pc[h] = "read_origins" /\ db' = db /\ pc'[h] = "set_cors"
    BY <1>3, StepPlaces DEF ReadOrigins, Silent, tables
  <2>4. snap'[h] = [snap[h] EXCEPT !.origins = db.origins]
    BY <1>0, <2>1, <2>2
  <2>5. job[h].kind = "cors" /\ snap[h].all = db.all
    BY <2>3 DEF OnCourse, Course, CorsCourse
  <2>6. snap'[h].all = db'.all /\ snap'[h].origins = db'.origins
    BY <1>0, <2>3, <2>4, <2>5 DEF Locals
  <2>. QED
    BY <1>0, <2>3, <2>5, <2>6 DEF OnCourse, Course, CorsCourse
<1>. QED
  BY <1>1, <1>2, <1>3

\* The steps of a request about a voice.
LEMMA VoiceCourse ==
  ASSUME IInv, NEW h \in Handlers, OnCourse(h),
         InsertVoice(h) \/ FindVoice(h) \/ GetVoice(h) \/ ReadDefault(h) \/ DeleteVoice(h)
  PROVE  OnCourse(h)'
<1>0. /\ job' = job /\ job[h] \in Jobs \cup {NoJob} /\ Fits(pc[h], job[h], snap[h])
      /\ voices \in [Names -> Rows]
  BY DEF InsertVoice, FindVoice, GetVoice, ReadDefault, DeleteVoice, Silent, IInv,
     HandlersOK, DataOK
<1>1. ASSUME Answer(h, "refused") PROVE OnCourse(h)'
  BY <1>1, OtherAnswer
<1>2. CASE InsertVoice(h)
  <2>1. job[h].kind = "create" /\ job[h].name \in Names
    BY <1>0, <1>2, VoiceJob DEF InsertVoice
  <2>2. ASSUME /\ FreeRows # {} /\ Answer(h, "ok")
               /\ voices' = [voices EXCEPT ![job[h].name] = CHOOSE r \in FreeRows : TRUE]
        PROVE  OnCourse(h)'
    <3>1. (CHOOSE r \in FreeRows : TRUE) # 0
      BY <2>2, ConfigAssumption DEF FreeRows
    <3>2. voices'[job[h].name] # 0 /\ pc'[h] = "ok"
      BY <1>0, <2>1, <2>2, <3>1, StepPlaces DEF Answer
    <3>. QED
      BY <1>0, <2>1, <3>2 DEF OnCourse, Course
  <2>. QED
    BY <1>1, <1>2, <2>2 DEF InsertVoice
<1>3. CASE FindVoice(h) \/ GetVoice(h) \/ ReadDefault(h)
  <2>1. job[h].kind = "delete"
    BY <1>0, <1>3 DEF FindVoice, GetVoice, ReadDefault, Fits
  <2>2. Answer(h, "refused") \/ GoTo(h, "get") \/ GoTo(h, "read_default") \/ GoTo(h, "delete")
    BY <1>3 DEF FindVoice, GetVoice, ReadDefault
  <2>3. ASSUME pc'[h] \in {"get", "read_default", "delete"} PROVE OnCourse(h)'
    BY <1>0, <2>1, <2>3 DEF OnCourse, Course
  <2>. QED
    BY <1>1, <2>2, <2>3, StepPlaces
<1>4. CASE DeleteVoice(h)
  <2>1. job[h].kind = "delete" /\ job[h].name \in Names
    BY <1>0, <1>4, VoiceJob DEF DeleteVoice, Fits
  <2>2. ASSUME Answer(h, "ok"), voices' = [voices EXCEPT ![job[h].name] = 0]
        PROVE  OnCourse(h)'
    <3>1. voices'[job[h].name] = 0 /\ pc'[h] = "ok"
      BY <1>0, <2>1, <2>2, StepPlaces DEF Answer
    <3>. QED
      BY <1>0, <2>1, <3>1 DEF OnCourse, Course
  <2>. QED
    BY <1>1, <1>4, <2>2 DEF DeleteVoice
<1>. QED
  BY <1>2, <1>3, <1>4

\* A handler that has answered keeps nothing.
LEMMA AnswersClean ==
  ASSUME IInv, NEW h \in Handlers, Handle(h), pc'[h] \in Answers
  PROVE  snap'[h] = NoLocals
<1>1. ASSUME NEW a, Answer(h, a) PROVE snap'[h] = NoLocals
  BY <1>1 DEF Answer, IInv, HandlersOK
<1>2. \A p : GoTo(h, p) => p \in Answers
  BY StepPlaces
<1>3. CASE \/ Fail(h) \/ FindDefault(h) \/ WriteOptions(h) \/ LoadSettings(h)
           \/ LoadVoice(h) \/ LoadRate(h) \/ SetOptions(h) \/ ClearErr(h)
  BY <1>1, <1>2, <1>3 DEF Fail, FindDefault, WriteOptions, LoadSettings, LoadVoice,
     LoadRate, SetOptions, ClearErr, Answers
<1>4. CASE \/ WriteAuth(h) \/ SetAuth(h) \/ WriteAdmin(h) \/ ClearAdmin(h)
           \/ SetAdmin(h) \/ WriteCors(h)
  BY <1>1, <1>2, <1>4 DEF WriteAuth, SetAuth, WriteAdmin, ClearAdmin, SetAdmin,
     WriteCors, Answers
<1>8. CASE ReadAuth(h)
  <2>1. Answer(h, "refused") \/ GoTo(h, "clear")
    BY <1>8 DEF ReadAuth
  <2>. QED
    BY <1>1, <1>2, <2>1 DEF Answers
<1>5. CASE ReadOrigins(h) \/ SetCors(h) \/ InsertVoice(h)
  BY <1>1, <1>2, <1>5 DEF ReadOrigins, SetCors, InsertVoice, Answers
<1>6. CASE ReadAll(h)
  <2>1. GoTo(h, "set_cors") \/ GoTo(h, "read_origins")
    BY <1>6 DEF ReadAll
  <2>. QED
    BY <1>2, <2>1 DEF Answers
<1>7. CASE FindVoice(h) \/ GetVoice(h) \/ ReadDefault(h) \/ DeleteVoice(h)
  BY <1>1, <1>2, <1>7 DEF FindVoice, GetVoice, ReadDefault, DeleteVoice, Answers
<1>. QED
  BY <1>3, <1>4, <1>5, <1>6, <1>7, <1>8 DEF Handle

\* A step of an undisturbed handler keeps it on course.
LEMMA HandleCourse ==
  ASSUME IInv, NEW h \in Handlers, OnCourse(h), solo'[h], Handle(h)
  PROVE  OnCourse(h)'
<1>1. CASE Fail(h)
  BY <1>1, OtherAnswer DEF Fail
<1>. QED
  BY <1>1, LoadingCourse, PublishingCourse, KeyCourse, CorsSteps, VoiceCourse DEF Handle

\* Every step keeps the invariant.
LEMMA EffectStep ==
  ASSUME IInv, EffectInv, [Next]_vars
  PROVE  EffectInv'
<1>. USE DEF EffectInv
<1>1. CASE UNCHANGED vars
  <2>1. /\ UNCHANGED <<db, voices, options, auth, admin, cors, cfgErr>>
        /\ UNCHANGED <<pc, job, snap, solo>>
    BY <1>1 DEF vars, tables, memory, handlers
  <2>2. /\ AuthOf(db') = AuthOf(db) /\ AdminOf(db') = AdminOf(db)
        /\ LoadedCors(db') = LoadedCors(db) /\ CorsOf(db'.all, db'.origins) = CorsOf(db.all, db.origins)
    BY <2>1
  <2>3. ASSUME NEW h \in Handlers, solo[h], OnCourse(h) PROVE OnCourse(h)'
    <3>1. UpdateCourse(pc[h], snap[h]) => UpdateCourse(pc[h], snap[h])'
      BY <2>1, <2>2 DEF UpdateCourse, FromDb, AuthOf, AdminOf, LoadedCors, CorsOf
    <3>2. AuthCourse(pc[h], job[h], snap[h]) => AuthCourse(pc[h], job[h], snap[h])'
      BY <2>1 DEF AuthCourse
    <3>3. AdminCourse(pc[h], job[h], snap[h]) => AdminCourse(pc[h], job[h], snap[h])'
      BY <2>1, <2>2 DEF AdminCourse, AdminOf, AuthOf
    <3>4. CorsCourse(pc[h], snap[h]) => CorsCourse(pc[h], snap[h])'
      BY <2>1, <2>2 DEF CorsCourse, CorsOf
    <3>. QED
      BY <2>1, <2>3, <3>1, <3>2, <3>3, <3>4 DEF OnCourse, Course
  <2>4. Undisturbed'
    BY <2>1, <2>3 DEF Undisturbed
  <2>5. Clean'
    BY <2>1 DEF Clean
  <2>. QED
    BY <2>4, <2>5
<1>2. CASE Rest
  BY <1>1, <1>2 DEF Rest
<1>3. ASSUME NEW h \in Handlers, Admit(h)
      PROVE  EffectInv'
  <2>1. PICK j \in Clients : job' = [job EXCEPT ![h] = j] /\ GoTo(h, FirstStep(j))
    BY <1>3 DEF Admit
  <2>2. /\ pc'[h] = FirstStep(j) /\ job'[h] = j /\ snap' = snap
        /\ \A q \in Handlers \ {h} : pc'[q] = pc[q]
        /\ pc[h] \in Answers
    BY <1>3, <2>1 DEF Admit, GoTo, IInv, HandlersOK
  <2>3. /\ FirstStep(j) \in {"find_default", "read_auth", "find", "write"}
        /\ FirstStep(j) = "read_auth" => j.kind = "admin_key" /\ j.key = None
    BY DEF FirstStep
  <2>4. Clean'
    BY <2>2, <2>3 DEF Clean, Answers
  <2>5. ASSUME NEW q \in Handlers, solo'[q]
        PROVE  /\ job'[q] \in Jobs /\ OnCourse(q)'
               /\ \A r \in Handlers \ {q} : pc'[r] \in Answers
    <3>1. q = h /\ \A r \in Handlers : pc[r] \in Answers
      BY <1>3, <2>5 DEF Admit
    <3>0. job'[h] \in Jobs
      BY <2>2, ConfigAssumption
    <3>2. snap'[h].admin = None
      BY <2>2 DEF Clean, NoLocals
    <3>3. OnCourse(h)'
      BY <2>2, <2>3, <3>2 DEF OnCourse, Course, UpdateCourse, AuthCourse, AdminCourse,
         CorsCourse
    <3>. QED
      BY <2>2, <3>0, <3>1, <3>3
  <2>. QED
    BY <2>4, <2>5 DEF Undisturbed
<1>4. ASSUME NEW h \in Handlers, Handle(h)
      PROVE  EffectInv'
  <2>1. Apart(h) /\ Busy(h)
    BY <1>4, HandleApart
  <2>2. Clean'
    BY <1>4, <2>1, AnswersClean DEF Clean, Apart
  <2>3. ASSUME NEW q \in Handlers, solo'[q]
        PROVE  /\ job'[q] \in Jobs /\ OnCourse(q)'
               /\ \A r \in Handlers \ {q} : pc'[r] \in Answers
    <3>1. q = h /\ solo[h]
      <4>1. CASE q = h
        BY <2>1, <2>3, <4>1 DEF Apart
      <4>2. CASE q # h
        <5>1. solo[q]
          BY <2>1, <2>3, <4>2 DEF Apart
        <5>. QED
          BY <2>1, <4>2, <5>1 DEF Undisturbed, Busy
      <4>. QED
        BY <4>1, <4>2
    <3>2. OnCourse(h)'
      BY <1>4, <2>3, <3>1, HandleCourse DEF Undisturbed
    <3>. QED
      BY <2>1, <3>1, <3>2 DEF Undisturbed, Apart, Jobs
  <2>. QED
    BY <2>2, <2>3 DEF Undisturbed
<1>. QED
  BY <1>1, <1>2, <1>3, <1>4 DEF Next

\* Hence it always holds.
LEMMA EffectInductive == Spec => []EffectInv
<1>1. Init => EffectInv
  BY DEF Init, EffectInv, Clean, Undisturbed
<1>2. IInv /\ EffectInv /\ [Next]_vars => EffectInv'
  BY EffectStep
<1>. QED
  BY <1>1, <1>2, Inductive, PTL DEF Spec

(* A change that was acknowledged has taken effect, when its handler met no *)
(* other request and no failing query: whatever kind of change it is, and   *)
(* whatever earlier overlaps and failures had left in tables and memory.    *)
THEOREM TakesEffectHolds == Spec => []TakesEffect
<1>1. EffectInv => TakesEffect
  <2>1. SUFFICES ASSUME EffectInv, NEW h \in Handlers, pc[h] = "ok", solo[h]
                 PROVE  CASE job[h].kind = "update" ->
                               /\ options = [conf |-> db.conf, rate |-> db.rate,
                                             row |-> voices[db.def]]
                               /\ auth = AuthOf(db)
                               /\ admin = AdminOf(db)
                               /\ cors = LoadedCors(db)
                               /\ ~cfgErr
                          [] job[h].kind = "auth_key"  -> auth = db.auth /\ auth = job[h].key
                          [] job[h].kind = "admin_key" ->
                               admin = AdminOf(db) /\ db.admin = job[h].key
                          [] job[h].kind = "cors"      -> cors = CorsOf(db.all, db.origins)
                          [] job[h].kind = "create"    -> voices[job[h].name] # 0
                          [] job[h].kind = "delete"    -> voices[job[h].name] = 0
    BY DEF TakesEffect
  <2>2. Course("ok", job[h], snap[h]) /\ job[h] \in Jobs
    BY <2>1 DEF EffectInv, Undisturbed, OnCourse
  <2>3. job[h].kind \in {"update", "auth_key", "admin_key", "cors", "create", "delete"}
    BY <2>2 DEF Jobs
  <2>4. CASE job[h].kind = "update"
    BY <2>2, <2>4 DEF Course, UpdateCourse
  <2>5. CASE job[h].kind = "auth_key"
    BY <2>2, <2>5 DEF Course, AuthCourse
  <2>6. CASE job[h].kind = "admin_key"
    BY <2>2, <2>6 DEF Course, AdminCourse
  <2>7. CASE job[h].kind = "cors"
    BY <2>2, <2>7 DEF Course, CorsCourse
  <2>8. CASE job[h].kind \in {"create", "delete"}
    BY <2>2, <2>8 DEF Course
  <2>. QED
    BY <2>3, <2>4, <2>5, <2>6, <2>7, <2>8
<1>. QED
  BY <1>1, EffectInductive, PTL

-----------------------------------------------------------------------------
(* Never half a change.  With one administrator at a time every handler is   *)
(* undisturbed, and what is in memory differs from what is stored in the one *)
(* copy at most that the handler is about to replace.                        *)

OwnKey(a) == IF a.source = "admin_key" THEN a.key ELSE None

StoredOptions == [conf |-> db.conf, rate |-> db.rate, row |-> voices[db.def]]

\* A handler has written the options, the authentication key, or the admin key,
\* and has not published it.
OptionsPending(h) == pc[h] \in {"load_settings", "load_voice", "load_rate", "set_options"}
AuthPending(h)  == pc[h] = "set_auth"  /\ job[h].kind = "auth_key"
AdminPending(h) == pc[h] = "set_admin" /\ job[h].kind = "admin_key"

OptionsShown == options = StoredOptions
AuthShown    == auth = AuthOf(db)
AdminShown   == OwnKey(admin) = db.admin

ShownInv ==
  /\ \A h \in Handlers : Busy(h) => solo[h]
  /\ OptionsShown \/ \E h \in Handlers : OptionsPending(h)
  /\ AuthShown    \/ \E h \in Handlers : AuthPending(h)
  /\ AdminShown   \/ \E h \in Handlers : AdminPending(h)

Settled == OptionsShown /\ AuthShown /\ AdminShown

\* The copies in memory that the abstraction looks at, and what is stored of them.
SameMemory == UNCHANGED <<options, auth, admin>>
SameStored ==
  StoredOptions' = StoredOptions /\ AuthOf(db)' = AuthOf(db) /\ db'.admin = db.admin

\* The service is settled when memory shows what is stored.
LEMMA SettledIsEqual ==
  /\ Settled => <<options.conf, options.rate, options.row, auth,
                  IF admin.source = "admin_key" THEN admin.key ELSE None>>
                = <<db.conf, db.rate, voices[db.def], AuthOf(db), db.admin>>
  BY DEF Settled, OptionsShown, AuthShown, AdminShown, StoredOptions, OwnKey

\* A step that leaves memory alone stores a change or stutters, if it starts
\* from a settled service.
LEMMA StoreStep ==
  ASSUME Settled, SameMemory
  PROVE  [Live!LNext]_(Live!lvars)
  BY SettledIsEqual DEF SameMemory, Live!LNext, Live!Store, Live!lvars

\* A step after which memory shows what was stored already makes it take effect,
\* or stutters.
LEMMA EffectiveStep ==
  ASSUME Settled', SameStored
  PROVE  [Live!LNext]_(Live!lvars)
<1>1. <<options'.conf, options'.rate, options'.row, auth',
        IF admin'.source = "admin_key" THEN admin'.key ELSE None>>
      = <<db'.conf, db'.rate, voices'[db'.def], AuthOf(db'), db'.admin>>
  BY DEF Settled, OptionsShown, AuthShown, AdminShown, StoredOptions, OwnKey, AuthOf
<1>2. <<db'.conf, db'.rate, voices'[db'.def], AuthOf(db'), db'.admin>>
      = <<db.conf, db.rate, voices[db.def], AuthOf(db), db.admin>>
  BY DEF SameStored, StoredOptions, AuthOf
<1>. QED
  BY <1>1, <1>2 DEF Live!LNext, Live!TakeEffect, Live!lvars

\* A step that changes neither is a stutter.
LEMMA StutterStep ==
  ASSUME SameMemory, SameStored
  PROVE  [Live!LNext]_(Live!lvars)
<1>1. <<db'.conf, db'.rate, voices'[db'.def], AuthOf(db'), db'.admin>>
      = <<db.conf, db.rate, voices[db.def], AuthOf(db), db.admin>>
  BY DEF SameStored, StoredOptions, AuthOf
<1>. QED
  BY <1>1 DEF SameMemory, Live!lvars

\* What handler h has not published is all that is not shown.
ShownAt(h) ==
  /\ OptionsShown \/ OptionsPending(h)
  /\ AuthShown \/ AuthPending(h)
  /\ AdminShown \/ AdminPending(h)

\* A handler with nothing pending works on a settled service.
LEMMA NothingPending ==
  ASSUME NEW h \in Handlers, ShownAt(h),
         pc[h] \notin {"load_settings", "load_voice", "load_rate", "set_options",
                       "set_auth", "set_admin"}
  PROVE  Settled
  BY DEF ShownAt, Settled, OptionsPending, AuthPending, AdminPending

\* A settled service is shown.
LEMMA SettledIsShown ==
  ASSUME NEW h \in Handlers, Settled'
  PROVE  ShownAt(h)'
  BY DEF Settled, ShownAt

\* A settled service stays so while neither side changes.
LEMMA StaysSettled ==
  ASSUME Settled, SameMemory, SameStored
  PROVE  Settled'
  BY DEF Settled, SameMemory, SameStored, OptionsShown, AuthShown, AdminShown, OwnKey

\* The reading steps.
LEMMA ReadShown ==
  ASSUME IInv, NEW h \in Handlers, ShownAt(h),
         \/ FindDefault(h) \/ LoadSettings(h) \/ LoadVoice(h) \/ LoadRate(h)
         \/ ReadAuth(h) \/ ReadAll(h) \/ ReadOrigins(h)
         \/ FindVoice(h) \/ GetVoice(h) \/ ReadDefault(h)
  PROVE  [Live!LNext]_(Live!lvars) /\ ShownAt(h)'
<1>1. Silent(h)
  BY DEF FindDefault, LoadSettings, LoadVoice, LoadRate, ReadAuth, ReadAll, ReadOrigins,
         FindVoice, GetVoice, ReadDefault
<1>2. SameMemory
  BY <1>1 DEF Silent, memory, SameMemory
<1>3. SameStored
  BY <1>1 DEF Silent, tables, SameStored, StoredOptions, AuthOf
<1>4. CASE LoadSettings(h) \/ LoadVoice(h) \/ LoadRate(h)
  <2>1. /\ pc[h] \in {"load_settings", "load_voice", "load_rate"}
        /\ pc'[h] \in {"load_voice", "load_rate", "set_options"}
    BY <1>4, StepPlaces DEF LoadSettings, LoadVoice, LoadRate
  <2>2. AuthShown /\ AdminShown /\ OptionsPending(h)'
    BY <2>1 DEF ShownAt, AuthPending, AdminPending, OptionsPending
  <2>3. AuthShown' /\ AdminShown'
    BY <1>2, <1>3, <2>2 DEF SameMemory, SameStored, AuthShown, AdminShown, OwnKey
  <2>. QED
    BY <1>2, <1>3, <2>2, <2>3, StutterStep DEF ShownAt
<1>5. CASE ~(LoadSettings(h) \/ LoadVoice(h) \/ LoadRate(h))
  <2>1. pc[h] \notin {"load_settings", "load_voice", "load_rate", "set_options",
                      "set_auth", "set_admin"}
    BY <1>5 DEF FindDefault, ReadAuth, ReadAll, ReadOrigins, FindVoice, GetVoice, ReadDefault
  <2>. QED
    BY <1>2, <1>3, <2>1, NothingPending, StaysSettled, SettledIsShown, StutterStep
<1>. QED
  BY <1>4, <1>5

\* The writing steps.
LEMMA WriteShown ==
  ASSUME IInv, NEW h \in Handlers, ShownAt(h),
         WriteOptions(h) \/ WriteAuth(h) \/ WriteAdmin(h) \/ ClearAdmin(h) \/ WriteCors(h)
  PROVE  [Live!LNext]_(Live!lvars) /\ ShownAt(h)'
<1>1. SameMemory /\ voices' = voices /\ db \in Settings /\ job' = job
  BY DEF WriteOptions, WriteAuth, WriteAdmin, ClearAdmin, WriteCors, memory, SameMemory,
     IInv, DataOK
<1>2. pc[h] \in {"write", "clear"}
  BY DEF WriteOptions, WriteAuth, WriteAdmin, ClearAdmin, WriteCors
<1>3. Settled
  BY <1>2, NothingPending
<1>4. ASSUME WriteOptions(h)
      PROVE  ShownAt(h)'
  <2>1. pc'[h] = "load_settings" /\ db'.auth = db.auth /\ db'.admin = db.admin
    BY <1>1, <1>4, StepPlaces DEF WriteOptions, Settings
  <2>2. OptionsPending(h)' /\ AuthShown' /\ AdminShown'
    BY <1>1, <1>3, <2>1 DEF SameMemory, Settled, OptionsPending, AuthShown, AdminShown,
       AuthOf, OwnKey
  <2>. QED
    BY <2>2 DEF ShownAt
<1>5. ASSUME WriteAuth(h)
      PROVE  ShownAt(h)'
  <2>1. /\ pc'[h] = "set_auth" /\ job[h].kind = "auth_key"
        /\ db' = [db EXCEPT !.auth = job[h].key]
    BY <1>5, StepPlaces DEF WriteAuth
  <2>2. StoredOptions' = StoredOptions /\ db'.admin = db.admin
    BY <1>1, <2>1 DEF Settings, StoredOptions
  <2>3. AuthPending(h)' /\ OptionsShown' /\ AdminShown'
    BY <1>1, <1>3, <2>1, <2>2 DEF SameMemory, Settled, AuthPending, OptionsShown,
       AdminShown, OwnKey
  <2>. QED
    BY <2>3 DEF ShownAt
<1>6. ASSUME WriteAdmin(h) \/ ClearAdmin(h)
      PROVE  ShownAt(h)'
  <2>1. /\ pc'[h] = "set_admin" /\ job[h].kind = "admin_key"
        /\ \E k : db' = [db EXCEPT !.admin = k]
    BY <1>6, StepPlaces DEF WriteAdmin, ClearAdmin, IInv, HandlersOK, Fits
  <2>2. StoredOptions' = StoredOptions /\ db'.auth = db.auth
    BY <1>1, <2>1 DEF Settings, StoredOptions
  <2>3. AdminPending(h)' /\ OptionsShown' /\ AuthShown'
    BY <1>1, <1>3, <2>1, <2>2 DEF SameMemory, Settled, AdminPending, OptionsShown,
       AuthShown, AuthOf
  <2>. QED
    BY <2>3 DEF ShownAt
<1>7. ASSUME WriteCors(h)
      PROVE  ShownAt(h)'
  <2>1. db' = [db EXCEPT !.all     = Sent(job[h].all, @),
                         !.origins = Sent(job[h].origins, @)]
    BY <1>7 DEF WriteCors
  <2>2. SameStored
    BY <1>1, <2>1 DEF Settings, SameStored, StoredOptions, AuthOf
  <2>. QED
    BY <1>1, <1>3, <2>2, StaysSettled, SettledIsShown
<1>. QED
  BY <1>1, <1>3, <1>4, <1>5, <1>6, <1>7, StoreStep

\* The publishing steps.
LEMMA PublishShown ==
  ASSUME IInv, NEW h \in Handlers, ShownAt(h), OnCourse(h)',
         SetOptions(h) \/ SetAuth(h) \/ SetAdmin(h) \/ SetCors(h) \/ ClearErr(h)
  PROVE  [Live!LNext]_(Live!lvars) /\ ShownAt(h)'
<1>1. db' = db /\ voices' = voices /\ job' = job /\ Fits(pc[h], job[h], snap[h])
      /\ job[h] \in Jobs \cup {NoJob}
  BY DEF SetOptions, SetAuth, SetAdmin, SetCors, ClearErr, tables, IInv, HandlersOK
<1>2. SameStored
  BY <1>1 DEF SameStored, StoredOptions, AuthOf
<1>3. ASSUME SetOptions(h)
      PROVE  Settled'
  <2>1. /\ pc[h] = "set_options" /\ pc'[h] = "set_auth" /\ job[h].kind = "update"
        /\ auth' = auth /\ admin' = admin
    BY <1>1, <1>3, StepPlaces DEF SetOptions, Fits, Loading
  <2>2. OptionsShown'
    BY <1>1, <2>1 DEF OnCourse, Course, UpdateCourse, OptionsShown, StoredOptions
  <2>3. AuthShown /\ AdminShown
    BY <2>1 DEF ShownAt, AuthPending, AdminPending
  <2>. QED
    BY <1>1, <2>1, <2>2, <2>3 DEF Settled, AuthShown, AdminShown, OwnKey, AuthOf
<1>4. ASSUME SetAuth(h)
      PROVE  Settled'
  <2>1. /\ pc[h] = "set_auth" /\ options' = options /\ admin' = admin
        /\ job[h].kind \in {"update", "auth_key"}
        /\ job[h].kind = "update" => pc'[h] = "set_admin"
        /\ job[h].kind # "update" => pc'[h] = "ok"
    BY <1>1, <1>4, StepPlaces DEF SetAuth, Fits, Answer
  <2>2. AuthShown'
    <3>1. CASE job[h].kind = "update"
      BY <1>1, <2>1, <3>1 DEF OnCourse, Course, UpdateCourse, AuthShown
    <3>2. CASE job[h].kind = "auth_key"
      <4>1. auth' = db'.auth /\ auth' = job[h].key /\ job[h].key # None
        BY <1>1, <2>1, <3>2, AuthJob, ConfigAssumption DEF OnCourse, Course, AuthCourse
      <4>. QED
        BY <4>1 DEF AuthShown, AuthOf
    <3>. QED
      BY <2>1, <3>1, <3>2
  <2>3. OptionsShown /\ AdminShown
    BY <2>1 DEF ShownAt, OptionsPending, AdminPending
  <2>. QED
    BY <1>1, <2>1, <2>2, <2>3 DEF Settled, OptionsShown, StoredOptions, AdminShown, OwnKey
<1>5. ASSUME SetAdmin(h)
      PROVE  Settled'
  <2>1. /\ pc[h] = "set_admin" /\ options' = options /\ auth' = auth
        /\ job[h].kind \in {"update", "admin_key"}
        /\ job[h].kind = "update" => pc'[h] = "read_all"
        /\ job[h].kind # "update" => pc'[h] = "ok"
    BY <1>1, <1>5, StepPlaces DEF SetAdmin, Fits, Answer
  <2>2. admin' = AdminOf(db')
    BY <1>1, <2>1 DEF OnCourse, Course, UpdateCourse, AdminCourse
  <2>3. AdminShown'
    BY <2>2 DEF AdminShown, AdminOf, OwnKey
  <2>4. OptionsShown /\ AuthShown
    BY <2>1 DEF ShownAt, OptionsPending, AuthPending
  <2>. QED
    BY <1>1, <2>1, <2>3, <2>4 DEF Settled, OptionsShown, StoredOptions, AuthShown, AuthOf
<1>6. ASSUME SetCors(h) \/ ClearErr(h)
      PROVE  Settled'
  <2>1. SameMemory /\ pc[h] \in {"set_cors", "clear_err"}
    BY <1>6 DEF SetCors, ClearErr, SameMemory
  <2>. QED
    BY <1>2, <2>1, NothingPending, StaysSettled
<1>7. Settled'
  BY <1>3, <1>4, <1>5, <1>6
<1>. QED
  BY <1>2, <1>7, EffectiveStep, SettledIsShown

\* The steps that change a voice leave the default voice alone.
LEMMA DefaultRowKept ==
  ASSUME IInv, DefaultInv, NEW h \in Handlers, InsertVoice(h) \/ DeleteVoice(h)
  PROVE  voices'[db.def] = voices[db.def]
<1>. job[h] \in Jobs \cup {NoJob} /\ voices \in [Names -> Rows] /\ db.def \in Names
  BY DEF IInv, HandlersOK, DataOK, Settings
<1>1. CASE InsertVoice(h)
  <2>1. CASE voices[job[h].name] # 0
    BY <1>1, <2>1 DEF InsertVoice, tables
  <2>2. CASE voices[job[h].name] = 0
    <3>1. job[h].name # db.def
      BY <2>2 DEF DefaultInv, DefaultExists
    <3>2. voices' = [voices EXCEPT ![job[h].name] = CHOOSE r \in FreeRows : TRUE]
      BY <1>1, <2>2 DEF InsertVoice
    <3>. QED
      BY <3>1, <3>2
  <2>. QED
    BY <2>1, <2>2
<1>2. CASE DeleteVoice(h)
  <2>1. job[h].name # db.def
    BY <1>2 DEF DeleteVoice, DefaultInv, DefaultSpared
  <2>2. voices' = voices \/ voices' = [voices EXCEPT ![job[h].name] = 0]
    BY <1>2 DEF DeleteVoice
  <2>. QED
    BY <2>1, <2>2
<1>. QED
  BY <1>1, <1>2

\* Hence they change nothing that the options show.
LEMMA VoiceShown ==
  ASSUME IInv, DefaultInv, NEW h \in Handlers, ShownAt(h), InsertVoice(h) \/ DeleteVoice(h)
  PROVE  [Live!LNext]_(Live!lvars) /\ ShownAt(h)'
<1>1. pc[h] \in {"write", "delete"} /\ SameMemory /\ db' = db
  BY DEF InsertVoice, DeleteVoice, memory, SameMemory, tables
<1>2. voices'[db.def] = voices[db.def]
  BY DefaultRowKept
<1>3. SameStored
  BY <1>1, <1>2 DEF SameStored, StoredOptions, AuthOf
<1>4. Settled
  BY <1>1, NothingPending
<1>. QED
  BY <1>1, <1>3, <1>4, StutterStep, StaysSettled, SettledIsShown

\* A step of a handler, when all queries succeed.
LEMMA HandleShown ==
  ASSUME IInv, DefaultInv, ~IOErrors, NEW h \in Handlers, Handle(h), ShownAt(h), OnCourse(h)'
  PROVE  [Live!LNext]_(Live!lvars) /\ ShownAt(h)'
<1>1. ~Fail(h)
  BY DEF Fail
<1>. QED
  BY <1>1, ReadShown, WriteShown, PublishShown, VoiceShown DEF Handle

\* Every step is a step of LiveSettings or a stutter.
LEMMA LiveStep ==
  ASSUME Lone, ~IOErrors, IInv, DefaultInv, EffectInv, ShownInv, [Next]_vars
  PROVE  [Live!LNext]_(Live!lvars) /\ ShownInv'
<1>1. CASE UNCHANGED vars
  <2>1. SameMemory /\ SameStored
    BY <1>1 DEF vars, tables, memory, SameMemory, SameStored, StoredOptions, AuthOf
  <2>2. ShownInv'
    BY <1>1 DEF vars, tables, memory, handlers, ShownInv, Busy, OptionsShown, AuthShown,
       AdminShown, OptionsPending, AuthPending, AdminPending, StoredOptions, AuthOf, OwnKey
  <2>. QED
    BY <2>1, <2>2, StutterStep
<1>2. CASE Rest
  BY <1>1, <1>2 DEF Rest
<1>3. ASSUME NEW h \in Handlers, Admit(h)
      PROVE  [Live!LNext]_(Live!lvars) /\ ShownInv'
  <2>1. SameMemory /\ SameStored
    BY <1>3 DEF Admit, tables, memory, SameMemory, SameStored, StoredOptions, AuthOf
  <2>2. Settled
    <3>1. \A q \in Handlers : ~OptionsPending(q) /\ ~AuthPending(q) /\ ~AdminPending(q)
      BY <1>3, AdmitAlone DEF OptionsPending, AuthPending, AdminPending, Answers
    <3>. QED
      BY <3>1 DEF ShownInv, Settled
  <2>3. Settled'
    BY <2>1, <2>2, StaysSettled
  <2>4. ASSUME NEW q \in Handlers, Busy(q)' PROVE solo'[q]
    <3>1. q = h
      BY <1>3, <2>4, AdmitAlone DEF Busy
    <3>2. solo' = [r \in Handlers |-> r = h /\ \A p \in Handlers : pc[p] \in Answers]
      BY <1>3 DEF Admit
    <3>. QED
      BY <1>3, <3>1, <3>2, AdmitAlone
  <2>. QED
    BY <2>1, <2>3, <2>4, StutterStep DEF ShownInv, Settled
<1>4. ASSUME NEW h \in Handlers, Handle(h)
      PROVE  [Live!LNext]_(Live!lvars) /\ ShownInv'
  <2>1. /\ Busy(h) /\ solo' = solo /\ solo[h]
        /\ \A q \in Handlers \ {h} : pc[q] \in Answers /\ pc'[q] \in Answers
    BY <1>4, HandleApart, OneStaysOne DEF Apart, ShownInv, DefaultInv
  <2>2. ShownAt(h)
    BY <2>1 DEF ShownInv, ShownAt, OptionsPending, AuthPending, AdminPending, Answers
  <2>3. OnCourse(h)'
    BY <1>4, <2>1, HandleCourse DEF EffectInv, Undisturbed
  <2>4. [Live!LNext]_(Live!lvars) /\ ShownAt(h)'
    BY <1>4, <2>2, <2>3, HandleShown
  <2>5. \A q \in Handlers : Busy(q)' => solo'[q]
    BY <2>1 DEF Busy
  <2>. QED
    BY <2>4, <2>5 DEF ShownInv, ShownAt
<1>. QED
  BY <1>1, <1>2, <1>3, <1>4 DEF Next

\* A service that has just loaded its configuration shows it.
LEMMA LiveInit == Init => Live!LInit /\ ShownInv
<1>. SUFFICES ASSUME Init PROVE Live!LInit /\ ShownInv
  OBVIOUS
<1>1. Settled
  BY DEF Init, Settled, OptionsShown, AuthShown, AdminShown, StoredOptions, OwnKey, AdminOf
<1>2. \A h \in Handlers : ~Busy(h)
  BY DEF Init, Busy, Answers
<1>. QED
  BY <1>1, <1>2, SettledIsEqual DEF Live!LInit, ShownInv, Settled

(* With one administrator at a time, no failing query, and a default voice  *)
(* that exists from the start, the running configuration is never a mixture *)
(* of two: a change is stored, and the next thing to happen to options or   *)
(* keys is that the whole of it takes effect (the safety part of            *)
(* ChangesAreLive, as a refinement of LiveSettings).                        *)
THEOREM NeverHalfAChange ==
  ASSUME ~Concurrent, ~Dangling, ~IOErrors
  PROVE  Spec => Live!LInit /\ [][Live!LNext]_(Live!lvars)
<1>1. IInv /\ DefaultInv /\ EffectInv /\ ShownInv /\ [Next]_vars
        => [Live!LNext]_(Live!lvars) /\ ShownInv'
  BY LiveStep, SequentialIsLone
<1>. QED
  BY <1>1, LiveInit, Inductive, DefaultInductive, EffectInductive, PTL DEF Spec

=============================================================================
