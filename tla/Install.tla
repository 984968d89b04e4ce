------------------------------- MODULE Install -------------------------------
(***************************************************************************)
(* The installation life cycle: the start-up sequence of main.go and       *)
(* installer.Detect, the handler of POST /api/setup, and the two durable   *)
(* objects they agree through - the SQLite file and the lock file beside   *)
(* it.  The process may be killed between any two steps; what it had in    *)
(* memory is then gone, what it had put on disk stays.                     *)
(*                                                                         *)
(* A payload stands for one submitted configuration (its required settings *)
(* and the speaker of its default voice).  A variable holding a payload p  *)
(* therefore reads "the values that came with submission p".               *)
(*                                                                         *)
(* The database is in WAL mode: a commit is in the log beside the file     *)
(* first, and in the file itself once SQLite has copied it there.          *)
(*                                                                         *)
(* A definition introduced as a mutant is no part of the specification: it *)
(* is the definition that follows it with a plausible bug, for which the   *)
(* property that the README pairs it with must fail.                       *)
(***************************************************************************)
EXTENDS Naturals

CONSTANTS
  Requests,    \* submissions of the setup form, each sent at most once
  Payloads,    \* the configurations a client may submit
  BadVoice,    \* the payloads with a voice that the store rejects
  Keys,        \* authentication keys: a payload stands for the one it carries
  Trim,        \* what a payload's key is without the blanks around it
  None,        \* no value
  Concurrent,  \* may a client submit while another submission is running?
  Contention,  \* may opening a sound database fail (another process holds it)?
  IOErrors,    \* may system calls and queries on a sound database fail?
  MaxCrashes,  \* bound on kills of the process
  MaxDamage    \* bound on damages to the database file

ASSUME InstallAssumption ==
  /\ Payloads \subseteq Keys
  /\ None \notin Keys
  /\ Trim \in [Payloads -> Keys]
  /\ BadVoice \subseteq Payloads
  /\ {Concurrent, Contention, IOErrors} \subseteq BOOLEAN
  /\ MaxCrashes \in Nat
  /\ MaxDamage \in Nat

VARIABLES
  \* --- on disk
  dbFile,    \* condition of the database file
  settings,  \* payload whose settings the database holds, log included
  filed,     \* payload whose settings the file holds without its log
  speaker,   \* payload whose default voice the database holds
  lock,      \* does installed.lock exist?
  backups,   \* contents of the .corrupt-<ts> files
  stranded,  \* history: settings left behind in a log when its file was renamed
  \* --- in the process
  boot,      \* where the process is in its start-up and shutdown
  store,     \* the *store.Store handed to the controllers
  mode,      \* installer.CurrentMode
  options,   \* setting.ttsOptions
  auth,      \* setting.authAPIKeys; None: no key that came from the database
  admin,     \* setting.adminAPIKeys
  cfgErr,    \* setting.ttsConfigErr # nil
  \* --- the submissions
  pc,        \* next step of each submission
  body,      \* what it submits
  snap,      \* what its LoadRuntimeConfig has read
  \* --- budgets
  crashes, damages

disk     == <<dbFile, settings, filed, speaker, lock, backups, stranded>>
memory   == <<store, mode, options, auth, admin, cfgErr>>
handlers == <<pc, body, snap>>
budgets  == <<crashes, damages>>
vars     == <<disk, boot, memory, handlers, budgets>>

OrNone == Payloads \cup {None}

Options   == [settings: OrNone, speaker: OrNone]
NoOptions == [settings |-> None, speaker |-> None]

\* Steps at which a submission is being handled, and how one may end.
InFlight == {"apply", "set_auth", "read_settings", "read_voice", "set_options",
             "set_keys", "set_admin", "clear_err", "stat_lock", "rename_lock",
             "set_mode"}
Answers  == {"ok", "refused", "failed", "lost"}

Running == boot \in {"serving", "draining"}

-----------------------------------------------------------------------------
(* The process stops: exit, log.Fatal or kill.  Its memory is lost, and    *)
(* so are the submissions it was handling.                                 *)

Stop ==
  /\ boot'    = "down"
  /\ store'   = "nil"
  /\ mode'    = "setup"
  /\ options' = NoOptions
  /\ auth'    = None
  /\ admin'   = None
  /\ cfgErr'  = FALSE
  /\ pc'      = [r \in Requests |-> IF pc[r] \in InFlight THEN "lost" ELSE pc[r]]
  /\ snap'    = [r \in Requests |-> NoOptions]
  /\ UNCHANGED body

Crash ==
  /\ boot # "down"
  /\ crashes < MaxCrashes
  /\ crashes' = crashes + 1
  /\ Stop
  /\ UNCHANGED <<disk, damages>>

\* The file is damaged while the service is down: the database can be opened
\* but fails the integrity check, or cannot be opened at all.
Damage ==
  /\ boot = "down"
  /\ dbFile = "healthy"
  /\ damages < MaxDamage
  /\ damages' = damages + 1
  /\ dbFile' \in {"damaged", "unreadable"}
  /\ UNCHANGED <<settings, filed, speaker, lock, backups, stranded, boot, memory, handlers,
                 crashes>>

-----------------------------------------------------------------------------
(* Start-up.                                                               *)

\* A log.Fatal during start-up.
Fatal == Stop /\ UNCHANGED <<disk, budgets>>

\* Store.Close, alone or at the end of a store.Open that has failed: SQLite
\* copies the log into the file, whatever that contains, unless it cannot get
\* at the file or another process has it open.
CloseDb ==
  \/ filed' = settings
  \/ (dbFile = "unreadable" \/ Contention \/ IOErrors) /\ UNCHANGED filed

\* SQLite does so in passing too, when a commit has made the log long enough.
Checkpoint ==
  /\ store = "open"
  /\ filed # settings
  /\ filed' = settings
  /\ UNCHANGED <<dbFile, settings, speaker, lock, backups, stranded, boot, memory, handlers,
                 budgets>>

StartProcess ==
  /\ boot = "down"
  /\ boot' = "open"
  /\ UNCHANGED <<disk, memory, handlers, budgets>>

\* store.Open creates the file and its tables when there is none.
OpenDb ==
  /\ boot = "open"
  /\ dbFile # "unreadable"
  /\ boot'   = "stat_lock"
  /\ store'  = "open"
  /\ dbFile' = IF dbFile = "absent" THEN "healthy" ELSE dbFile
  /\ UNCHANGED <<settings, filed, speaker, lock, backups, stranded, mode, options, auth, admin,
                 cfgErr, handlers, budgets>>

\* store.Open fails, whatever the reason.
OpenDbFails ==
  /\ boot = "open"
  /\ dbFile = "unreadable" \/ Contention
  /\ CloseDb
  /\ boot' = "backup"
  /\ UNCHANGED <<dbFile, settings, speaker, lock, backups, stranded, memory, handlers, budgets>>

\* Mutant: the repair deletes the file instead of renaming it.
BackupDbDeletes ==
  /\ dbFile # "absent"
  /\ dbFile'   = "absent"
  /\ settings' = None
  /\ filed'    = None
  /\ speaker'  = None
  /\ UNCHANGED <<backups, stranded>>

\* The rename moves the file and nothing beside it.  A log that stays behind is
\* lost: SQLite deletes it when it next opens a file and finds that one empty.
BackupDb ==
  /\ dbFile # "absent"
  /\ backups'  = backups \cup {filed}
  /\ stranded' = stranded \cup ({settings} \ {filed})
  /\ dbFile'   = "absent"
  /\ settings' = None
  /\ filed'    = None
  /\ speaker'  = None

\* tryBackupCorrupt, on either of the two paths: start-up goes on without a
\* store, or gives up when there is nothing to rename or the rename fails.
Repair ==
  /\ boot \in {"backup", "backup_quietly"}
  /\ BackupDb
  /\ boot' = IF boot = "backup" THEN "stat_lock" ELSE "drop_lock_quietly"
  /\ UNCHANGED <<lock, memory, handlers, budgets>>

RepairFails ==
  /\ boot \in {"backup", "backup_quietly"}
  /\ dbFile = "absent" \/ IOErrors
  /\ Fatal

\* LockExists decides between the two modes.
StatLock ==
  /\ boot = "stat_lock"
  /\ boot' = IF ~lock THEN "load"
             ELSE IF store = "nil" THEN "drop_lock" ELSE "integrity"
  /\ UNCHANGED <<disk, memory, handlers, budgets>>

\* The store is closed before start-up gives up.
StatLockFails ==
  /\ boot = "stat_lock"
  /\ IOErrors
  /\ CloseDb
  /\ Stop
  /\ UNCHANGED <<dbFile, settings, speaker, lock, backups, stranded, budgets>>

\* Mutant: the mode is left as it is after the check.
IntegrityOkForgetsMode ==
  /\ boot = "integrity"
  /\ dbFile = "healthy"
  /\ boot' = "load"
  /\ UNCHANGED <<disk, store, mode, options, auth, admin, cfgErr, handlers, budgets>>

\* PRAGMA integrity_check says "ok".
IntegrityOk ==
  /\ boot = "integrity"
  /\ dbFile = "healthy"
  /\ mode' = "normal"
  /\ boot' = "load"
  /\ UNCHANGED <<disk, store, options, auth, admin, cfgErr, handlers, budgets>>

\* integrity_check reports damage, or fails itself: the store is closed.
IntegrityBad ==
  /\ boot = "integrity"
  /\ dbFile = "damaged" \/ IOErrors
  /\ CloseDb
  /\ store' = "nil"
  /\ boot'  = "backup_quietly"
  /\ UNCHANGED <<dbFile, settings, speaker, lock, backups, stranded, mode, options, auth, admin,
                 cfgErr, handlers, budgets>>

\* Mutant: the repair leaves the lock where it is.
DropLockForgotten ==
  /\ boot \in {"drop_lock", "drop_lock_quietly"}
  /\ boot' = "load"
  /\ UNCHANGED <<disk, memory, handlers, budgets>>

\* DeleteLock after a backup, on either of the two paths.
DropLock ==
  /\ boot \in {"drop_lock", "drop_lock_quietly"}
  /\ lock' = FALSE
  /\ boot' = "load"
  /\ UNCHANGED <<dbFile, settings, filed, speaker, backups, stranded, memory, handlers,
                 budgets>>

\* DeleteLock fails: fatal when it was store.Open that had failed, ignored when
\* it was the integrity check.
DropLockFails ==
  /\ IOErrors
  /\ \/ boot = "drop_lock" /\ Fatal
     \/ /\ boot = "drop_lock_quietly"
        /\ boot' = "load"
        /\ UNCHANGED <<disk, memory, handlers, budgets>>

\* A query may fail on a damaged file, or with any I/O error, and does fail
\* once the store has been closed.
QueryOk   == store = "open"
QueryFail == store = "closed" \/ dbFile = "damaged" \/ IOErrors

\* What GetVoiceForTTS finds: when it fails the voice keeps its bare name, and
\* the loader does not notice.
FoundSpeaker == (IF QueryOk THEN {speaker} ELSE {}) \cup (IF QueryFail THEN {None} ELSE {})

\* main.go: LoadRuntimeConfig during start-up, whole, for no request is served
\* before it returns.  A failure is fatal in normal mode only.
BootLoad ==
  /\ boot = "load"
  /\ store = "open"
  /\ settings # None
  /\ boot'    = "serving"
  /\ \E found \in FoundSpeaker :
       options' = [settings |-> settings, speaker |-> found]
  /\ auth'    = settings
  /\ admin'   = settings
  /\ cfgErr'  = FALSE
  /\ UNCHANGED <<disk, store, mode, handlers, budgets>>

BootLoadFails ==
  /\ boot = "load"
  /\ store = "open"
  /\ settings = None \/ QueryFail
  /\ \/ mode = "normal" /\ Fatal
     \/ /\ mode = "setup"
        /\ boot'   = "serving"
        /\ cfgErr' = TRUE
        /\ UNCHANGED <<disk, store, mode, options, auth, admin, handlers, budgets>>

\* After a self-heal there is no store to load from.
BootNoStore ==
  /\ boot = "load"
  /\ store = "nil"
  /\ boot' = "serving"
  /\ UNCHANGED <<disk, memory, handlers, budgets>>

\* Mutant: the store is left open.
ShutdownLeavesOpen ==
  /\ boot = "serving"
  /\ boot' = "draining"
  /\ UNCHANGED <<disk, memory, handlers, budgets>>

\* SIGTERM: main closes the store first and only then drains the server.
Shutdown ==
  /\ boot = "serving"
  /\ boot'  = "draining"
  /\ store' = IF store = "open" THEN "closed" ELSE store
  /\ IF store = "open" THEN CloseDb ELSE UNCHANGED filed
  /\ UNCHANGED <<dbFile, settings, speaker, lock, backups, stranded, mode, options, auth, admin,
                 cfgErr, handlers, budgets>>

\* The server has drained, or its five seconds are over.
Exit == boot = "draining" /\ Stop /\ UNCHANGED <<disk, budgets>>

-----------------------------------------------------------------------------
(* POST /api/setup.                                                        *)

\* Where submission r goes next, or how it ends.
GoTo(r, step) == pc' = [pc EXCEPT ![r] = step]

\* Mutant: the mode is not checked.
SubmitInAnyMode(r) ==
  /\ Running
  /\ pc[r] = "idle"
  /\ Concurrent \/ \A q \in Requests : pc[q] \notin InFlight
  /\ store # "nil"
  /\ \E p \in Payloads : body' = [body EXCEPT ![r] = p]
  /\ GoTo(r, "apply")
  /\ UNCHANGED <<disk, boot, memory, snap, budgets>>

\* The checks on mode, token, fields and store: a request that passes them all
\* goes on to write, the others are refused and change nothing.
Submit(r) ==
  /\ Running
  /\ pc[r] = "idle"
  /\ Concurrent \/ \A q \in Requests : pc[q] \notin InFlight
  /\ \/ /\ mode = "setup"
        /\ store # "nil"
        /\ \E p \in Payloads : body' = [body EXCEPT ![r] = p]
        /\ GoTo(r, "apply")
     \/ /\ GoTo(r, "refused")  \* wrong mode, bad token or body, or no store
        /\ UNCHANGED body
  /\ UNCHANGED <<disk, boot, memory, snap, budgets>>

\* store.SetupApply: one transaction.  Settings are overwritten; a voice whose
\* name is already there is skipped, and keeps the speaker it had.
Apply(r) ==
  /\ pc[r] = "apply"
  /\ QueryOk
  /\ body[r] \notin BadVoice
  /\ settings' = body[r]
  /\ speaker'  = IF speaker = None THEN body[r] ELSE speaker
  /\ GoTo(r, "set_auth")
  /\ UNCHANGED <<dbFile, filed, lock, backups, stranded, boot, memory, body, snap, budgets>>

\* Mutant: the return after the error is missing.
ApplyFailsGoesOn(r) ==
  /\ pc[r] = "apply"
  /\ body[r] \in BadVoice \/ QueryFail
  /\ GoTo(r, "set_auth")
  /\ UNCHANGED <<disk, boot, memory, body, snap, budgets>>

\* The transaction is rolled back.
ApplyFails(r) ==
  /\ pc[r] = "apply"
  /\ body[r] \in BadVoice \/ QueryFail
  /\ GoTo(r, "failed")
  /\ UNCHANGED <<disk, boot, memory, body, snap, budgets>>

\* Mutant: the key is left to the load that follows.
SetAuthSkipped(r) ==
  /\ pc[r] = "set_auth"
  /\ GoTo(r, "read_settings")
  /\ UNCHANGED <<disk, boot, memory, body, snap, budgets>>

\* The handler publishes the key without the blanks around it; the table has it
\* with them, and so has memory after a load.
SetAuth(r) ==
  /\ pc[r] = "set_auth"
  /\ auth' = Trim[body[r]]
  /\ GoTo(r, "read_settings")
  /\ UNCHANGED <<disk, boot, store, mode, options, admin, cfgErr, body, snap, budgets>>

\* LoadRuntimeConfig, first query: SettingsGetAll.
ReadSettings(r) ==
  /\ pc[r] = "read_settings"
  /\ QueryOk
  /\ settings # None
  /\ snap' = [snap EXCEPT ![r].settings = settings]
  /\ GoTo(r, "read_voice")
  /\ UNCHANGED <<disk, boot, memory, body, budgets>>

\* Mutant: the error is logged but not recorded.
ReadSettingsFailsUnnoticed(r) ==
  /\ pc[r] = "read_settings"
  /\ settings = None \/ QueryFail
  /\ GoTo(r, "stat_lock")
  /\ UNCHANGED <<disk, boot, memory, body, snap, budgets>>

\* It fails or finds nothing: the error is recorded, and logged by the handler,
\* which goes on to write the lock.
ReadSettingsFails(r) ==
  /\ pc[r] = "read_settings"
  /\ settings = None \/ QueryFail
  /\ cfgErr' = TRUE
  /\ GoTo(r, "stat_lock")
  /\ UNCHANGED <<disk, boot, store, mode, options, auth, admin, body, snap, budgets>>

\* Mutant: the row read last is kept in place of its speaker.
ReadVoiceKeepsRow(r) ==
  /\ pc[r] = "read_voice"
  /\ snap' = [snap EXCEPT ![r].speaker = snap[r]]
  /\ GoTo(r, "set_options")
  /\ UNCHANGED <<disk, boot, memory, body, budgets>>

\* Second query: GetVoiceForTTS.
ReadVoice(r) ==
  /\ pc[r] = "read_voice"
  /\ \E found \in FoundSpeaker :
       snap' = [snap EXCEPT ![r].speaker = found]
  /\ GoTo(r, "set_options")
  /\ UNCHANGED <<disk, boot, memory, body, budgets>>

\* What was read is published field by field, each under ttsMu on its own.
SetOptions(r) ==
  /\ pc[r] = "set_options"
  /\ options' = snap[r]
  /\ GoTo(r, "set_keys")
  /\ UNCHANGED <<disk, boot, store, mode, auth, admin, cfgErr, body, snap, budgets>>

SetKeys(r) ==
  /\ pc[r] = "set_keys"
  /\ auth' = snap[r].settings
  /\ GoTo(r, "set_admin")
  /\ UNCHANGED <<disk, boot, store, mode, options, admin, cfgErr, body, snap, budgets>>

\* Mutant: the load does not refresh the admin credentials.
SetAdminSkipped(r) ==
  /\ pc[r] = "set_admin"
  /\ GoTo(r, "clear_err")
  /\ UNCHANGED <<disk, boot, memory, body, snap, budgets>>

SetAdmin(r) ==
  /\ pc[r] = "set_admin"
  /\ admin' = snap[r].settings
  /\ GoTo(r, "clear_err")
  /\ UNCHANGED <<disk, boot, store, mode, options, auth, cfgErr, body, snap, budgets>>

ClearErr(r) ==
  /\ pc[r] = "clear_err"
  /\ cfgErr' = FALSE
  /\ GoTo(r, "stat_lock")
  /\ UNCHANGED <<disk, boot, store, mode, options, auth, admin, body, snap, budgets>>

\* installer.CreateLock checks first ...
CheckLock(r) ==
  /\ pc[r] = "stat_lock"
  /\ GoTo(r, IF lock THEN "failed" ELSE "rename_lock")
  /\ UNCHANGED <<disk, boot, memory, body, snap, budgets>>

\* ... and renames its temporary file into place later, over any lock that
\* appeared meanwhile.
RenameLock(r) ==
  /\ pc[r] = "rename_lock"
  /\ lock' = TRUE
  /\ GoTo(r, "set_mode")
  /\ UNCHANGED <<dbFile, settings, filed, speaker, backups, stranded, boot, memory, body, snap,
                 budgets>>

\* Mutant: the mode is switched although there is no lock.
CreateLockFailsGoesOn(r) ==
  /\ pc[r] \in {"stat_lock", "rename_lock"}
  /\ IOErrors
  /\ GoTo(r, "set_mode")
  /\ UNCHANGED <<disk, boot, memory, body, snap, budgets>>

CreateLockFails(r) ==
  /\ pc[r] \in {"stat_lock", "rename_lock"}
  /\ IOErrors
  /\ GoTo(r, "failed")
  /\ UNCHANGED <<disk, boot, memory, body, snap, budgets>>

EnterNormal(r) ==
  /\ pc[r] = "set_mode"
  /\ mode' = "normal"
  /\ GoTo(r, "ok")
  /\ UNCHANGED <<disk, boot, store, options, auth, admin, cfgErr, body, snap, budgets>>

-----------------------------------------------------------------------------
Init ==
  /\ dbFile   = "absent"
  /\ settings = None
  /\ filed    = None
  /\ speaker  = None
  /\ lock     = FALSE
  /\ backups  = {}
  /\ stranded = {}
  /\ boot     = "down"
  /\ store    = "nil"
  /\ mode     = "setup"
  /\ options  = NoOptions
  /\ auth     = None
  /\ admin    = None
  /\ cfgErr   = FALSE
  /\ pc       = [r \in Requests |-> "idle"]
  /\ body     = [r \in Requests |-> None]
  /\ snap     = [r \in Requests |-> NoOptions]
  /\ crashes  = 0
  /\ damages  = 0

\* Start-up, by its single goroutine.
BootStep ==
  \/ StartProcess \/ OpenDb \/ OpenDbFails \/ Repair \/ RepairFails
  \/ StatLock \/ StatLockFails
  \/ IntegrityOk \/ IntegrityBad \/ DropLock \/ DropLockFails
  \/ BootLoad \/ BootLoadFails \/ BootNoStore

\* One submission after it has passed the checks, by the goroutine serving it.
Handle(r) ==
  \/ Apply(r) \/ ApplyFails(r) \/ SetAuth(r)
  \/ ReadSettings(r) \/ ReadSettingsFails(r) \/ ReadVoice(r)
  \/ SetOptions(r) \/ SetKeys(r) \/ SetAdmin(r) \/ ClearErr(r)
  \/ CheckLock(r) \/ RenameLock(r) \/ CreateLockFails(r) \/ EnterNormal(r)

Next ==
  \/ BootStep
  \/ Checkpoint
  \/ Shutdown
  \/ Exit
  \/ Crash
  \/ Damage
  \/ \E r \in Requests : Submit(r) \/ Handle(r)

Spec == Init /\ [][Next]_vars

(* Fairness.  docker-compose.yml restarts the container whenever it stops,  *)
(* the Go runtime schedules every goroutine, and an operator does what the  *)
(* 503 of a store-less setup asks for: restart the service.                 *)
RestartAfterHeal == store = "nil" /\ Shutdown

Fairness ==
  /\ WF_vars(BootStep)
  /\ WF_vars(Exit)
  /\ WF_vars(RestartAfterHeal)
  /\ \A r \in Requests : WF_vars(Handle(r))

FairSpec == Spec /\ Fairness

-----------------------------------------------------------------------------
(* Properties.                                                             *)

TypeOK ==
  /\ dbFile \in {"absent", "healthy", "damaged", "unreadable"}
  /\ settings \in OrNone
  /\ filed \in OrNone
  /\ speaker \in OrNone
  /\ lock \in BOOLEAN
  /\ backups \subseteq OrNone
  /\ stranded \subseteq OrNone
  /\ boot \in {"down", "open", "backup", "stat_lock", "integrity", "backup_quietly",
               "drop_lock", "drop_lock_quietly", "load", "serving", "draining"}
  /\ store \in {"nil", "open", "closed"}
  /\ mode \in {"setup", "normal"}
  /\ options \in Options
  /\ auth \in Keys \cup {None}
  /\ admin \in OrNone
  /\ cfgErr \in BOOLEAN
  /\ pc \in [Requests -> {"idle"} \cup InFlight \cup Answers]
  /\ body \in [Requests -> OrNone]
  /\ snap \in [Requests -> Options]
  /\ crashes \in 0 .. MaxCrashes
  /\ damages \in 0 .. MaxDamage

\* The database is written before the lock (installer/lock.go, header): a lock
\* stands beside a committed configuration, except after a repair has moved
\* that configuration into a backup and before it has removed the lock.
CommittedBeforeLock == lock => settings # None \/ backups # {}

\* Whenever requests are served in normal mode the installation is complete:
\* there is a lock, a committed configuration, and a store for the controllers.
NormalIsInstalled ==
  Running /\ mode = "normal" => lock /\ settings # None /\ store # "nil"

\* ValidateAPIKey lets everybody in while there is no key: in normal mode there
\* always is one, even when the load that should have set it has failed.
AuthNeverOpen == Running /\ mode = "normal" => auth # None

\* main.go refuses to come up in normal mode without admin credentials, lest
\* every admin page answers 401; with a sound database a service in normal
\* mode has its credentials and its configuration, whichever way it got there.
AdminReachable ==
  boot = "serving" /\ mode = "normal" /\ dbFile = "healthy" =>
    /\ admin # None
    /\ options.settings # None
    /\ ~cfgErr

\* A service in normal mode, come to it by a set-up or by a start, lets in by the
\* key that is stored and serves the stored options under the stored admin key.
\* Or else the load of the set-up has failed, which goes on to normal mode after
\* that (controller/setup.go): then it has recorded the failure, and lets in by
\* the stored key without the blanks around it.
ServesStored ==
  Running /\ mode = "normal" =>
    IF cfgErr
    THEN auth = Trim[settings]
    ELSE /\ auth = settings
         /\ options.settings = settings
         /\ options.speaker \in {speaker, None}
         /\ admin = settings

\* What a submission was told is installed is in the database, or in the backup
\* of a database that has been repaired since, or was in the log of that one only
\* when it was renamed (installer/bootstrap.go, tryBackupCorrupt).
AckedIsStored ==
  \A r \in Requests : pc[r] = "ok" => body[r] \in {settings} \cup backups \cup stranded

\* Nothing is lost with a log as long as the process is not killed: whichever way
\* it ends by itself, it has closed the store after its last commit (main.go).
NothingStranded == crashes = 0 => stranded = {}

\* Once there is a lock the setup endpoint writes nothing any more
\* (controller/setup.go: "closed for good from this moment").
SetupClosed == [][lock /\ Running => settings' = settings]_vars

\* A database that another process holds is left where it is
\* (installer/bootstrap.go, ErrInUse).
BackupOnlyDamaged ==
  [][dbFile = "healthy" => dbFile' # "absent"]_vars

\* An installed service that is started on a damaged database gets back to a
\* setup page that can be submitted (PROJECT_BOOK.md, 6.3).
Damaged == boot = "open" /\ lock /\ dbFile \in {"damaged", "unreadable"}
Healed  == boot = "serving" /\ mode = "setup" /\ store = "open"

Heals == Damaged ~> Healed

\* ... and does so at least when it is not killed half way through the repair.
HealsUnlessKilled ==
  \A n \in 0 .. MaxCrashes : (Damaged /\ crashes = n) ~> (Healed \/ crashes > n)

\* An installed service with a sound database always gets back to normal mode,
\* unless the file is damaged while it is down.
RestartsIntoNormal ==
  (lock /\ settings # None /\ dbFile = "healthy")
    ~> ((boot = "serving" /\ mode = "normal") \/ dbFile # "healthy")

\* The installer keeps its contract.
Contract == INSTANCE InstallContract WITH
  closed  <- lock,
  conf    <- settings,
  file    <- filed,
  archive <- backups

KeepsContract == Contract!CSpec

=============================================================================
