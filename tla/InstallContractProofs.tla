------------------------ MODULE InstallContractProofs ------------------------
(***************************************************************************)
(* When submissions come one after the other (~Concurrent) the installer   *)
(* implements InstallContract, whatever fails and however often the        *)
(* process is killed.  The run finding_setup_reopened shows that the       *)
(* hypothesis cannot be dropped.                                           *)
(***************************************************************************)
EXTENDS InstallProofs

\* One submission at a time.
OneAtATime ==
  \A q, r \in Requests : pc[q] \in InFlight /\ pc[r] \in InFlight => q = r

\* A process that runs beside a lock is in normal mode, or about to enter it,
\* or has no store to set up; a submission it still handles has done its
\* writing.
LockedSetup ==
  /\ boot = "load" /\ mode = "setup" /\ store # "nil" => ~lock
  /\ Running /\ lock =>
       /\ \A r \in Requests : pc[r] \in InFlight => pc[r] = "set_mode"
       /\ mode = "setup" /\ store # "nil" => \E r \in Requests : pc[r] = "set_mode"

\* A lock is about to be removed only after the database has been backed up.
RepairBackedUp ==
  /\ boot \in {"down", "open", "backup", "backup_quietly"} => store = "nil"
  /\ boot = "stat_lock" /\ store = "nil" => settings = None /\ backups # {}
  /\ boot \in {"drop_lock", "drop_lock_quietly"} =>
       store = "nil" /\ settings = None /\ backups # {}

SeqInv == OneAtATime /\ LockedSetup /\ RepairBackedUp

-----------------------------------------------------------------------------
\* Between two lives of the process nothing is being handled.
LEMMA StopSeq ==
  ASSUME Stop
  PROVE  SeqInv'
<1>1. \A r \in Requests : pc'[r] \notin InFlight
  BY DEF Stop, InFlight
<1>. QED
  BY <1>1 DEF SeqInv, OneAtATime, LockedSetup, RepairBackedUp, Stop, Running

\* Start-up keeps the invariant of the one-at-a-time installer.
LEMMA BootSeq ==
  ASSUME IInv, SeqInv, BootStep
  PROVE  SeqInv'
<1>. USE DEF disk, memory, handlers, budgets
<1>0. ~Running
  BY DEF BootStep, StartProcess, OpenDb, OpenDbFails, Repair, RepairFails, StatLock,
         StatLockFails, IntegrityOk,
         IntegrityBad, DropLock, DropLockFails, BootLoad, BootLoadFails, BootNoStore, Running
<1>1. \A r \in Requests : pc[r] \notin InFlight
  BY <1>0 DEF IInv, HandledWhileRunning
<1>2. ASSUME UNCHANGED pc PROVE OneAtATime' /\ \A r \in Requests : pc'[r] \notin InFlight
  BY <1>1, <1>2 DEF OneAtATime, InFlight
<1>3. ASSUME Fatal PROVE SeqInv'
  BY <1>3, StopSeq DEF Fatal
<1>. USE DEF SeqInv, LockedSetup, RepairBackedUp, Running
<1>4. CASE StartProcess
  BY <1>2, <1>4 DEF StartProcess
<1>5. CASE OpenDb
  BY <1>2, <1>5 DEF OpenDb
<1>6. CASE OpenDbFails
  BY <1>2, <1>6 DEF OpenDbFails
<1>13. CASE Repair
  BY <1>2, <1>13 DEF Repair, BackupDb
<1>14. CASE RepairFails
  BY <1>3, <1>14 DEF RepairFails
<1>7. CASE StatLock
  BY <1>2, <1>7 DEF StatLock
<1>8. CASE StatLockFails \/ IntegrityOk
  BY <1>2, <1>8, StopSeq DEF StatLockFails, IntegrityOk
<1>9. CASE IntegrityBad
  BY <1>2, <1>9 DEF IntegrityBad
<1>10. CASE DropLock
  BY <1>2, <1>10 DEF DropLock
<1>11. CASE DropLockFails
  <2>1. CASE boot = "drop_lock_quietly" /\ boot' = "load" /\ UNCHANGED <<disk, memory, handlers>>
    BY <1>2, <2>1
  <2>. QED
    BY <1>3, <1>11, <2>1 DEF DropLockFails
<1>12. CASE BootLoad \/ BootLoadFails \/ BootNoStore
  BY <1>2, <1>3, <1>12 DEF BootLoad, BootLoadFails, BootNoStore, IInv, NormalMode
<1>. QED
  BY <1>4, <1>5, <1>6, <1>7, <1>8, <1>9, <1>10, <1>11, <1>12, <1>13, <1>14 DEF BootStep

\* So do shutdown, kills and damage.
LEMMA StopOrDamageSeq ==
  ASSUME IInv, SeqInv, Checkpoint \/ Shutdown \/ Exit \/ Crash \/ Damage
  PROVE  SeqInv'
<1>1. CASE Shutdown
  BY <1>1 DEF Shutdown, disk, handlers, SeqInv, OneAtATime, LockedSetup, RepairBackedUp, Running
<1>2. CASE Exit \/ Crash
  BY <1>2, StopSeq DEF Exit, Crash
<1>3. CASE Damage
  BY <1>3 DEF Damage, memory, handlers, SeqInv, OneAtATime, LockedSetup, RepairBackedUp, Running
<1>4. CASE Checkpoint
  BY <1>4 DEF Checkpoint, memory, handlers, SeqInv, OneAtATime, LockedSetup, RepairBackedUp,
              Running
<1>. QED
  BY <1>1, <1>2, <1>3, <1>4

\* A submission is admitted only when no other is in flight; while there is a
\* lock and setup mode, one is.
LEMMA SubmitSeq ==
  ASSUME ~Concurrent, IInv, SeqInv, NEW r \in Requests, Submit(r)
  PROVE  SeqInv'
<1>. USE DEF disk, memory, budgets
<1>1. /\ Running
      /\ \A q \in Requests : pc[q] \notin InFlight
      /\ boot' = boot /\ store' = store /\ mode' = mode /\ lock' = lock
      /\ settings' = settings /\ backups' = backups
  BY DEF Submit
<1>2. RepairBackedUp'
  BY <1>1 DEF RepairBackedUp, Running
<1>3. CASE mode = "setup" /\ store # "nil" /\ GoTo(r, "apply")
  <2>1. ~lock
    BY <1>1, <1>3 DEF SeqInv, LockedSetup, InFlight
  <2>2. \A q \in Requests : pc'[q] = IF q = r THEN "apply" ELSE pc[q]
    BY <1>3 DEF GoTo, IInv, TypeOK
  <2>3. OneAtATime'
    BY <1>1, <2>2 DEF OneAtATime, InFlight
  <2>. QED
    BY <1>1, <1>2, <2>1, <2>3 DEF SeqInv, LockedSetup
<1>4. CASE GoTo(r, "refused")
  <2>1. \A q \in Requests : pc'[q] = IF q = r THEN "refused" ELSE pc[q]
    BY <1>4 DEF GoTo, IInv, TypeOK
  <2>2. \A q \in Requests : pc'[q] \notin InFlight
    BY <1>1, <2>1 DEF InFlight
  <2>3. ~(lock /\ mode = "setup" /\ store # "nil")
    BY <1>1 DEF SeqInv, LockedSetup, InFlight
  <2>. QED
    BY <1>1, <1>2, <2>2, <2>3 DEF SeqInv, OneAtATime, LockedSetup, InFlight, Running
<1>. QED
  BY <1>3, <1>4 DEF Submit

\* The submission in flight takes a step.
LEMMA HandleSeq ==
  ASSUME ~Concurrent, IInv, SeqInv, NEW r \in Requests, Handle(r)
  PROVE  SeqInv'
<1>. USE DEF disk, memory, budgets
<1>1. pc[r] \in InFlight
  BY DEF Handle, Apply, ApplyFails, SetAuth, ReadSettings, ReadSettingsFails, ReadVoice,
         SetOptions, SetKeys, SetAdmin, ClearErr, CheckLock, RenameLock, CreateLockFails,
         EnterNormal, InFlight
<1>2. Running /\ \A q \in Requests \ {r} : pc[q] \notin InFlight
  BY <1>1 DEF IInv, HandledWhileRunning, SeqInv, OneAtATime
<1>3. boot' = boot /\ store' = store /\ \E step : GoTo(r, step)
  BY DEF Handle, Apply, ApplyFails, SetAuth, ReadSettings, ReadSettingsFails, ReadVoice,
         SetOptions, SetKeys, SetAdmin, ClearErr, CheckLock, RenameLock, CreateLockFails,
         EnterNormal
<1>4. /\ pc' \in [Requests -> {pc'[q] : q \in Requests}]
      /\ \A q \in Requests \ {r} : pc'[q] = pc[q]
  BY <1>3 DEF GoTo, IInv, TypeOK
<1>5. OneAtATime'
  BY <1>2, <1>4 DEF OneAtATime, InFlight
<1>6. RepairBackedUp'
  BY <1>2, <1>3 DEF RepairBackedUp, Running
<1>7. LockedSetup'
  <2>1. boot # "load"
    BY <1>2 DEF Running
  <2>2. CASE RenameLock(r)
    <3>1. pc'[r] = "set_mode"
      BY <2>2 DEF RenameLock, GoTo, IInv, TypeOK
    <3>. QED
      BY <1>2, <1>3, <1>4, <2>1, <3>1 DEF LockedSetup, InFlight
  <2>3. CASE EnterNormal(r)
    <3>1. pc'[r] = "ok" /\ mode' = "normal"
      BY <2>3 DEF EnterNormal, GoTo, IInv, TypeOK
    <3>. QED
      BY <1>2, <1>3, <1>4, <2>1, <3>1 DEF LockedSetup, InFlight
  <2>4. CASE lock' = lock /\ mode' = mode /\ pc[r] # "set_mode"
    <3>1. ~lock
      BY <1>1, <1>2, <2>4 DEF SeqInv, LockedSetup
    <3>. QED
      BY <1>3, <2>1, <2>4, <3>1 DEF LockedSetup
  <2>. QED
    BY <2>2, <2>3, <2>4
       DEF Handle, Apply, ApplyFails, SetAuth, ReadSettings, ReadSettingsFails, ReadVoice,
           SetOptions, SetKeys, SetAdmin, ClearErr, CheckLock, CreateLockFails
<1>. QED
  BY <1>5, <1>6, <1>7 DEF SeqInv

\* Every step keeps it when submissions do not overlap.
LEMMA SeqStep == ~Concurrent /\ IInv /\ SeqInv /\ [Next]_vars => SeqInv'
<1>1. CASE UNCHANGED vars
  BY <1>1 DEF vars, disk, memory, handlers, budgets, SeqInv, OneAtATime, LockedSetup,
              RepairBackedUp, Running
<1>2. ASSUME ~Concurrent, IInv, SeqInv, Next PROVE SeqInv'
  <2>1. CASE BootStep
    BY <1>2, <2>1, BootSeq
  <2>2. CASE Checkpoint \/ Shutdown \/ Exit \/ Crash \/ Damage
    BY <1>2, <2>2, StopOrDamageSeq
  <2>3. ASSUME NEW r \in Requests, Submit(r) \/ Handle(r) PROVE SeqInv'
    BY <1>2, <2>3, SubmitSeq, HandleSeq
  <2>. QED
    BY <1>2, <2>1, <2>2, <2>3 DEF Next
<1>. QED
  BY <1>1, <1>2

\* It holds at first.
LEMMA InitSeq == Init => SeqInv
  BY DEF Init, SeqInv, OneAtATime, LockedSetup, RepairBackedUp, Running, InFlight

\* Hence it always holds, together with IInv.
LEMMA SeqInductive == ASSUME ~Concurrent PROVE Spec => [](IInv /\ SeqInv)
<1>1. IInv /\ SeqInv /\ [Next]_vars => (IInv /\ SeqInv)'
  BY InvStep, SeqStep
<1>. QED
  BY <1>1, InitInv, InitSeq, PTL DEF Spec

-----------------------------------------------------------------------------
(* The refinement: settings, lock and backups follow the contract.          *)

\* A step of start-up is a step of the contract or leaves it alone.
LEMMA BootRefines ==
  ASSUME IInv, SeqInv, BootStep
  PROVE  [Contract!CNext]_<<lock, settings, filed, backups>>
<1>. USE DEF Contract!CNext, Contract!Archive, Contract!Reopen, Contract!Settle, CloseDb, disk,
             memory, budgets
<1>1. ASSUME UNCHANGED <<lock, settings, filed, backups>>
      PROVE  [Contract!CNext]_<<lock, settings, filed, backups>>
  BY <1>1
<1>2. ASSUME Fatal PROVE UNCHANGED <<lock, settings, filed, backups>>
  BY <1>2 DEF Fatal
<1>3. ASSUME BackupDb, UNCHANGED lock PROVE Contract!Archive
  BY <1>3 DEF BackupDb
<1>4. CASE OpenDbFails \/ IntegrityBad \/ StatLockFails
  BY <1>4 DEF OpenDbFails, IntegrityBad, StatLockFails
<1>5. CASE Repair \/ RepairFails
  BY <1>1, <1>2, <1>3, <1>5 DEF Repair, RepairFails
<1>6. CASE DropLock
  <2>1. settings = None /\ backups # {} /\ lock' = FALSE /\ UNCHANGED <<settings, filed, backups>>
    BY <1>6 DEF DropLock, SeqInv, RepairBackedUp
  <2>. QED
    BY <2>1 DEF IInv, TypeOK
<1>7. CASE DropLockFails \/ BootLoadFails
  BY <1>1, <1>2, <1>7 DEF DropLockFails, BootLoadFails
<1>8. CASE StartProcess \/ OpenDb \/ StatLock \/ IntegrityOk \/ BootLoad \/ BootNoStore
  BY <1>1, <1>8 DEF StartProcess, OpenDb, StatLock, IntegrityOk, BootLoad, BootNoStore
<1>. QED
  BY <1>4, <1>5, <1>6, <1>7, <1>8 DEF BootStep

\* So is a step of a submission.
LEMMA HandlerRefines ==
  ASSUME IInv, SeqInv, NEW r \in Requests, Submit(r) \/ Handle(r)
  PROVE  [Contract!CNext]_<<lock, settings, filed, backups>>
<1>. USE DEF disk, memory, budgets
<1>1. CASE Apply(r)
  <2>1. pc[r] \in InFlight /\ pc[r] # "set_mode"
    BY <1>1 DEF Apply, InFlight
  <2>2. ~lock /\ body[r] \in Payloads
    BY <2>1 DEF IInv, HandledWhileRunning, SeqInv, LockedSetup
  <2>3. Contract!Configure(body[r])
    BY <1>1, <2>2 DEF Apply, Contract!Configure
  <2>. QED
    BY <2>2, <2>3 DEF Contract!CNext
<1>2. CASE RenameLock(r)
  <2>1. settings # None
    BY <1>2 DEF RenameLock, IInv, HandledWhileRunning, InFlight, Committed
  <2>. QED
    BY <1>2, <2>1 DEF RenameLock, Contract!CNext, Contract!Close
<1>3. CASE UNCHANGED <<lock, settings, filed, backups>>
  BY <1>3
<1>. QED
  BY <1>1, <1>2, <1>3
     DEF Handle, Submit, ApplyFails, SetAuth, ReadSettings, ReadSettingsFails, ReadVoice,
         SetOptions, SetKeys, SetAdmin, ClearErr, CheckLock, CreateLockFails, EnterNormal

\* So is every step.
LEMMA StepRefines ==
  IInv /\ SeqInv /\ [Next]_vars => [Contract!CNext]_(Contract!cvars)
<1>1. CASE UNCHANGED vars \/ Checkpoint \/ Shutdown \/ Exit \/ Crash \/ Damage
  BY <1>1 DEF vars, disk, Checkpoint, Shutdown, CloseDb, Exit, Crash, Damage, Contract!cvars,
              Contract!CNext, Contract!Settle
<1>2. ASSUME IInv, SeqInv, Next PROVE [Contract!CNext]_(Contract!cvars)
  BY <1>1, <1>2, BootRefines, HandlerRefines DEF Next, Contract!cvars
<1>. QED
  BY <1>1, <1>2

(* With one submission at a time the installer implements its contract:     *)
(* nothing is written once setup is closed, setup is closed only over a     *)
(* committed configuration, and is opened again only after that             *)
(* configuration has gone to a backup.                                      *)
THEOREM KeepsContractHolds == ASSUME ~Concurrent PROVE Spec => KeepsContract
<1>1. Init => Contract!CInit
  BY DEF Init, Contract!CInit
<1>. QED
  BY <1>1, StepRefines, SeqInductive, PTL DEF Spec, KeepsContract, Contract!CSpec

(* With one submission at a time the setup endpoint writes nothing once     *)
(* there is a lock.                                                         *)
THEOREM SetupClosedHolds == ASSUME ~Concurrent PROVE Spec => SetupClosed
<1>1. IInv /\ SeqInv /\ [Next]_vars => [lock /\ Running => settings' = settings]_vars
  <2>1. ASSUME IInv, SeqInv, lock, Running, Next PROVE settings' = settings
    <3>. USE DEF disk, memory, budgets
    <3>1. CASE BootStep
      BY <2>1, <3>1
         DEF BootStep, StartProcess, OpenDb, OpenDbFails, Repair, RepairFails, StatLock,
             StatLockFails, IntegrityOk,
             IntegrityBad, DropLock, DropLockFails, BootLoad, BootLoadFails, BootNoStore, Running
    <3>2. CASE Checkpoint \/ Shutdown \/ Exit \/ Crash \/ Damage
      BY <3>2 DEF Checkpoint, Shutdown, Exit, Crash, Damage
    <3>3. ASSUME NEW r \in Requests, Apply(r) PROVE FALSE
      BY <2>1, <3>3 DEF Apply, SeqInv, LockedSetup, InFlight
    <3>4. ASSUME NEW r \in Requests, Submit(r) \/ Handle(r) PROVE settings' = settings
      BY <3>3, <3>4
         DEF Handle, Submit, ApplyFails, SetAuth, ReadSettings, ReadSettingsFails, ReadVoice,
             SetOptions, SetKeys, SetAdmin, ClearErr, CheckLock, RenameLock, CreateLockFails,
             EnterNormal
    <3>. QED
      BY <2>1, <3>1, <3>2, <3>4 DEF Next
  <2>. QED
    BY <2>1
<1>. QED
  BY <1>1, SeqInductive, PTL DEF Spec, SetupClosed

-----------------------------------------------------------------------------
\* Where the configuration of a submission is: in the database from its commit
\* on, and after the answer either still there, under the lock, or in a backup
\* or a log that was left behind.
StoredInv ==
  \A r \in Requests :
    /\ pc[r] \in Committed => settings = body[r]
    /\ pc[r] = "ok" =>
         /\ body[r] \in Payloads
         /\ body[r] \in backups \cup stranded \/ (lock /\ settings = body[r])

\* Steps that end nothing well and take data only out of a file that is renamed.
LEMMA BootStored ==
  ASSUME IInv, SeqInv, StoredInv, BootStep \/ Checkpoint \/ Shutdown \/ Exit \/ Crash \/ Damage
  PROVE  StoredInv'
<1>. USE DEF disk, memory, handlers, budgets, Committed, InFlight
<1>1. ASSUME UNCHANGED <<pc, body, settings, backups, stranded, lock>> PROVE StoredInv'
  BY <1>1 DEF StoredInv
<1>2. ASSUME Stop, UNCHANGED <<settings, backups, stranded, lock>> PROVE StoredInv'
  BY <1>2 DEF Stop, StoredInv
<1>3. ASSUME ~Running PROVE \A r \in Requests : pc[r] \notin Committed
  BY <1>3 DEF IInv, HandledWhileRunning
<1>5. CASE OpenDbFails \/ IntegrityBad
  BY <1>1, <1>5 DEF OpenDbFails, IntegrityBad
<1>6. CASE Repair
  BY <1>3, <1>6 DEF Repair, BackupDb, StoredInv, Running
<1>7. CASE DropLock
  <2>1. /\ settings = None /\ UNCHANGED <<pc, body, settings, backups, stranded>>
        /\ ~Running
    BY <1>7 DEF DropLock, SeqInv, RepairBackedUp, Running
  <2>. QED
    BY <1>3, <2>1, InstallAssumption DEF StoredInv
<1>8. CASE DropLockFails \/ StatLockFails \/ BootLoadFails \/ RepairFails \/ Exit \/ Crash
  BY <1>1, <1>2, <1>8 DEF DropLockFails, StatLockFails, BootLoadFails, RepairFails, Exit, Crash,
                          Fatal
<1>9. CASE \/ StartProcess \/ OpenDb \/ StatLock \/ IntegrityOk \/ BootLoad \/ BootNoStore
           \/ Checkpoint \/ Shutdown \/ Damage
  BY <1>1, <1>9 DEF StartProcess, OpenDb, StatLock, IntegrityOk, BootLoad, BootNoStore,
                    Checkpoint, Shutdown, Damage
<1>. QED
  BY <1>5, <1>6, <1>7, <1>8, <1>9 DEF BootStep

\* A step of a submission keeps what was acknowledged.
LEMMA HandlerStored ==
  ASSUME ~Concurrent, IInv, SeqInv, StoredInv, NEW r \in Requests, Submit(r) \/ Handle(r)
  PROVE  StoredInv'
<1>. USE DEF disk, memory, budgets, Committed, InFlight
<1>1. CASE Submit(r)
  <2>1. PICK step \in {"apply", "refused"} : GoTo(r, step)
    BY <1>1 DEF Submit
  <2>2. /\ \A q \in Requests : pc'[q] = IF q = r THEN step ELSE pc[q]
        /\ \A q \in Requests \ {r} : body'[q] = body[q]
    BY <1>1, <2>1 DEF Submit, GoTo, IInv, TypeOK
  <2>. QED
    BY <1>1, <2>1, <2>2 DEF Submit, StoredInv
<1>2. CASE Apply(r)
  <2>1. /\ ~lock
        /\ \A q \in Requests \ {r} : pc[q] \notin InFlight
    BY <1>2 DEF Apply, SeqInv, LockedSetup, OneAtATime, IInv, HandledWhileRunning
  <2>2. \A q \in Requests : pc'[q] = IF q = r THEN "set_auth" ELSE pc[q]
    BY <1>2 DEF Apply, GoTo, IInv, TypeOK
  <2>. QED
    BY <1>2, <2>1, <2>2 DEF Apply, StoredInv
<1>3. CASE EnterNormal(r)
  <2>1. lock /\ settings = body[r] /\ body[r] \in Payloads
    BY <1>3 DEF EnterNormal, IInv, HandledWhileRunning, StoredInv
  <2>2. \A q \in Requests : pc'[q] = IF q = r THEN "ok" ELSE pc[q]
    BY <1>3 DEF EnterNormal, GoTo, IInv, TypeOK
  <2>. QED
    BY <1>3, <2>1, <2>2 DEF EnterNormal, StoredInv
<1>4. ASSUME NEW step \in InFlight \cup {"failed"}, GoTo(r, step),
             pc[r] \in Committed \/ step = "failed",
             lock => lock', UNCHANGED <<settings, backups, stranded, body>>
      PROVE  StoredInv'
  <2>1. \A q \in Requests : pc'[q] = IF q = r THEN step ELSE pc[q]
    BY <1>4 DEF GoTo, IInv, TypeOK
  <2>. QED
    BY <1>4, <2>1 DEF StoredInv
<1>5. CASE ApplyFails(r) \/ SetAuth(r) \/ ReadSettings(r) \/ ReadSettingsFails(r)
  BY <1>4, <1>5 DEF ApplyFails, SetAuth, ReadSettings, ReadSettingsFails
<1>6. CASE ReadVoice(r) \/ SetOptions(r) \/ SetKeys(r) \/ SetAdmin(r) \/ ClearErr(r)
  BY <1>4, <1>6 DEF ReadVoice, SetOptions, SetKeys, SetAdmin, ClearErr
<1>7. CASE CheckLock(r) \/ RenameLock(r) \/ CreateLockFails(r)
  BY <1>4, <1>7 DEF CheckLock, RenameLock, CreateLockFails
<1>. QED
  BY <1>1, <1>2, <1>3, <1>5, <1>6, <1>7 DEF Handle

\* Hence it always holds.
LEMMA StoredInductive == ASSUME ~Concurrent PROVE Spec => []StoredInv
<1>1. Init => StoredInv
  BY DEF Init, StoredInv, Committed, InFlight
<1>2. IInv /\ SeqInv /\ StoredInv /\ [Next]_vars => StoredInv'
  <2>1. CASE UNCHANGED vars
    BY <2>1 DEF vars, disk, handlers, StoredInv
  <2>2. CASE Next
    BY <2>2, BootStored, HandlerStored DEF Next
  <2>. QED
    BY <2>1, <2>2
<1>. QED
  BY <1>1, <1>2, SeqInductive, PTL DEF Spec

(* With one submission at a time, what a submission was told is installed   *)
(* is in the database, or in the backup of a database repaired since, or    *)
(* was in the log of that one only when it was renamed.                     *)
THEOREM AckedIsStoredHolds == ASSUME ~Concurrent PROVE Spec => []AckedIsStored
<1>1. StoredInv => AckedIsStored
  BY DEF StoredInv, AckedIsStored
<1>. QED
  BY <1>1, StoredInductive, PTL

-----------------------------------------------------------------------------
(* What a service in normal mode serves is what is stored.                   *)

OptionsStored == options.settings = settings /\ options.speaker \in {speaker, None}
AllStored     == IF cfgErr THEN auth = Trim[settings]
                 ELSE auth = settings /\ OptionsStored /\ admin = settings

\* What the submission in flight has read and published by the time it gets to
\* a step; the steps after the load follow a failed one as well.
Serving(r) ==
  /\ pc[r] \in {"read_settings", "read_voice", "set_options", "set_keys"} =>
       auth = Trim[settings]
  /\ pc[r] \in {"set_admin", "clear_err"} => auth = settings
  /\ pc[r] \in Loading => snap[r].settings = settings
  /\ pc[r] = "set_options" => snap[r].speaker \in {speaker, None}
  /\ pc[r] \in {"set_keys", "set_admin", "clear_err"} => OptionsStored
  /\ pc[r] = "clear_err" => admin = settings
  /\ pc[r] \in {"stat_lock", "rename_lock", "set_mode"} => AllStored

ServeInv == ServesStored /\ \A r \in Requests : Serving(r)

\* Nothing is said of a submission that is not in flight.
LEMMA NoneServing ==
  ASSUME \A r \in Requests : pc'[r] \notin InFlight
  PROVE  \A r \in Requests : Serving(r)'
  BY DEF Serving, Committed, Loading, InFlight

\* Start-up keeps it: the load publishes what is stored, whole.
LEMMA BootServe ==
  ASSUME IInv, ServeInv, BootStep
  PROVE  ServeInv'
<1>. USE DEF disk, memory, handlers, budgets
<1>1. ~Running
  BY DEF BootStep, StartProcess, OpenDb, OpenDbFails, Repair, RepairFails, StatLock,
         StatLockFails, IntegrityOk,
         IntegrityBad, DropLock, DropLockFails, BootLoad, BootLoadFails, BootNoStore, Running
<1>2. UNCHANGED pc \/ Stop
  BY DEF BootStep, StartProcess, OpenDb, OpenDbFails, Repair, RepairFails, StatLock,
         StatLockFails, IntegrityOk, IntegrityBad, DropLock, DropLockFails, BootLoad,
         BootLoadFails, BootNoStore, Fatal
<1>3. \A r \in Requests : pc'[r] \notin InFlight
  BY <1>1, <1>2 DEF IInv, HandledWhileRunning, Stop, InFlight
<1>4. ServesStored'
  <2>1. CASE mode' # "normal" \/ boot' \notin {"serving", "draining"}
    BY <2>1 DEF ServesStored, Running
  <2>2. CASE BootLoad
    <3>1. /\ auth' = settings' /\ admin' = settings'
          /\ options'.settings = settings' /\ cfgErr' = FALSE
      BY <2>2 DEF BootLoad
    <3>2. options'.speaker \in {speaker', None}
      BY <2>2 DEF BootLoad, FoundSpeaker
    <3>. QED
      BY <3>1, <3>2 DEF ServesStored
  <2>3. CASE BootLoadFails
    BY <2>1, <2>3 DEF BootLoadFails, Fatal, Stop
  <2>4. CASE BootNoStore
    BY <2>1, <2>4 DEF BootNoStore, IInv, NormalMode
  <2>5. CASE Fatal
    BY <2>1, <2>5 DEF Fatal, Stop
  <2>6. CASE \/ StartProcess \/ OpenDb \/ OpenDbFails \/ Repair \/ RepairFails \/ StatLock
             \/ StatLockFails \/ IntegrityOk \/ IntegrityBad \/ DropLock \/ DropLockFails
    BY <2>1, <2>5, <2>6 DEF StartProcess, OpenDb, OpenDbFails, Repair, RepairFails, StatLock,
       StatLockFails, Stop, IntegrityOk, IntegrityBad, DropLock, DropLockFails
  <2>. QED
    BY <2>2, <2>3, <2>4, <2>6 DEF BootStep
<1>. QED
  BY <1>3, <1>4, NoneServing DEF ServeInv

\* So do shutdown, kills and damage.
LEMMA StopServe ==
  ASSUME IInv, ServeInv, Checkpoint \/ Shutdown \/ Exit \/ Crash \/ Damage
  PROVE  ServeInv'
<1>1. CASE Shutdown
  <2>1. UNCHANGED <<settings, speaker, mode, options, auth, admin, cfgErr, pc, snap>> /\ Running
    BY <1>1 DEF Shutdown, disk, handlers, Running
  <2>. QED
    BY <2>1 DEF ServeInv, ServesStored, Serving, OptionsStored, AllStored
<1>2. CASE Exit \/ Crash
  <2>1. mode' = "setup" /\ \A r \in Requests : pc'[r] \notin InFlight
    BY <1>2 DEF Exit, Crash, Stop, InFlight
  <2>. QED
    BY <2>1, NoneServing DEF ServeInv, ServesStored
<1>3. CASE Damage
  <2>1. boot' = "down" /\ \A r \in Requests : pc'[r] \notin InFlight
    BY <1>3 DEF Damage, handlers, IInv, HandledWhileRunning, Running
  <2>. QED
    BY <2>1, NoneServing DEF ServeInv, ServesStored, Running
<1>4. CASE Checkpoint
  BY <1>4 DEF Checkpoint, memory, handlers, ServeInv, ServesStored, Serving, OptionsStored,
              AllStored, Running
<1>. QED
  BY <1>1, <1>2, <1>3, <1>4

\* And the steps of a submission.
LEMMA HandlerServes ==
  ASSUME ~Concurrent, IInv, SeqInv, StoredInv, ServeInv, NEW r \in Requests,
         Submit(r) \/ Handle(r)
  PROVE  ServeInv'
<1>. USE DEF disk, memory, budgets
<1>1. CASE Submit(r)
  <2>1. PICK step \in {"apply", "refused"} : GoTo(r, step)
    BY <1>1 DEF Submit
  <2>2. \A q \in Requests : pc'[q] = IF q = r THEN step ELSE pc[q]
    BY <2>1 DEF GoTo, IInv, TypeOK
  <2>3. UNCHANGED <<settings, speaker, mode, options, auth, admin, cfgErr, snap, boot>>
    BY <1>1 DEF Submit
  <2>4. ServesStored'
    BY <2>3 DEF ServeInv, ServesStored, Running
  <2>5. ASSUME NEW q \in Requests PROVE Serving(q)'
    <3>1. CASE q = r
      BY <2>2, <3>1 DEF Serving, Committed, Loading, InFlight
    <3>2. CASE q # r
      BY <2>2, <2>3, <3>2 DEF ServeInv, Serving, OptionsStored, AllStored
    <3>. QED
      BY <3>1, <3>2
  <2>. QED
    BY <2>4, <2>5 DEF ServeInv
<1>2. CASE Handle(r)
  <2>1. /\ pc[r] \in InFlight /\ boot' = boot
        /\ \A q \in Requests \ {r} : pc'[q] = pc[q]
    BY <1>2 DEF Handle, Apply, ApplyFails, SetAuth, ReadSettings, ReadSettingsFails, ReadVoice,
       SetOptions, SetKeys, SetAdmin, ClearErr, CheckLock, RenameLock, CreateLockFails,
       EnterNormal, InFlight, GoTo, IInv, TypeOK
  <2>2. /\ Running /\ settings \in OrNone /\ snap \in [Requests -> Options]
        /\ \A q \in Requests \ {r} : pc'[q] \notin InFlight
    BY <2>1 DEF IInv, TypeOK, HandledWhileRunning, SeqInv, OneAtATime
  <2>3. \A q \in Requests \ {r} : Serving(q)'
    BY <2>2 DEF Serving, Committed, Loading, InFlight
  <2>4. ASSUME NEW p, GoTo(r, p) PROVE pc'[r] = p
    BY <2>4 DEF GoTo, IInv, TypeOK
  <2>5. ASSUME mode = "normal" PROVE pc[r] = "set_mode"
    BY <2>1, <2>2, <2>5 DEF IInv, NormalMode, SeqInv, LockedSetup
  <2>6. ASSUME mode' = mode, pc[r] # "set_mode" PROVE ServesStored'
    BY <2>5, <2>6 DEF ServesStored
  <2>. SUFFICES ServesStored' /\ Serving(r)'
    BY <2>3 DEF ServeInv
  <2>. USE DEF Committed, Loading, InFlight
  <2>7. CASE Apply(r) \/ ApplyFails(r) \/ CreateLockFails(r)
    <3>1. pc'[r] \in {"set_auth", "failed"} /\ mode' = mode /\ pc[r] # "set_mode"
      BY <2>4, <2>7 DEF Apply, ApplyFails, CreateLockFails
    <3>. QED
      BY <2>6, <3>1 DEF Serving
  <2>8. CASE SetAuth(r)
    <3>1. pc'[r] = "read_settings" /\ mode' = mode /\ pc[r] = "set_auth"
      BY <2>4, <2>8 DEF SetAuth
    <3>2. auth' = Trim[settings']
      BY <2>8 DEF SetAuth, StoredInv
    <3>. QED
      BY <2>6, <3>1, <3>2 DEF Serving
  <2>9. CASE ReadSettings(r)
    <3>1. /\ pc'[r] = "read_voice" /\ mode' = mode /\ pc[r] = "read_settings"
          /\ UNCHANGED <<auth, settings>>
      BY <2>4, <2>9 DEF ReadSettings
    <3>2. snap'[r].settings = settings'
      BY <2>2, <2>9 DEF ReadSettings, Options
    <3>3. auth = Trim[settings]
      BY <3>1 DEF ServeInv, Serving
    <3>. QED
      BY <2>6, <3>1, <3>2, <3>3 DEF Serving
  <2>10. CASE ReadSettingsFails(r)
    <3>1. /\ pc'[r] = "stat_lock" /\ mode' = mode /\ pc[r] = "read_settings"
          /\ UNCHANGED <<auth, settings>> /\ cfgErr'
      BY <2>4, <2>10 DEF ReadSettingsFails
    <3>2. auth = Trim[settings]
      BY <3>1 DEF ServeInv, Serving
    <3>. QED
      BY <2>6, <3>1, <3>2 DEF Serving, AllStored
  <2>11. CASE ReadVoice(r)
    <3>1. /\ pc'[r] = "set_options" /\ mode' = mode /\ pc[r] = "read_voice"
          /\ UNCHANGED <<auth, settings, speaker>>
      BY <2>4, <2>11 DEF ReadVoice
    <3>2. PICK found \in FoundSpeaker : snap' = [snap EXCEPT ![r].speaker = found]
      BY <2>11 DEF ReadVoice
    <3>3. snap'[r].settings = snap[r].settings /\ snap'[r].speaker \in {speaker, None}
      BY <2>2, <3>2 DEF FoundSpeaker, Options
    <3>4. auth = Trim[settings] /\ snap[r].settings = settings
      BY <3>1 DEF ServeInv, Serving
    <3>. QED
      BY <2>6, <3>1, <3>3, <3>4 DEF Serving
  <2>12. CASE SetOptions(r)
    <3>1. /\ pc'[r] = "set_keys" /\ mode' = mode /\ pc[r] = "set_options"
          /\ UNCHANGED <<auth, settings, speaker, snap>> /\ options' = snap[r]
      BY <2>4, <2>12 DEF SetOptions
    <3>2. auth = Trim[settings] /\ snap[r].settings = settings /\ snap[r].speaker \in {speaker,
    None}
      BY <3>1 DEF ServeInv, Serving
    <3>. QED
      BY <2>6, <3>1, <3>2 DEF Serving, OptionsStored
  <2>13. CASE SetKeys(r)
    <3>1. /\ pc'[r] = "set_admin" /\ mode' = mode /\ pc[r] = "set_keys"
          /\ UNCHANGED <<options, settings, speaker, snap>> /\ auth' = snap[r].settings
      BY <2>4, <2>13 DEF SetKeys
    <3>2. OptionsStored /\ snap[r].settings = settings
      BY <3>1 DEF ServeInv, Serving
    <3>. QED
      BY <2>6, <3>1, <3>2 DEF Serving, OptionsStored
  <2>14. CASE SetAdmin(r)
    <3>1. /\ pc'[r] = "clear_err" /\ mode' = mode /\ pc[r] = "set_admin"
          /\ UNCHANGED <<options, auth, settings, speaker, snap>> /\ admin' = snap[r].settings
      BY <2>4, <2>14 DEF SetAdmin
    <3>2. OptionsStored /\ auth = settings /\ snap[r].settings = settings
      BY <3>1 DEF ServeInv, Serving
    <3>. QED
      BY <2>6, <3>1, <3>2 DEF Serving, OptionsStored
  <2>15. CASE ClearErr(r)
    <3>1. /\ pc'[r] = "stat_lock" /\ mode' = mode /\ cfgErr' = FALSE /\ pc[r] = "clear_err"
          /\ UNCHANGED <<options, auth, admin, settings, speaker>>
      BY <2>4, <2>15 DEF ClearErr
    <3>2. OptionsStored /\ auth = settings /\ admin = settings
      BY <3>1 DEF ServeInv, Serving
    <3>. QED
      BY <2>6, <3>1, <3>2 DEF Serving, OptionsStored, AllStored
  <2>16. CASE CheckLock(r) \/ RenameLock(r)
    <3>1. /\ pc'[r] \in {"failed", "rename_lock", "set_mode"} /\ mode' = mode
          /\ pc[r] \in {"stat_lock", "rename_lock"}
          /\ UNCHANGED <<options, auth, admin, cfgErr, settings, speaker>>
      BY <2>4, <2>16 DEF CheckLock, RenameLock
    <3>2. AllStored
      BY <3>1 DEF ServeInv, Serving
    <3>. QED
      BY <2>6, <3>1, <3>2 DEF Serving, OptionsStored, AllStored
  <2>17. CASE EnterNormal(r)
    <3>1. /\ pc'[r] = "ok" /\ pc[r] = "set_mode"
          /\ UNCHANGED <<options, auth, admin, cfgErr, settings, speaker>>
      BY <2>4, <2>17 DEF EnterNormal
    <3>2. AllStored
      BY <3>1 DEF ServeInv, Serving
    <3>. QED
      BY <3>1, <3>2 DEF Serving, ServesStored, OptionsStored, AllStored
  <2>. QED
    BY <1>2, <2>7, <2>8, <2>9, <2>10, <2>11, <2>12, <2>13, <2>14, <2>15, <2>16, <2>17 DEF Handle
<1>. QED
  BY <1>1, <1>2

(* With one submission at a time, a service in normal mode lets in by the   *)
(* key that is stored, and serves what is stored or has recorded that it    *)
(* does not, whatever fails and however often the process is killed.        *)
THEOREM ServesStoredHolds == ASSUME ~Concurrent PROVE Spec => []ServesStored
<1>1. Init => ServeInv
  BY DEF Init, ServeInv, ServesStored, Serving, Running, Committed, Loading, InFlight
<1>2. IInv /\ SeqInv /\ StoredInv /\ ServeInv /\ [Next]_vars => ServeInv'
  <2>1. CASE UNCHANGED vars
    BY <2>1 DEF vars, disk, memory, handlers, ServeInv, ServesStored, Serving, Running,
       OptionsStored, AllStored
  <2>2. CASE Next
    BY <2>2, BootServe, StopServe, HandlerServes DEF Next
  <2>. QED
    BY <2>1, <2>2
<1>3. ServeInv => ServesStored
  BY DEF ServeInv
<1>. QED
  BY <1>1, <1>2, <1>3, SeqInductive, StoredInductive, PTL DEF Spec

=============================================================================
