---------------------------- MODULE InstallProofs ----------------------------
(***************************************************************************)
(* Proofs about Install, for every set of submissions and payloads, every  *)
(* combination of faults and any number of crashes and damages.            *)
(***************************************************************************)
EXTENDS Install, TLAPS

\* Steps of a submission whose transaction has committed.
Committed == InFlight \ {"apply"}

\* Steps at which a submission publishes what it has read.
Loading == {"read_voice", "set_options", "set_keys", "set_admin", "clear_err"}

(* The inductive invariant, beyond types and CommittedBeforeLock.           *)

\* Submissions are handled only by a running process that has a store, and
\* until the process ends their commits stay where they are.
HandledWhileRunning ==
  \A r \in Requests : pc[r] \in InFlight =>
    /\ Running
    /\ store # "nil"
    /\ body[r] \in Payloads
    /\ pc[r] \in Committed => settings # None
    /\ pc[r] \in Committed \ {"set_auth"} => auth # None
    /\ pc[r] \in Loading => snap[r].settings # None
    /\ pc[r] = "set_mode" => lock

\* The process is in normal mode only after the integrity check or the end of
\* a submission, and only while there is a lock.
NormalMode ==
  mode = "normal" =>
    /\ boot = "load" \/ Running
    /\ lock
    /\ store # "nil"
    /\ Running => settings # None /\ auth # None

\* The integrity check is reached with a lock and a store only.
AtIntegrity == boot = "integrity" => lock /\ store # "nil"

IInv ==
  /\ TypeOK
  /\ CommittedBeforeLock
  /\ HandledWhileRunning
  /\ NormalMode
  /\ AtIntegrity

-----------------------------------------------------------------------------
\* Stopping keeps the types.
LEMMA StopType ==
  ASSUME TypeOK, Stop, filed' \in {filed, settings},
         UNCHANGED <<dbFile, settings, speaker, lock, backups, stranded>>,
         crashes' \in 0 .. MaxCrashes, UNCHANGED damages
  PROVE  TypeOK'
<1>1. pc' \in [Requests -> {"idle"} \cup InFlight \cup Answers]
  BY DEF TypeOK, Stop, Answers
<1>2. snap' \in [Requests -> Options]
  BY DEF Stop, Options, NoOptions, OrNone
<1>3. options' \in Options
  BY DEF Stop, Options, NoOptions, OrNone
<1>. QED
  BY <1>1, <1>2, <1>3 DEF TypeOK, Stop, disk, OrNone

\* TypeOK is preserved by start-up and shutdown ...
LEMMA BootType ==
  ASSUME TypeOK, BootStep \/ Checkpoint \/ Shutdown \/ Exit \/ Crash \/ Damage
  PROVE  TypeOK'
<1>. USE InstallAssumption DEF disk, memory, handlers, budgets
<1>1. ASSUME Fatal PROVE TypeOK'
  BY <1>1, StopType DEF Fatal, TypeOK
<1>2. CASE StartProcess
  BY <1>2 DEF StartProcess, TypeOK
<1>3. CASE OpenDb
  BY <1>3 DEF OpenDb, TypeOK
<1>4. CASE OpenDbFails
  BY <1>4 DEF OpenDbFails, CloseDb, TypeOK
<1>5. CASE StatLock
  BY <1>5 DEF StatLock, TypeOK
<1>15. CASE StatLockFails
  <2>1. filed' \in {filed, settings}
    BY <1>15 DEF StatLockFails, CloseDb
  <2>. QED
    BY <1>15, <2>1, StopType DEF StatLockFails, TypeOK
<1>16. CASE Repair
  BY <1>16 DEF Repair, BackupDb, TypeOK, OrNone
<1>17. CASE RepairFails
  BY <1>1, <1>17 DEF RepairFails
<1>18. CASE Checkpoint
  BY <1>18 DEF Checkpoint, TypeOK
<1>6. CASE IntegrityOk
  BY <1>6 DEF IntegrityOk, TypeOK
<1>7. CASE IntegrityBad
  BY <1>7 DEF IntegrityBad, CloseDb, TypeOK
<1>8. CASE DropLock \/ DropLockFails
  BY <1>1, <1>8 DEF DropLock, DropLockFails, TypeOK
<1>9. CASE BootLoad
  <2>1. FoundSpeaker \subseteq OrNone /\ settings \in OrNone
    BY DEF FoundSpeaker, TypeOK, OrNone
  <2>2. options' \in Options
    BY <1>9, <2>1 DEF BootLoad, Options
  <2>. QED
    BY <1>9, <2>1, <2>2 DEF BootLoad, TypeOK, OrNone
<1>10. CASE BootLoadFails \/ BootNoStore
  BY <1>1, <1>10 DEF BootLoadFails, BootNoStore, TypeOK
<1>11. CASE Shutdown
  BY <1>11 DEF Shutdown, CloseDb, TypeOK
<1>12. CASE Exit
  BY <1>1, <1>12 DEF Exit, Fatal
<1>13. CASE Crash
  BY <1>13, StopType DEF Crash, TypeOK
<1>14. CASE Damage
  BY <1>14 DEF Damage, TypeOK
<1>. QED
  BY <1>2, <1>3, <1>4, <1>5, <1>6, <1>7, <1>8, <1>9, <1>10, <1>11, <1>12, <1>13, <1>14,
     <1>15, <1>16, <1>17, <1>18 DEF BootStep

\* ... and by the submissions, for what one in flight submits is a payload.
LEMMA HandlerType ==
  ASSUME TypeOK, HandledWhileRunning, NEW r \in Requests, Submit(r) \/ Handle(r)
  PROVE  TypeOK'
<1>. USE DEF disk, memory, handlers, budgets, GoTo, InFlight, Answers
<1>1. CASE Submit(r)
  BY <1>1 DEF Submit, TypeOK, OrNone
<1>2. CASE Apply(r) \/ ApplyFails(r)
  BY <1>2 DEF Apply, ApplyFails, TypeOK
<1>3. CASE SetAuth(r)
  <2>1. Trim[body[r]] \in Keys
    BY <1>3, InstallAssumption DEF SetAuth, HandledWhileRunning
  <2>. QED
    BY <1>3, <2>1 DEF SetAuth, TypeOK
<1>4. CASE ReadSettings(r)
  BY <1>4 DEF ReadSettings, TypeOK, Options
<1>5. CASE ReadSettingsFails(r)
  BY <1>5 DEF ReadSettingsFails, TypeOK
<1>6. CASE ReadVoice(r)
  <2>1. PICK found \in OrNone : snap' = [snap EXCEPT ![r].speaker = found]
    BY <1>6 DEF ReadVoice, FoundSpeaker, TypeOK, OrNone
  <2>. QED
    BY <1>6, <2>1 DEF ReadVoice, TypeOK, Options
<1>7. CASE SetOptions(r)
  BY <1>7 DEF SetOptions, TypeOK
<1>8. CASE SetKeys(r)
  BY <1>8, InstallAssumption DEF SetKeys, TypeOK, Options, OrNone
<1>9. CASE SetAdmin(r)
  BY <1>9 DEF SetAdmin, TypeOK, Options
<1>10. CASE ClearErr(r)
  BY <1>10 DEF ClearErr, TypeOK
<1>11. CASE CheckLock(r)
  <2>1. PICK step \in {"failed", "rename_lock"} : pc' = [pc EXCEPT ![r] = step]
    BY <1>11 DEF CheckLock
  <2>. QED
    BY <1>11, <2>1 DEF CheckLock, TypeOK
<1>12. CASE RenameLock(r)
  BY <1>12 DEF RenameLock, TypeOK
<1>13. CASE CreateLockFails(r)
  BY <1>13 DEF CreateLockFails, TypeOK
<1>14. CASE EnterNormal(r)
  BY <1>14 DEF EnterNormal, TypeOK
<1>. QED
  BY <1>1, <1>2, <1>3, <1>4, <1>5, <1>6, <1>7, <1>8, <1>9, <1>10, <1>11, <1>12, <1>13, <1>14
     DEF Handle

\* Every step keeps the types.
LEMMA TypeStep == TypeOK /\ HandledWhileRunning /\ [Next]_vars => TypeOK'
<1>1. CASE UNCHANGED vars
  BY <1>1 DEF vars, disk, memory, handlers, budgets, TypeOK
<1>2. ASSUME TypeOK, HandledWhileRunning, Next PROVE TypeOK'
  <2>1. CASE BootStep \/ Checkpoint \/ Shutdown \/ Exit \/ Crash \/ Damage
    BY <1>2, <2>1, BootType
  <2>2. CASE \E r \in Requests : Submit(r) \/ Handle(r)
    BY <1>2, <2>2, HandlerType
  <2>. QED
    BY <1>2, <2>1, <2>2 DEF Next
<1>. QED
  BY <1>1, <1>2

\* The initial state has the types.
LEMMA InitType == Init => TypeOK
<1>1. NoOptions \in Options
  BY DEF NoOptions, Options, OrNone
<1>2. 0 \in 0 .. MaxCrashes /\ 0 \in 0 .. MaxDamage
  BY InstallAssumption
<1>. QED
  BY <1>1, <1>2 DEF Init, TypeOK, OrNone

-----------------------------------------------------------------------------
\* A stopped process satisfies everything that is said of running ones.
LEMMA StopInv ==
  ASSUME IInv, Stop, UNCHANGED <<settings, lock, backups>>
  PROVE  CommittedBeforeLock' /\ HandledWhileRunning' /\ NormalMode' /\ AtIntegrity'
<1>1. \A r \in Requests : pc'[r] \notin InFlight
  BY DEF Stop, InFlight
<1>2. HandledWhileRunning'
  BY <1>1 DEF HandledWhileRunning
<1>3. NormalMode'
  BY DEF Stop, NormalMode
<1>4. CommittedBeforeLock'
  BY DEF IInv, CommittedBeforeLock
<1>5. AtIntegrity'
  BY DEF Stop, AtIntegrity
<1>. QED
  BY <1>2, <1>3, <1>4, <1>5

\* During start-up no submission is being handled, and none begins.
LEMMA BootKeepsHandled ==
  ASSUME IInv, ~Running, UNCHANGED pc
  PROVE  HandledWhileRunning'
<1>1. \A r \in Requests : pc[r] \notin InFlight
  BY DEF IInv, HandledWhileRunning
<1>. QED
  BY <1>1 DEF HandledWhileRunning, InFlight

\* Start-up, shutdown, kills and damage keep the invariant.
LEMMA BootInv ==
  ASSUME IInv, BootStep
  PROVE  CommittedBeforeLock' /\ HandledWhileRunning' /\ NormalMode' /\ AtIntegrity'
<1>. USE DEF disk, memory, handlers, budgets
<1>0. ~Running
  BY DEF BootStep, StartProcess, OpenDb, OpenDbFails, Repair, RepairFails, StatLock,
         StatLockFails, IntegrityOk,
         IntegrityBad, DropLock, DropLockFails, BootLoad, BootLoadFails, BootNoStore, Running
<1>1. ASSUME Fatal PROVE CommittedBeforeLock' /\ HandledWhileRunning' /\ NormalMode' /\ AtIntegrity'
  BY <1>1, StopInv DEF Fatal
<1>2. CASE StartProcess
  BY <1>0, <1>2, BootKeepsHandled
     DEF StartProcess, IInv, CommittedBeforeLock, NormalMode, AtIntegrity, Running
<1>3. CASE OpenDb
  BY <1>0, <1>3, BootKeepsHandled DEF OpenDb, IInv, CommittedBeforeLock, NormalMode, AtIntegrity,
                                      Running
<1>4. CASE OpenDbFails
  BY <1>0, <1>4, BootKeepsHandled
     DEF OpenDbFails, IInv, CommittedBeforeLock, NormalMode, AtIntegrity, Running
<1>14. CASE Repair
  BY <1>0, <1>14, BootKeepsHandled
     DEF Repair, BackupDb, IInv, CommittedBeforeLock, NormalMode, AtIntegrity, Running
<1>15. CASE RepairFails
  BY <1>1, <1>15 DEF RepairFails
<1>5. CASE StatLock
  BY <1>0, <1>5, BootKeepsHandled
     DEF StatLock, IInv, TypeOK, CommittedBeforeLock, NormalMode, AtIntegrity, Running
<1>6. CASE StatLockFails
  BY <1>6, StopInv DEF StatLockFails
<1>7. CASE IntegrityOk
  <2>1. lock /\ store # "nil"
    BY <1>7 DEF IntegrityOk, IInv, AtIntegrity
  <2>. QED
    BY <1>0, <1>7, <2>1, BootKeepsHandled
       DEF IntegrityOk, IInv, CommittedBeforeLock, NormalMode, AtIntegrity, Running
<1>8. CASE IntegrityBad
  BY <1>0, <1>8, BootKeepsHandled
     DEF IntegrityBad, IInv, CommittedBeforeLock, NormalMode, AtIntegrity, Running
<1>9. CASE DropLock
  BY <1>0, <1>9, BootKeepsHandled DEF DropLock, IInv, CommittedBeforeLock, NormalMode,
                                      AtIntegrity, Running
<1>10. CASE DropLockFails
  <2>1. CASE /\ boot = "drop_lock_quietly" /\ boot' = "load"
             /\ UNCHANGED <<disk, memory, handlers, budgets>>
    BY <1>0, <2>1, BootKeepsHandled DEF IInv, CommittedBeforeLock, NormalMode, AtIntegrity, Running
  <2>. QED
    BY <1>1, <1>10, <2>1 DEF DropLockFails
<1>11. CASE BootLoad
  BY <1>0, <1>11, BootKeepsHandled DEF BootLoad, IInv, CommittedBeforeLock, NormalMode,
                                       AtIntegrity, Running
<1>12. CASE BootLoadFails
  <2>1. CASE /\ mode = "setup" /\ boot' = "serving"
             /\ UNCHANGED <<disk, store, mode, options, auth, admin, handlers>>
    BY <1>0, <2>1, BootKeepsHandled DEF IInv, CommittedBeforeLock, NormalMode, AtIntegrity
  <2>. QED
    BY <1>1, <1>12, <2>1 DEF BootLoadFails
<1>13. CASE BootNoStore
  BY <1>0, <1>13, BootKeepsHandled
     DEF BootNoStore, IInv, CommittedBeforeLock, NormalMode, AtIntegrity, Running
<1>. QED
  BY <1>2, <1>3, <1>4, <1>5, <1>6, <1>7, <1>8, <1>9, <1>10, <1>11, <1>12, <1>13, <1>14, <1>15
     DEF BootStep


\* Shutdown, the end of the process and damage to the file of a stopped one.
LEMMA StopOrDamageInv ==
  ASSUME IInv, Checkpoint \/ Shutdown \/ Exit \/ Crash \/ Damage
  PROVE  CommittedBeforeLock' /\ HandledWhileRunning' /\ NormalMode' /\ AtIntegrity'
<1>. USE DEF disk, memory, handlers, budgets
<1>1. CASE Shutdown
  <2>1. HandledWhileRunning'
    BY <1>1 DEF Shutdown, IInv, HandledWhileRunning, Running
  <2>. QED
    BY <1>1, <2>1
       DEF Shutdown, IInv, CommittedBeforeLock, NormalMode, AtIntegrity, Running
<1>2. CASE Exit \/ Crash
  BY <1>2, StopInv DEF Exit, Crash
<1>3. CASE Damage
  BY <1>3, BootKeepsHandled
     DEF Damage, IInv, CommittedBeforeLock, NormalMode, AtIntegrity, Running
<1>4. CASE Checkpoint
  BY <1>4 DEF Checkpoint, IInv, CommittedBeforeLock, HandledWhileRunning, NormalMode,
              AtIntegrity, Running
<1>. QED
  BY <1>1, <1>2, <1>3, <1>4

\* A step of one submission: what it says of the others stays true as long as
\* settings and keys, once set, are not unset, and a lock is not removed.
LEMMA OthersHandled ==
  ASSUME IInv, NEW r \in Requests, NEW step, GoTo(r, step),
         UNCHANGED <<boot, store>>,
         settings # None => settings' # None,
         auth # None => auth' # None,
         lock => lock',
         \A q \in Requests \ {r} : body'[q] = body[q] /\ snap'[q] = snap[q],
         step \in InFlight =>
           /\ Running
           /\ store # "nil"
           /\ body'[r] \in Payloads
           /\ step \in Committed => settings' # None
           /\ step \in Committed \ {"set_auth"} => auth' # None
           /\ step \in Loading => snap'[r].settings # None
           /\ step = "set_mode" => lock'
  PROVE  HandledWhileRunning'
<1>. SUFFICES ASSUME NEW q \in Requests, pc'[q] \in InFlight
              PROVE  /\ Running'
                     /\ store' # "nil"
                     /\ body'[q] \in Payloads
                     /\ pc'[q] \in Committed => settings' # None
                     /\ pc'[q] \in Committed \ {"set_auth"} => auth' # None
                     /\ pc'[q] \in Loading => snap'[q].settings # None
                     /\ pc'[q] = "set_mode" => lock'
  BY DEF HandledWhileRunning
<1>1. CASE q = r
  <2>1. pc'[q] = step
    BY <1>1 DEF GoTo, IInv, TypeOK
  <2>. QED
    BY <1>1, <2>1 DEF Running
<1>2. CASE q # r
  <2>1. pc'[q] = pc[q]
    BY <1>2 DEF GoTo, IInv, TypeOK
  <2>. QED
    BY <1>2, <2>1 DEF Running, IInv, HandledWhileRunning
<1>. QED
  BY <1>1, <1>2

\* A submission that is admitted or refused.
LEMMA SubmitInv ==
  ASSUME IInv, NEW r \in Requests, Submit(r)
  PROVE  CommittedBeforeLock' /\ HandledWhileRunning' /\ NormalMode' /\ AtIntegrity'
<1>. USE DEF disk, memory, budgets
<1>1. HandledWhileRunning'
  <2>1. CASE /\ Running /\ store # "nil"
             /\ \E p \in Payloads : body' = [body EXCEPT ![r] = p]
             /\ GoTo(r, "apply")
             /\ UNCHANGED <<disk, boot, memory, snap>>
    <3>1. body'[r] \in Payloads /\ \A q \in Requests \ {r} : body'[q] = body[q]
      BY <2>1 DEF IInv, TypeOK
    <3>. QED
      BY <2>1, <3>1, OthersHandled DEF Committed, Loading
  <2>2. CASE GoTo(r, "refused") /\ UNCHANGED <<disk, boot, memory, body, snap>>
    BY <2>2, OthersHandled DEF InFlight
  <2>. QED
    BY <2>1, <2>2 DEF Submit
<1>. QED
  BY <1>1 DEF Submit, IInv, CommittedBeforeLock, NormalMode, AtIntegrity, Running

\* The steps of a submission that has been admitted.
LEMMA HandleInv ==
  ASSUME IInv, NEW r \in Requests, Handle(r)
  PROVE  CommittedBeforeLock' /\ HandledWhileRunning' /\ NormalMode' /\ AtIntegrity'
<1>. USE DEF disk, memory, budgets
<1>1. pc[r] \in InFlight
  BY DEF Handle, Apply, ApplyFails, SetAuth, ReadSettings, ReadSettingsFails, ReadVoice,
         SetOptions, SetKeys, SetAdmin, ClearErr, CheckLock, RenameLock, CreateLockFails,
         EnterNormal, InFlight
<1>2. /\ Running
      /\ store # "nil"
      /\ body[r] \in Payloads
      /\ pc[r] \in Committed => settings # None
      /\ pc[r] \in Committed \ {"set_auth"} => auth # None
      /\ pc[r] \in Loading => snap[r].settings # None
      /\ pc[r] = "set_mode" => lock
  BY <1>1 DEF IInv, HandledWhileRunning
<1>3. body[r] # None /\ Trim[body[r]] # None
  BY <1>2, InstallAssumption
<1>. USE DEF InFlight, Committed, Loading
<1>4. CASE Apply(r)
  BY <1>2, <1>3, <1>4, OthersHandled
     DEF Apply, IInv, CommittedBeforeLock, NormalMode, AtIntegrity, Running
<1>5. CASE ApplyFails(r)
  BY <1>2, <1>5, OthersHandled
     DEF ApplyFails, IInv, CommittedBeforeLock, NormalMode, AtIntegrity, Running
<1>6. CASE SetAuth(r)
  BY <1>2, <1>3, <1>6, OthersHandled
     DEF SetAuth, IInv, CommittedBeforeLock, NormalMode, AtIntegrity, Running
<1>7. CASE ReadSettings(r)
  <2>1. /\ snap'[r].settings # None
        /\ \A q \in Requests \ {r} : snap'[q] = snap[q]
    BY <1>7 DEF ReadSettings, IInv, TypeOK, Options
  <2>. QED
    BY <1>2, <1>7, <2>1, OthersHandled
       DEF ReadSettings, IInv, CommittedBeforeLock, NormalMode, AtIntegrity, Running
<1>8. CASE ReadSettingsFails(r)
  BY <1>2, <1>8, OthersHandled
     DEF ReadSettingsFails, IInv, CommittedBeforeLock, NormalMode, AtIntegrity, Running
<1>9. CASE ReadVoice(r)
  <2>1. /\ snap'[r].settings # None
        /\ \A q \in Requests \ {r} : snap'[q] = snap[q]
    BY <1>2, <1>9 DEF ReadVoice, IInv, TypeOK, Options
  <2>. QED
    BY <1>2, <1>9, <2>1, OthersHandled
       DEF ReadVoice, IInv, CommittedBeforeLock, NormalMode, AtIntegrity, Running
<1>10. CASE SetOptions(r)
  BY <1>2, <1>10, OthersHandled
     DEF SetOptions, IInv, CommittedBeforeLock, NormalMode, AtIntegrity, Running
<1>11. CASE SetKeys(r)
  BY <1>2, <1>11, OthersHandled
     DEF SetKeys, IInv, CommittedBeforeLock, NormalMode, AtIntegrity, Running
<1>12. CASE SetAdmin(r)
  BY <1>2, <1>12, OthersHandled
     DEF SetAdmin, IInv, CommittedBeforeLock, NormalMode, AtIntegrity, Running
<1>13. CASE ClearErr(r)
  BY <1>2, <1>13, OthersHandled
     DEF ClearErr, IInv, CommittedBeforeLock, NormalMode, AtIntegrity, Running
<1>14. CASE CheckLock(r)
  <2>1. PICK step \in {"failed", "rename_lock"} : GoTo(r, step)
    BY <1>14 DEF CheckLock
  <2>. QED
    BY <1>2, <1>14, <2>1, OthersHandled
       DEF CheckLock, IInv, CommittedBeforeLock, NormalMode, AtIntegrity, Running
<1>15. CASE RenameLock(r)
  BY <1>2, <1>15, OthersHandled
     DEF RenameLock, IInv, CommittedBeforeLock, NormalMode, AtIntegrity, Running
<1>16. CASE CreateLockFails(r)
  BY <1>2, <1>16, OthersHandled
     DEF CreateLockFails, IInv, CommittedBeforeLock, NormalMode, AtIntegrity, Running
<1>17. CASE EnterNormal(r)
  BY <1>2, <1>17, OthersHandled
     DEF EnterNormal, IInv, CommittedBeforeLock, NormalMode, AtIntegrity, Running
<1>. QED
  BY <1>4, <1>5, <1>6, <1>7, <1>8, <1>9, <1>10, <1>11, <1>12, <1>13, <1>14, <1>15, <1>16,
     <1>17 DEF Handle

\* Every step keeps the invariant.
LEMMA InvStep == IInv /\ [Next]_vars => IInv'
<1>1. CASE UNCHANGED vars
  BY <1>1 DEF vars, disk, memory, handlers, budgets, IInv, TypeOK, CommittedBeforeLock,
              HandledWhileRunning, NormalMode, AtIntegrity, Running
<1>2. ASSUME IInv, Next PROVE IInv'
  <2>1. TypeOK'
    BY <1>2, TypeStep DEF IInv
  <2>2. CASE BootStep
    BY <1>2, <2>1, <2>2, BootInv DEF IInv
  <2>3. CASE Checkpoint \/ Shutdown \/ Exit \/ Crash \/ Damage
    BY <1>2, <2>1, <2>3, StopOrDamageInv DEF IInv
  <2>4. ASSUME NEW r \in Requests, Submit(r) PROVE IInv'
    BY <1>2, <2>1, <2>4, SubmitInv DEF IInv
  <2>5. ASSUME NEW r \in Requests, Handle(r) PROVE IInv'
    BY <1>2, <2>1, <2>5, HandleInv DEF IInv
  <2>. QED
    BY <1>2, <2>2, <2>3, <2>4, <2>5 DEF Next
<1>. QED
  BY <1>1, <1>2

\* The invariant holds at first.
LEMMA InitInv == Init => IInv
  BY InitType DEF Init, IInv, CommittedBeforeLock, HandledWhileRunning, NormalMode,
                  AtIntegrity, InFlight

\* Hence it always holds.
LEMMA Inductive == Spec => []IInv
  BY InitInv, InvStep, PTL DEF Spec

(* Every variable keeps its type, whatever fails and however often the      *)
(* process is killed.                                                       *)
THEOREM TypeCorrect == Spec => []TypeOK
<1>1. IInv => TypeOK
  BY DEF IInv
<1>. QED
  BY <1>1, Inductive, PTL

(* The database is written before the lock: for any number of concurrent    *)
(* submissions, crashes, damages and I/O errors, a lock without a committed *)
(* configuration exists only after a repair has made a backup.              *)
THEOREM CommittedBeforeLockHolds == Spec => []CommittedBeforeLock
<1>1. IInv => CommittedBeforeLock
  BY DEF IInv
<1>. QED
  BY <1>1, Inductive, PTL

(* A service that answers in normal mode has a lock, a committed            *)
(* configuration and a store, under the same faults.                        *)
THEOREM NormalIsInstalledHolds == Spec => []NormalIsInstalled
<1>1. IInv => NormalIsInstalled
  BY DEF IInv, NormalMode, NormalIsInstalled
<1>. QED
  BY <1>1, Inductive, PTL

(* A service that answers in normal mode always has a key to check clients  *)
(* against, even when the load that should have set it has failed.          *)
THEOREM AuthNeverOpenHolds == Spec => []AuthNeverOpen
<1>1. IInv => AuthNeverOpen
  BY DEF IInv, NormalMode, AuthNeverOpen
<1>. QED
  BY <1>1, Inductive, PTL

-----------------------------------------------------------------------------
(* The administration can be reached.  A submission may end up in normal     *)
(* mode after a load that failed; with a sound database and no I/O error it  *)
(* does not fail, and what a submission has published stays published, for   *)
(* all that another one could put in its place is as good.                   *)

\* The store is closed by nothing but the shutdown.
ClosedLate == store = "closed" => boot = "draining"

\* What a submission has published when it gets to a step.
Published ==
  boot = "serving" /\ dbFile = "healthy" =>
    \A r \in Requests :
      /\ pc[r] \in {"set_keys", "set_admin", "clear_err", "stat_lock", "rename_lock", "set_mode"}
           => options.settings # None
      /\ pc[r] \in {"clear_err", "stat_lock", "rename_lock", "set_mode"} => admin # None
      /\ pc[r] \in {"stat_lock", "rename_lock", "set_mode"} => ~cfgErr

ReachInv == ClosedLate /\ AdminReachable /\ Published

\* A process that does not serve requests has nothing to show.
LEMMA NotServing ==
  ASSUME boot' # "serving", ClosedLate'
  PROVE  ReachInv'
  BY DEF ReachInv, AdminReachable, Published

\* Start-up keeps the invariant.
LEMMA BootReach ==
  ASSUME ~IOErrors, IInv, ReachInv, BootStep
  PROVE  ReachInv'
<1>. USE DEF disk, memory, handlers, budgets
<1>1. ~Running /\ store # "closed"
  BY DEF BootStep, StartProcess, OpenDb, OpenDbFails, Repair, RepairFails, StatLock,
         StatLockFails, IntegrityOk,
         IntegrityBad, DropLock, DropLockFails, BootLoad, BootLoadFails, BootNoStore, Running,
         ReachInv, ClosedLate
<1>2. ASSUME Fatal PROVE ReachInv'
  BY <1>2, NotServing DEF Fatal, Stop, ClosedLate
<1>3. CASE StartProcess \/ OpenDb \/ StatLock \/ StatLockFails \/ IntegrityOk \/ DropLock
           \/ DropLockFails
  BY <1>1, <1>2, <1>3, NotServing DEF StartProcess, OpenDb, StatLock, StatLockFails,
     IntegrityOk, DropLock, DropLockFails, ClosedLate
<1>4. CASE OpenDbFails \/ IntegrityBad \/ Repair \/ RepairFails
  BY <1>1, <1>2, <1>4, NotServing
     DEF OpenDbFails, IntegrityBad, Repair, RepairFails, BackupDb, ClosedLate
<1>5. ASSUME UNCHANGED pc PROVE \A r \in Requests : pc'[r] \notin InFlight
  BY <1>1, <1>5 DEF IInv, HandledWhileRunning
<1>6. ASSUME UNCHANGED pc PROVE Published'
  BY <1>5, <1>6 DEF Published, InFlight
<1>7. CASE BootLoad
  <2>1. options'.settings # None /\ admin' # None /\ cfgErr' = FALSE
    BY <1>7 DEF BootLoad
  <2>2. AdminReachable'
    BY <2>1 DEF AdminReachable
  <2>3. ClosedLate'
    BY <1>1, <1>7 DEF BootLoad, ClosedLate
  <2>. QED
    BY <1>6, <1>7, <2>2, <2>3 DEF BootLoad, ReachInv
<1>8. CASE BootLoadFails
  <2>1. CASE mode = "setup" /\ mode' = mode /\ UNCHANGED <<store, pc>>
    BY <1>1, <1>6, <2>1 DEF ReachInv, ClosedLate, AdminReachable
  <2>. QED
    BY <1>2, <1>8, <2>1 DEF BootLoadFails
<1>9. CASE BootNoStore
  <2>1. mode # "normal" /\ mode' = mode /\ UNCHANGED <<store, pc>>
    BY <1>9 DEF BootNoStore, IInv, NormalMode
  <2>. QED
    BY <1>1, <1>6, <2>1 DEF ReachInv, ClosedLate, AdminReachable
<1>. QED
  BY <1>3, <1>4, <1>7, <1>8, <1>9 DEF BootStep

\* So do shutdown, kills and damage.
LEMMA StopReach ==
  ASSUME IInv, ReachInv, Checkpoint \/ Shutdown \/ Exit \/ Crash \/ Damage
  PROVE  ReachInv'
<1>1. CASE Shutdown
  BY <1>1, NotServing DEF Shutdown, ClosedLate
<1>2. CASE Exit \/ Crash
  BY <1>2, NotServing DEF Exit, Crash, Stop, ClosedLate
<1>3. CASE Damage
  BY <1>3, NotServing DEF Damage, memory, ReachInv, ClosedLate
<1>4. CASE Checkpoint
  BY <1>4 DEF Checkpoint, memory, handlers, ReachInv, ClosedLate, AdminReachable, Published
<1>. QED
  BY <1>1, <1>2, <1>3, <1>4

\* A submission, admitted or not, publishes nothing yet.
LEMMA SubmitReach ==
  ASSUME IInv, ReachInv, NEW r \in Requests, Submit(r)
  PROVE  ReachInv'
<1>1. /\ UNCHANGED <<disk, boot, memory>>
      /\ \E step \in {"apply", "refused"} : GoTo(r, step)
  BY DEF Submit
<1>2. PICK step \in {"apply", "refused"} : pc' = [pc EXCEPT ![r] = step]
  BY <1>1 DEF GoTo
<1>3. \A q \in Requests : pc'[q] = IF q = r THEN step ELSE pc[q]
  BY <1>2 DEF IInv, TypeOK
<1>4. Published'
  BY <1>1, <1>2, <1>3 DEF Published, ReachInv, disk, memory
<1>5. ClosedLate' /\ AdminReachable'
  BY <1>1 DEF ReachInv, ClosedLate, AdminReachable, disk, memory
<1>. QED
  BY <1>4, <1>5 DEF ReachInv

\* The steps of a submission.
LEMMA HandleReach ==
  ASSUME ~IOErrors, IInv, ReachInv, NEW r \in Requests, Handle(r)
  PROVE  ReachInv'
<1>. USE DEF disk, memory, budgets
<1>1. pc[r] \in InFlight /\ UNCHANGED <<boot, store, dbFile>>
  BY DEF Handle, Apply, ApplyFails, SetAuth, ReadSettings, ReadSettingsFails, ReadVoice,
         SetOptions, SetKeys, SetAdmin, ClearErr, CheckLock, RenameLock, CreateLockFails,
         EnterNormal, InFlight
<1>2. store # "nil"
  BY <1>1 DEF IInv, HandledWhileRunning
<1>3. ClosedLate'
  BY <1>1 DEF ReachInv, ClosedLate
<1>4. CASE boot # "serving" \/ dbFile # "healthy"
  BY <1>1, <1>3, <1>4 DEF ReachInv, AdminReachable, Published
<1>5. CASE boot = "serving" /\ dbFile = "healthy"
  <2>1. store = "open" /\ ~QueryFail
    BY <1>2, <1>5 DEF ReachInv, ClosedLate, QueryFail, IInv, TypeOK
  <2>2. \A q \in Requests \ {r} : pc'[q] = pc[q]
    BY DEF Handle, Apply, ApplyFails, SetAuth, ReadSettings, ReadSettingsFails, ReadVoice,
         SetOptions, SetKeys, SetAdmin, ClearErr, CheckLock, RenameLock, CreateLockFails,
         EnterNormal, GoTo, IInv, TypeOK
  <2>3. ASSUME NEW p, GoTo(r, p) PROVE pc'[r] = p
    BY <2>3 DEF GoTo, IInv, TypeOK
  <2>4. CASE Apply(r) \/ ApplyFails(r) \/ SetAuth(r) \/ ReadSettings(r) \/ ReadVoice(r)
    <3>1. /\ pc'[r] \in {"set_auth", "failed", "read_settings", "read_voice", "set_options"}
          /\ UNCHANGED <<mode, options, admin, cfgErr>>
      BY <2>3, <2>4 DEF Apply, ApplyFails, SetAuth, ReadSettings, ReadVoice
    <3>2. Published'
      BY <1>1, <1>5, <2>2, <3>1 DEF ReachInv, Published
    <3>3. AdminReachable'
      BY <1>1, <3>1 DEF ReachInv, AdminReachable
    <3>. QED
      BY <1>3, <3>2, <3>3 DEF ReachInv
  <2>5. ~ReadSettingsFails(r)
    <3>1. pc[r] = "read_settings" => settings # None
      BY DEF IInv, HandledWhileRunning, Committed, InFlight
    <3>. QED
      BY <2>1, <3>1 DEF ReadSettingsFails
  <2>6. CASE SetOptions(r)
    <3>1. pc'[r] = "set_keys" /\ options'.settings # None /\ UNCHANGED <<mode, admin, cfgErr>>
      BY <2>3, <2>6 DEF SetOptions, IInv, HandledWhileRunning, InFlight, Loading
    <3>2. Published'
      BY <1>1, <1>5, <2>2, <3>1 DEF ReachInv, Published
    <3>3. AdminReachable'
      BY <1>1, <3>1 DEF ReachInv, AdminReachable
    <3>. QED
      BY <1>3, <3>2, <3>3 DEF ReachInv
  <2>7. CASE SetKeys(r)
    <3>1. /\ pc[r] = "set_keys" /\ pc'[r] = "set_admin"
          /\ UNCHANGED <<mode, options, admin, cfgErr>>
      BY <2>3, <2>7 DEF SetKeys
    <3>2. Published'
      BY <1>1, <1>5, <2>2, <3>1 DEF ReachInv, Published
    <3>3. AdminReachable'
      BY <1>1, <3>1 DEF ReachInv, AdminReachable
    <3>. QED
      BY <1>3, <3>2, <3>3 DEF ReachInv
  <2>8. CASE SetAdmin(r)
    <3>1. /\ pc[r] = "set_admin" /\ pc'[r] = "clear_err" /\ admin' # None
          /\ UNCHANGED <<mode, options, cfgErr>>
      BY <2>3, <2>8 DEF SetAdmin, IInv, HandledWhileRunning, InFlight, Loading
    <3>2. Published'
      BY <1>1, <1>5, <2>2, <3>1 DEF ReachInv, Published
    <3>3. AdminReachable'
      BY <1>1, <3>1 DEF ReachInv, AdminReachable
    <3>. QED
      BY <1>3, <3>2, <3>3 DEF ReachInv
  <2>9. CASE ClearErr(r)
    <3>1. /\ pc[r] = "clear_err" /\ pc'[r] = "stat_lock" /\ ~cfgErr'
          /\ UNCHANGED <<mode, options, admin>>
      BY <2>3, <2>9 DEF ClearErr
    <3>2. Published'
      BY <1>1, <1>5, <2>2, <3>1 DEF ReachInv, Published
    <3>3. AdminReachable'
      BY <1>1, <3>1 DEF ReachInv, AdminReachable
    <3>. QED
      BY <1>3, <3>2, <3>3 DEF ReachInv
  <2>10. CASE CheckLock(r) \/ RenameLock(r)
    <3>1. /\ pc[r] \in {"stat_lock", "rename_lock"}
          /\ pc'[r] \in {"failed", "rename_lock", "set_mode"}
          /\ UNCHANGED <<mode, options, admin, cfgErr>>
      BY <2>3, <2>10 DEF CheckLock, RenameLock
    <3>2. Published'
      BY <1>1, <1>5, <2>2, <3>1 DEF ReachInv, Published
    <3>3. AdminReachable'
      BY <1>1, <3>1 DEF ReachInv, AdminReachable
    <3>. QED
      BY <1>3, <3>2, <3>3 DEF ReachInv
  <2>11. CASE EnterNormal(r)
    <3>1. /\ pc[r] = "set_mode" /\ pc'[r] = "ok"
          /\ UNCHANGED <<options, admin, cfgErr>>
      BY <2>3, <2>11 DEF EnterNormal
    <3>2. options.settings # None /\ admin # None /\ ~cfgErr
      BY <1>5, <3>1 DEF ReachInv, Published
    <3>3. Published'
      BY <1>1, <1>5, <2>2, <3>1 DEF ReachInv, Published
    <3>4. AdminReachable'
      BY <3>1, <3>2 DEF AdminReachable
    <3>. QED
      BY <1>3, <3>3, <3>4 DEF ReachInv
  <2>12. ~CreateLockFails(r)
    BY DEF CreateLockFails
  <2>. QED
    BY <2>4, <2>5, <2>6, <2>7, <2>8, <2>9, <2>10, <2>11, <2>12 DEF Handle
<1>. QED
  BY <1>4, <1>5

(* When no system call fails on a sound file, a service in normal mode on   *)
(* a sound database has its admin credentials and its configuration: after  *)
(* a start as after a set-up, however submissions overlap and whenever the  *)
(* process is killed.                                                       *)
THEOREM AdminReachableHolds == ASSUME ~IOErrors PROVE Spec => []AdminReachable
<1>1. Init => ReachInv
  BY DEF Init, ReachInv, ClosedLate, AdminReachable, Published
<1>2. IInv /\ ReachInv /\ [Next]_vars => ReachInv'
  <2>1. CASE UNCHANGED vars
    BY <2>1 DEF vars, disk, memory, handlers, ReachInv, ClosedLate, AdminReachable, Published
  <2>2. ASSUME IInv, ReachInv, Next PROVE ReachInv'
    BY <2>2, BootReach, StopReach, SubmitReach, HandleReach DEF Next
  <2>. QED
    BY <2>1, <2>2
<1>3. ReachInv => AdminReachable
  BY DEF ReachInv
<1>. QED
  BY <1>1, <1>2, <1>3, Inductive, PTL DEF Spec

-----------------------------------------------------------------------------
(* What is lost with a log.  While no process has been killed, the file has  *)
(* everything that is in the log, but for the time between a commit and the  *)
(* closing of the store that serves.                                         *)

\* The store is open between store.Open and the shutdown only, and its file can
\* be read.
OpenReadable ==
  /\ boot \in {"down", "open"} => store = "nil"
  /\ boot = "draining" => store # "open"
  /\ store # "nil" => dbFile # "unreadable"

SettledInv ==
  crashes = 0 =>
    /\ stranded = {}
    /\ boot # "serving" \/ store # "open" => filed = settings

\* No step opens the store but store.Open; only a stopped service is damaged.
LEMMA OpenReadableStep == IInv /\ OpenReadable /\ Next => OpenReadable'
<1>. SUFFICES ASSUME IInv, OpenReadable, Next PROVE OpenReadable'
  OBVIOUS
<1>. USE DEF disk, memory, handlers, budgets, OpenReadable
<1>1. CASE StartProcess \/ OpenDb \/ OpenDbFails \/ Repair \/ RepairFails \/ StatLock
           \/ StatLockFails
  BY <1>1 DEF StartProcess, OpenDb, OpenDbFails, Repair, RepairFails, BackupDb, StatLock,
              StatLockFails, Fatal, Stop
<1>2. CASE IntegrityOk \/ IntegrityBad \/ DropLock \/ DropLockFails
  BY <1>2 DEF IntegrityOk, IntegrityBad, DropLock, DropLockFails, Fatal, Stop
<1>3. CASE BootLoad \/ BootLoadFails \/ BootNoStore
  BY <1>3 DEF BootLoad, BootLoadFails, BootNoStore, Fatal, Stop
<1>4. CASE Checkpoint \/ Shutdown \/ Exit \/ Crash \/ Damage
  BY <1>4 DEF Checkpoint, Shutdown, Exit, Crash, Damage, Stop
<1>5. ASSUME NEW r \in Requests, Submit(r) \/ Handle(r) PROVE OpenReadable'
  BY <1>5 DEF Submit, Handle, Apply, ApplyFails, SetAuth, ReadSettings, ReadSettingsFails,
     ReadVoice, SetOptions, SetKeys, SetAdmin, ClearErr, CheckLock, RenameLock,
     CreateLockFails, EnterNormal
<1>. QED
  BY <1>1, <1>2, <1>3, <1>4, <1>5 DEF Next, BootStep

\* Start-up writes nothing, and closes only what it has not written to.
LEMMA BootSettled ==
  ASSUME SettledInv, BootStep
  PROVE  SettledInv'
<1>. USE DEF disk, memory, handlers, budgets, SettledInv
<1>1. boot # "serving"
  BY DEF BootStep, StartProcess, OpenDb, OpenDbFails, Repair, RepairFails, StatLock,
         StatLockFails, IntegrityOk, IntegrityBad, DropLock, DropLockFails, BootLoad,
         BootLoadFails, BootNoStore
<1>2. crashes' = crashes
  BY DEF BootStep, StartProcess, OpenDb, OpenDbFails, Repair, RepairFails, StatLock,
         StatLockFails, IntegrityOk, IntegrityBad, DropLock, DropLockFails, BootLoad,
         BootLoadFails, BootNoStore, Fatal
<1>3. ASSUME UNCHANGED <<filed, settings, stranded>> PROVE SettledInv'
  BY <1>1, <1>2, <1>3
<1>4. CASE OpenDbFails \/ IntegrityBad \/ StatLockFails
  BY <1>1, <1>2, <1>4 DEF OpenDbFails, IntegrityBad, StatLockFails, CloseDb
<1>5. CASE Repair
  BY <1>1, <1>2, <1>5 DEF Repair, BackupDb
<1>6. CASE StartProcess \/ OpenDb \/ RepairFails \/ StatLock \/ IntegrityOk \/ DropLock
           \/ DropLockFails
  BY <1>3, <1>6 DEF StartProcess, OpenDb, RepairFails, StatLock, IntegrityOk, DropLock,
                    DropLockFails, Fatal
<1>7. CASE BootLoad \/ BootLoadFails \/ BootNoStore
  BY <1>3, <1>7 DEF BootLoad, BootLoadFails, BootNoStore, Fatal
<1>. QED
  BY <1>4, <1>5, <1>6, <1>7 DEF BootStep

\* The shutdown closes what has been written to; only a kill does not.
LEMMA StopSettled ==
  ASSUME ~IOErrors, ~Contention, IInv, OpenReadable, SettledInv,
         Checkpoint \/ Shutdown \/ Exit \/ Crash \/ Damage
  PROVE  SettledInv'
<1>. USE DEF disk, memory, handlers, budgets, SettledInv
<1>1. CASE Checkpoint
  BY <1>1 DEF Checkpoint
<1>2. CASE Shutdown
  <2>1. store = "open" => filed' = settings
    BY <1>2 DEF Shutdown, CloseDb, OpenReadable
  <2>. QED
    BY <1>2, <2>1 DEF Shutdown
<1>3. CASE Exit
  BY <1>3 DEF Exit, OpenReadable
<1>4. CASE Crash
  <2>1. crashes \in Nat /\ crashes' = crashes + 1
    BY <1>4, InstallAssumption DEF Crash, IInv, TypeOK
  <2>. QED
    BY <2>1
<1>5. CASE Damage
  BY <1>5 DEF Damage
<1>. QED
  BY <1>1, <1>2, <1>3, <1>4, <1>5

\* A submission commits while the service serves and its store is open.
LEMMA HandlerSettled ==
  ASSUME IInv, OpenReadable, SettledInv, NEW r \in Requests, Submit(r) \/ Handle(r)
  PROVE  SettledInv'
<1>. USE DEF disk, memory, budgets, SettledInv
<1>1. CASE Apply(r)
  <2>1. Running /\ store = "open"
    BY <1>1 DEF Apply, QueryOk, IInv, HandledWhileRunning, InFlight
  <2>2. boot = "serving"
    BY <2>1 DEF Running, OpenReadable
  <2>. QED
    BY <1>1, <2>1, <2>2 DEF Apply
<1>2. CASE UNCHANGED <<filed, settings, stranded, boot, store, crashes>>
  BY <1>2
<1>. QED
  BY <1>1, <1>2
     DEF Submit, Handle, ApplyFails, SetAuth, ReadSettings, ReadSettingsFails, ReadVoice,
         SetOptions, SetKeys, SetAdmin, ClearErr, CheckLock, RenameLock, CreateLockFails,
         EnterNormal

(* When no call fails and no other process has the file, nothing is left    *)
(* behind in a log by a process that was not killed: whatever start-up      *)
(* renames has all that was committed to it.                                *)
THEOREM NothingStrandedHolds ==
  ASSUME ~IOErrors, ~Contention
  PROVE  Spec => []NothingStranded
<1>1. Init => OpenReadable /\ SettledInv
  BY DEF Init, OpenReadable, SettledInv
<1>2. IInv /\ OpenReadable /\ SettledInv /\ [Next]_vars => (OpenReadable /\ SettledInv)'
  <2>1. CASE UNCHANGED vars
    BY <2>1 DEF vars, disk, memory, budgets, OpenReadable, SettledInv
  <2>2. ASSUME IInv, OpenReadable, SettledInv, Next PROVE OpenReadable' /\ SettledInv'
    BY <2>2, OpenReadableStep, BootSettled, StopSettled, HandlerSettled DEF Next
  <2>. QED
    BY <2>1, <2>2
<1>3. SettledInv => NothingStranded
  BY DEF SettledInv, NothingStranded
<1>. QED
  BY <1>1, <1>2, <1>3, Inductive, PTL DEF Spec

=============================================================================
