-------------------------- MODULE RestWorkerProofs --------------------------
(* Proofs about RestWorker for every set of tasks, every set of posted     *)
(* declarations, every choice of faults and any number of restarts.        *)
EXTENDS RestWorker, TLAPS

-----------------------------------------------------------------------------
(* What the helpers do to the task table *)

LEMMA RecordType ==
  ASSUME TypeOK, NEW t \in Task
  PROVE  /\ mem[t] \in TaskRecord
         /\ mem[t].status \in Status /\ mem[t].currentConfig \in Config
         /\ mem[t].declaration \in Declaration
         /\ ctx[t].rollbackTo \in Config
BY DEF TypeOK, TaskRecord, Context

LEMMA UpdateResultType ==
  ASSUME TypeOK, NEW t \in Task, NEW s \in Status, NEW m \in Message, UpdateResult(t, s, m)
  PROVE  mem' \in [Task -> TaskRecord]
<1>1. [mem[t] EXCEPT !.status = s, !.message = m] \in TaskRecord
  BY RecordType DEF TaskRecord
<1> QED BY <1>1 DEF TypeOK, UpdateResult

LEMMA GetCurrentConfigType ==
  ASSUME TypeOK, NEW t \in Task, GetCurrentConfig(t)
  PROVE  mem' \in [Task -> TaskRecord]
<1>1. device \in Config
  BY DEF TypeOK
<1>2. [mem[t] EXCEPT !.currentConfig = device] \in TaskRecord
  BY <1>1, RecordType DEF TaskRecord
<1> QED BY <1>2 DEF TypeOK, GetCurrentConfig

LEMMA SetRebootRequired ==
  ASSUME NEW record \in TaskRecord, NEW required \in BOOLEAN
  PROVE  [record EXCEPT !.rebootRequired = required] \in TaskRecord
BY Zenon DEF TaskRecord

LEMMA SetContext ==
  ASSUME NEW c \in Context
  PROVE  [c EXCEPT !.handler = TRUE] \in Context /\ [c EXCEPT !.resumed = TRUE] \in Context
BY Zenon DEF Context

(* Whether the table is saved or not, the table in storage has its type.   *)
LEMMA StoredType ==
  ASSUME TypeOK, mem' \in [Task -> TaskRecord], Save \/ NotSaved
  PROVE  /\ stored' \in [Task -> TaskRecord]
         /\ storedRecent' \in Task \cup {NoTask} /\ mostRecent' \in Task \cup {NoTask}
BY DEF TypeOK, Save, NotSaved

(* Nothing but a POST and a startup touches a declaration, and a status    *)
(* update never takes a task out of the table.                             *)
LEMMA UpdateResultKeeps ==
  ASSUME TypeOK, NEW t \in Task, NEW s \in Status \ {"absent"}, NEW m, UpdateResult(t, s, m),
         NEW u \in Task
  PROVE  /\ mem'[u].declaration = mem[u].declaration
         /\ mem'[u].status = "absent" => mem[u].status = "absent"
BY DEF TypeOK, UpdateResult, TaskRecord

LEMMA GetCurrentConfigKeeps ==
  ASSUME TypeOK, NEW t \in Task, GetCurrentConfig(t), NEW u \in Task
  PROVE  mem'[u].declaration = mem[u].declaration /\ mem'[u].status = mem[u].status
BY DEF TypeOK, GetCurrentConfig, TaskRecord

-----------------------------------------------------------------------------
(* Type correctness *)

LEMMA AcceptType ==
  ASSUME TypeOK, NEW t \in Task, Accept(t)
  PROVE  TypeOK'
<1> USE DEF PC, EarlyPC, OnboardPC
<1>1. CASE ValidateAccepts(t)
  <2>1. mem' \in [Task -> TaskRecord]
    BY <1>1, UpdateResultType DEF ValidateAccepts, Status, Message
  <2> QED BY <1>1, <2>1, StoredType
          DEF TypeOK, ValidateAccepts, Goto, clientVars, prepVars, deviceVars, auxVars
<1>2. CASE ValidateRejects(t)
  <2>1. mem' \in [Task -> TaskRecord]
    BY <1>2, UpdateResultType DEF ValidateRejects, Status, Message
  <2> QED BY <1>2, <2>1, StoredType
          DEF TypeOK, ValidateRejects, Goto, clientVars, prepVars, deviceVars, auxVars
<1>3. CASE ValidateThrows(t)
  BY <1>3, UpdateResultType
     DEF TypeOK, ValidateThrows, Goto, NotSaved, clientVars, prepVars, deviceVars, auxVars,
         Status, Message
<1>4. CASE ValidateSaveFails(t)
  <2>1. mem' \in [Task -> TaskRecord]
    BY <1>4, UpdateResultType DEF ValidateSaveFails, Status, Message
  <2> QED BY <1>4, <2>1, StoredType
          DEF TypeOK, ValidateSaveFails, Goto, clientVars, prepVars, deviceVars, auxVars
<1>5. CASE RespondBad(t)
    <2>1. response' \in [Task -> Answer]
      BY <1>5, RecordType DEF TypeOK, RespondBad, Answer
    <2> QED BY <1>5, <2>1 DEF TypeOK, RespondBad, Goto, storeVars, prepVars, deviceVars, auxVars
<1>6. CASE Platform(t)
    <2>1. response' \in [Task -> Answer]
      BY <1>6, RecordType DEF TypeOK, Platform, Answer
    <2> QED BY <1>6, <2>1 DEF TypeOK, Platform, Goto, storeVars, prepVars, deviceVars, auxVars
<1>7. CASE Account(t)
  BY <1>7
     DEF TypeOK, Account, Goto, storeVars, clientVars, prepVars, deviceVars, auxVars
<1>8. CASE FailEarly(t)
  BY <1>8, UpdateResultType
     DEF TypeOK, FailEarly, Goto, NotSaved, clientVars, prepVars, deviceVars, auxVars, Status,
         Message
<1>9. CASE InitBigIp(t)
  BY <1>9
     DEF TypeOK, InitBigIp, storeVars, clientVars, prepVars, deviceVars, auxVars, Context
<1>10. CASE InitBigIpFails(t)
  BY <1>10, UpdateResultType
     DEF TypeOK, InitBigIpFails, NotSaved, clientVars, prepVars, deviceVars, auxVars, Status,
         Message
<1> QED BY <1>1, <1>2, <1>3, <1>4, <1>5, <1>6, <1>7, <1>8, <1>9, <1>10 DEF Accept

LEMMA OnboardType ==
  ASSUME TypeOK, NEW t \in Task, Onboard(t)
  PROVE  TypeOK'
<1> USE DEF PC, EarlyPC, OnboardPC, ProcessPC, RollbackPC, TailPC
<1>1. CASE GetConfig(t)
  <2>1. mem' \in [Task -> TaskRecord]
    BY <1>1, GetCurrentConfigType DEF GetConfig
  <2>2. ctx' \in [Task -> Context]
    <3>1. [ctx[t] EXCEPT !.handler = TRUE] \in Context
      <4>1. ctx[t] \in Context
        BY DEF TypeOK
      <4> QED BY <4>1, SetContext
    <3> QED BY <1>1, <3>1 DEF TypeOK, GetConfig
  <2> QED BY <1>1, <2>1, <2>2, StoredType
          DEF TypeOK, GetConfig, Goto, prepVars, deviceVars, clientVars, auxVars
<1>2. CASE Process(t)
    <2>1. mem' \in [Task -> TaskRecord]
      <3>1. CASE Dry(t)
        <4>1. mem' = [mem EXCEPT ![t] = [mem[t] EXCEPT !.rebootRequired = FALSE]]
          BY <1>2, <3>1 DEF Process
        <4>2. [mem[t] EXCEPT !.rebootRequired = FALSE] \in TaskRecord
          BY RecordType, SetRebootRequired
        <4> QED BY <4>1, <4>2 DEF TypeOK
      <3>2. CASE ~Dry(t)
        BY <1>2, <3>2 DEF TypeOK, Process
      <3> QED BY <3>1, <3>2
    <2>2. pc' \in [Task -> PC]
      BY <1>2 DEF TypeOK, Process, Goto
    <2> QED BY <1>2, <2>1, <2>2, StoredType
            DEF TypeOK, Process, Goto, prepVars, deviceVars, clientVars, auxVars
<1>3. CASE ApplySystem(t)
  BY <1>3
     DEF TypeOK, ApplySystem, Goto, storeVars, clientVars, prepVars, auxVars, Config, Owner
<1>4. CASE License(t)
  BY <1>4
     DEF TypeOK, License, Goto, storeVars, clientVars, deviceVars, auxVars
<1>5. CASE Revoke(t)
  BY <1>5
     DEF TypeOK, Revoke, Goto, storeVars, clientVars, prepVars
<1>6. CASE Relicense(t)
  BY <1>6
     DEF TypeOK, Relicense, Goto, storeVars, clientVars, prepVars, deviceVars, auxVars
<1>7. CASE Disk(t)
  <2>1. pc' \in [Task -> PC] /\ diskCommand' \in BOOLEAN
    BY <1>7 DEF TypeOK, Disk, Goto
  <2> QED BY <1>7, <2>1 DEF TypeOK, Disk, Goto, storeVars, prepVars, clientVars, auxVars
<1>8. CASE DiskSave(t)
    <2>1. mem' \in [Task -> TaskRecord]
      <3>1. mem' = [mem EXCEPT ![t] = [mem[t] EXCEPT !.rebootRequired = TRUE]]
        BY <1>8 DEF DiskSave
      <3>2. [mem[t] EXCEPT !.rebootRequired = TRUE] \in TaskRecord
        BY RecordType, SetRebootRequired
      <3> QED BY <3>1, <3>2 DEF TypeOK
    <2>2. rebPrep' \in [Task -> {"idle", "save", "mark", "reboot"}]
      BY <1>8 DEF TypeOK, DiskSave
    <2>3. Save \/ NotSaved
      BY <1>8 DEF DiskSave
    <2> QED BY <1>8, <2>1, <2>2, <2>3, StoredType DEF TypeOK, DiskSave, Goto, clientVars, auxVars
<1>9. CASE ApplyRest(t)
    <2>1. PICK pending, required \in BOOLEAN :
            /\ rebootPending' = (rebootPending \/ pending)
            /\ mem' = [mem EXCEPT ![t] = [@ EXCEPT !.rebootRequired = required]]
      BY <1>9 DEF ApplyRest
    <2>2. mem' \in [Task -> TaskRecord]
      <3>1. [mem[t] EXCEPT !.rebootRequired = required] \in TaskRecord
        BY RecordType, SetRebootRequired
      <3> QED BY <2>1, <3>1 DEF TypeOK
    <2>3. rebootPending' \in BOOLEAN
      BY <2>1
    <2>4. device' \in Config
      BY <1>9 DEF TypeOK, ApplyRest, Config, Owner
    <2> QED BY <1>9, <2>2, <2>3, <2>4, StoredType
            DEF TypeOK, ApplyRest, Goto, prepVars, clientVars, auxVars
<1>10. CASE SysSave(t)
  BY <1>10
     DEF TypeOK, SysSave, Goto, SaveConfig, storeVars, clientVars, prepVars, auxVars
<1>11. CASE CheckReboot(t)
  BY <1>11
     DEF TypeOK, CheckReboot, Goto, storeVars, clientVars, prepVars, deviceVars, auxVars
<1>12. CASE FailOnboard(t)
    <2>1. mem' \in [Task -> TaskRecord]
      BY <1>12, UpdateResultType DEF FailOnboard, Status, Message
    <2>2. pc' \in [Task -> PC]
      <3>1. pc' = [pc EXCEPT ![t] = "rbGet"] \/ pc' = [pc EXCEPT ![t] = "finalSave"]
        BY <1>12 DEF FailOnboard
      <3> QED BY <3>1 DEF TypeOK
    <2>3. ctx' \in [Task -> Context]
      <3>1. CASE ctx' = [ctx EXCEPT ![t].rollbackTo = mem[t].currentConfig]
        <4>1. [ctx[t] EXCEPT !.rollbackTo = mem[t].currentConfig] \in Context
          BY RecordType DEF TypeOK, Context
        <4> QED BY <3>1, <4>1 DEF TypeOK
      <3> QED BY <1>12, <3>1 DEF TypeOK, FailOnboard
    <2>4. Save \/ NotSaved
      BY <1>12 DEF FailOnboard
    <2> QED BY <1>12, <2>1, <2>2, <2>3, <2>4, StoredType
            DEF TypeOK, FailOnboard, prepVars, deviceVars, clientVars, auxVars
<1> QED BY <1>1, <1>2, <1>3, <1>4, <1>5, <1>6, <1>7, <1>8, <1>9, <1>10, <1>11, <1>12 DEF Onboard

LEMMA RollbackType ==
  ASSUME TypeOK, NEW t \in Task, Rollback(t)
  PROVE  TypeOK'
<1> USE DEF PC, EarlyPC, OnboardPC, ProcessPC, RollbackPC, TailPC
<1>1. CASE RollbackGet(t)
  BY <1>1, GetCurrentConfigType
     DEF TypeOK, RollbackGet, Goto, Save, clientVars, prepVars, deviceVars, auxVars
<1>2. CASE RollbackSystem(t)
    <2>1. device' \in Config
      BY <1>2, RecordType DEF TypeOK, RollbackSystem, Config
    <2> QED BY <1>2, <2>1 DEF TypeOK, RollbackSystem, Goto, storeVars, prepVars, clientVars, auxVars
<1>3. CASE RollbackRest(t)
    <2>1. device' \in Config
      BY <1>3, RecordType DEF TypeOK, RollbackRest, Config
    <2>2. rebootPending' \in BOOLEAN
      BY <1>3 DEF TypeOK, RollbackRest
    <2> QED BY <1>3, <2>1, <2>2
            DEF TypeOK, RollbackRest, Goto, storeVars, prepVars, clientVars, auxVars
<1>4. CASE RollbackGet2(t)
  BY <1>4, GetCurrentConfigType
     DEF TypeOK, RollbackGet2, Goto, Save, clientVars, prepVars, deviceVars, auxVars
<1>5. CASE RollbackReport(t)
  BY <1>5, UpdateResultType
     DEF TypeOK, RollbackReport, Goto, Save, clientVars, prepVars, deviceVars, auxVars, Status,
         Message
<1>6. CASE FailRollback(t)
  BY <1>6, UpdateResultType
     DEF TypeOK, FailRollback, Goto, NotSaved, clientVars, prepVars, deviceVars, auxVars,
         Status, Message
<1> QED BY <1>1, <1>2, <1>3, <1>4, <1>5, <1>6 DEF Rollback

LEMMA FinishType ==
  ASSUME TypeOK, NEW t \in Task, Finish(t)
  PROVE  TypeOK'
<1> USE DEF PC, EarlyPC, OnboardPC, ProcessPC, RollbackPC, TailPC
<1>1. CASE FinalSave(t)
  BY <1>1
     DEF TypeOK, FinalSave, Goto, SaveConfig, storeVars, clientVars, prepVars, auxVars
<1>2. CASE PostGet(t)
  BY <1>2, GetCurrentConfigType
     DEF TypeOK, PostGet, Goto, Save, clientVars, prepVars, deviceVars, auxVars
<1>3. CASE PostStatus(t)
  BY <1>3, UpdateResultType
     DEF TypeOK, PostStatus, Goto, Save, clientVars, prepVars, deviceVars, auxVars, Status,
         Message
<1>4. CASE Respond(t)
    <2>1. response' \in [Task -> Answer]
      BY <1>4, RecordType DEF TypeOK, Respond, Answer
    <2> QED BY <1>4, <2>1 DEF TypeOK, Respond, Goto, storeVars, prepVars, deviceVars, auxVars
<1>5. CASE RebootIfRequired(t)
  BY <1>5
     DEF TypeOK, RebootIfRequired, Goto, storeVars, clientVars, prepVars, auxVars
<1>6. CASE RebootCheckHangs(t)
  BY <1>6
     DEF TypeOK, RebootCheckHangs, Goto, storeVars, clientVars, prepVars, deviceVars, auxVars
<1>7. CASE FailTail(t)
  BY <1>7, UpdateResultType
     DEF TypeOK, FailTail, Goto, NotSaved, clientVars, prepVars, deviceVars, auxVars, Status,
         Message
<1>8. CASE PostWebhook(t)
    <2>1. webhooks' \in [Task -> SUBSET Status]
      BY <1>8, RecordType DEF TypeOK, PostWebhook
    <2> QED BY <1>8, <2>1 DEF TypeOK, PostWebhook, Goto, storeVars, prepVars, deviceVars, auxVars
<1> QED BY <1>1, <1>2, <1>3, <1>4, <1>5, <1>6, <1>7, <1>8 DEF Finish

LEMMA ListenerType ==
  ASSUME TypeOK, NEW t \in Task, Listener(t)
  PROVE  TypeOK'
<1> USE DEF PC, EarlyPC, OnboardPC, ProcessPC, RollbackPC, TailPC
<1>1. CASE PrepSave(t)
  BY <1>1
     DEF TypeOK, PrepSave, storeVars, clientVars, auxVars
<1>2. CASE PrepMark(t)
  BY <1>2, UpdateResultType
     DEF TypeOK, PrepMark, Save, clientVars, deviceVars, auxVars, Status, Message
<1>3. CASE EmitReady(t)
  BY <1>3
     DEF TypeOK, EmitReady, storeVars, clientVars, deviceVars, auxVars
<1>4. CASE RebootNow(t)
  BY <1>4
     DEF TypeOK, RebootNow, storeVars, clientVars, auxVars
<1>5. CASE PrepFails(t)
  <2>1. mem' \in [Task -> TaskRecord]
    BY <1>5, UpdateResultType DEF TypeOK, PrepFails, Status, Message
  <2>2. /\ revPrep' \in [Task -> {"idle", "save", "mark", "ready"}]
        /\ rebPrep' \in [Task -> {"idle", "save", "mark", "reboot"}]
    BY <1>5 DEF TypeOK, PrepFails
  <2> QED BY <1>5, <2>1, <2>2, StoredType DEF TypeOK, PrepFails, deviceVars, clientVars, auxVars
<1> QED BY <1>1, <1>2, <1>3, <1>4, <1>5 DEF Listener

LEMMA PostType ==
  ASSUME TypeOK, NEW t \in Task, NEW d \in Declarations, Post(t, d)
  PROVE  TypeOK'
<1>1. mem' \in [Task -> TaskRecord]
  BY ConstantsAssumption
     DEF TypeOK, Post, TaskRecord, NoRecord, NoConfig, Config, Status, Message
<1>2. ctx' \in [Task -> Context] /\ found' \in [Task -> Config]
  BY DEF TypeOK, Post, Context, NoContext, NoConfig, Config
<1>3. pc' \in [Task -> PC]
  BY DEF TypeOK, Post, PC
<1> QED BY <1>1, <1>2, <1>3 DEF TypeOK, Post, prepVars, deviceVars, clientVars

(* What an unreadable body leaves in the table, and leaves alone.          *)
LEMMA PostUnreadableSets ==
  ASSUME TypeOK, NEW t \in Task, PostUnreadable(t)
  PROVE  /\ mem' \in [Task -> TaskRecord]
         /\ mem[t].status = "absent"
         /\ mem'[t].status = "ERROR" /\ mem'[t].message = "bad declaration"
         /\ mem'[t].declaration = NoDeclaration /\ mem'[t].currentConfig = NoConfig
         /\ pc'[t] = "done" /\ up /\ mostRecent' = t
         /\ response[t] = "none" /\ response' = [response EXCEPT ![t] = "unreadable"]
         /\ \A u \in Task \ {t} : mem'[u] = mem[u] /\ pc'[u] = pc[u] /\ ctx'[u] = ctx[u]
         /\ UNCHANGED <<up, stored, storedRecent, prepVars, deviceVars, auxVars>>
<1> DEFINE record == [NoRecord EXCEPT !.status = "ERROR", !.message = "bad declaration"]
<1>1. /\ record.status = "ERROR" /\ record.message = "bad declaration"
      /\ record.declaration = NoDeclaration /\ record.currentConfig = NoConfig
  BY DEF NoRecord
<1>2. NoDeclaration \in Declaration /\ NoConfig \in Config
  BY DEF NoDeclaration, Declaration, NoConfig, Config
<1>3. record \in TaskRecord
  BY <1>2 DEF NoRecord, TaskRecord, Status, Message
<1>4. /\ mem' = [mem EXCEPT ![t] = record]
      /\ pc' = [pc EXCEPT ![t] = "done"] /\ ctx' = [ctx EXCEPT ![t] = NoContext]
      /\ response' = [response EXCEPT ![t] = "unreadable"]
      /\ mostRecent' = t /\ NewId(t)
      /\ UNCHANGED <<up, stored, storedRecent, prepVars, deviceVars, auxVars>>
  BY DEF PostUnreadable
<1> HIDE DEF record
<1>5. /\ mem' \in [Task -> TaskRecord] /\ mem'[t] = record
      /\ \A u \in Task \ {t} : mem'[u] = mem[u]
  BY <1>3, <1>4 DEF TypeOK
<1>6. pc'[t] = "done" /\ \A u \in Task \ {t} : pc'[u] = pc[u] /\ ctx'[u] = ctx[u]
  BY <1>4 DEF TypeOK
<1> QED BY <1>1, <1>4, <1>5, <1>6 DEF NewId

LEMMA PostUnreadableType ==
  ASSUME TypeOK, NEW t \in Task, PostUnreadable(t)
  PROVE  TypeOK'
<1>1. mem' \in [Task -> TaskRecord]
  BY PostUnreadableSets
<1>2. ctx' \in [Task -> Context] /\ pc' \in [Task -> PC]
  BY DEF TypeOK, PostUnreadable, Context, NoContext, NoConfig, Config, PC
<1>3. response' \in [Task -> Answer]
  BY DEF TypeOK, PostUnreadable, Answer
<1> QED BY <1>1, <1>2, <1>3 DEF TypeOK, PostUnreadable, prepVars, deviceVars, auxVars

LEMMA LoseProcessType ==
  ASSUME TypeOK, LoseProcess
  PROVE  /\ up' \in BOOLEAN
         /\ mem' \in [Task -> TaskRecord] /\ mostRecent' \in Task \cup {NoTask}
         /\ stored' \in [Task -> TaskRecord] /\ storedRecent' \in Task \cup {NoTask}
         /\ pc' \in [Task -> PC] /\ ctx' \in [Task -> Context]
         /\ waiter' \in Task \cup {NoTask}
         /\ revPrep' \in [Task -> {"idle", "save", "mark", "ready"}]
         /\ rebPrep' \in [Task -> {"idle", "save", "mark", "reboot"}]
         /\ response' \in [Task -> Answer] /\ webhooks' \in [Task -> SUBSET Status]
         /\ revokes' \in [Task -> Nat] /\ found' \in [Task -> Config]
BY DEF TypeOK, LoseProcess, clientVars, PC, Context, NoContext, Config, NoConfig

LEMMA StartupType ==
  ASSUME TypeOK, Startup
  PROVE  TypeOK'
<1>1. CASE mostRecent \in Task /\ mem[mostRecent].status = "REBOOTING"
  <2>1. mem' \in [Task -> TaskRecord]
    BY <1>1, UpdateResultType DEF Startup, Status, Message, ResumedStatus
  <2>2. webhooks' \in [Task -> SUBSET Status]
    BY <1>1 DEF TypeOK, Startup, Status, ResumedStatus
  <2>3. Save \/ NotSaved
    BY <1>1 DEF Startup, ResumedStatus
  <2> QED BY <1>1, <2>1, <2>2, <2>3, StoredType
          DEF TypeOK, Startup, ResumedStatus, prepVars, deviceVars, auxVars
<1>2. CASE mostRecent \in Task /\ mem[mostRecent].status \in ResumedStatus
  <2> DEFINE d == WithoutRevoke(mem[mostRecent].declaration)
             r == [mem[mostRecent] EXCEPT !.status = "RUNNING", !.message = "processing",
                                          !.declaration = d]
  <2>1. mem[mostRecent].status # "REBOOTING"
    BY <1>2 DEF ResumedStatus
  <2>2. /\ mem' = [mem EXCEPT ![mostRecent] = r]
        /\ pc' = [pc EXCEPT ![mostRecent] = "resumeInit"]
        /\ ctx' = [ctx EXCEPT ![mostRecent].resumed = TRUE]
        /\ Save \/ NotSaved
    BY <1>2, <2>1 DEF Startup
  <2>3. r \in TaskRecord
    <3>1. d \in Declaration
      BY <1>2, RecordType DEF Declaration, WithoutRevoke
    <3> HIDE DEF d
    <3> QED BY <1>2, <3>1, RecordType DEF TaskRecord, Status, Message
  <2>4. [ctx[mostRecent] EXCEPT !.resumed = TRUE] \in Context
    <3>1. ctx[mostRecent] \in Context
      BY <1>2 DEF TypeOK
    <3> QED BY <3>1, SetContext
  <2>5. mem' \in [Task -> TaskRecord] /\ pc' \in [Task -> PC] /\ ctx' \in [Task -> Context]
    <3> HIDE DEF r, d
    <3> QED BY <2>2, <2>3, <2>4 DEF TypeOK, PC
  <2> HIDE DEF r, d
  <2>6. UNCHANGED webhooks
    BY <1>2, <2>1 DEF Startup
  <2> QED BY <2>2, <2>5, <2>6, StoredType DEF TypeOK, Startup, prepVars, deviceVars, auxVars
<1>3. CASE mostRecent \in Task => mem[mostRecent].status \notin ResumedStatus \cup {"REBOOTING"}
  BY <1>3 DEF TypeOK, Startup, storeVars, prepVars, deviceVars, auxVars
<1> QED BY <1>1, <1>2, <1>3

LEMMA EnvironmentType ==
  ASSUME TypeOK, Environment
  PROVE  TypeOK'
<1>1. CASE ServiceRestart
  <2>1. faults' \in Nat
    BY <1>1 DEF TypeOK, ServiceRestart, Faulty
  <2> QED BY <1>1, <2>1, LoseProcessType DEF TypeOK, ServiceRestart
<1>2. CASE DeviceReboot
  <2>1. faults' \in Nat
    BY <1>2 DEF TypeOK, DeviceReboot, Faulty
  <2>2. device' \in Config
    BY <1>2 DEF TypeOK, DeviceReboot, Config
  <2> QED BY <1>2, <2>1, <2>2, LoseProcessType DEF TypeOK, DeviceReboot
<1>3. CASE Startup
  BY <1>3, StartupType
<1>4. CASE DiskCommandEnds
  <2>1. device' \in Config
    BY <1>4 DEF TypeOK, DiskCommandEnds, Config
  <2> QED BY <1>4, <2>1 DEF TypeOK, DiskCommandEnds, storeVars, prepVars, clientVars, auxVars
<1> QED BY <1>1, <1>2, <1>3, <1>4 DEF Environment

LEMMA InitType == Init => TypeOK
<1> SUFFICES ASSUME Init PROVE TypeOK
  OBVIOUS
<1>1. NoDeclaration \in Declaration
  BY DEF NoDeclaration, Declaration
<1>2. NoConfig \in Config /\ FactoryConfig \in Config
  BY DEF NoConfig, FactoryConfig, Config, Owner
<1>3. NoRecord \in TaskRecord
  BY <1>1, <1>2 DEF NoRecord, TaskRecord, Status, Message
<1>4. NoContext \in Context
  BY <1>2 DEF NoContext, Context
<1> QED BY <1>2, <1>3, <1>4 DEF Init, TypeOK, Status, Answer, PC

LEMMA NextType == TypeOK /\ [Next]_vars => TypeOK'
<1> SUFFICES ASSUME TypeOK, [Next]_vars PROVE TypeOK'
  OBVIOUS
<1>1. CASE \E t \in Task, d \in Declarations : Post(t, d)
  BY <1>1, PostType
<1>2. ASSUME NEW t \in Task, PostUnreadable(t) \/ Chain(t) PROVE TypeOK'
  BY <1>2, PostUnreadableType, AcceptType, OnboardType, RollbackType, FinishType DEF Chain
<1>3. ASSUME NEW t \in Task, Listener(t) PROVE TypeOK'
  BY <1>3, ListenerType
<1>4. CASE Environment
  BY <1>4, EnvironmentType
<1>5. CASE UNCHANGED vars
  BY <1>5 DEF TypeOK, vars, storeVars, prepVars, deviceVars, clientVars, auxVars
<1> QED BY <1>1, <1>2, <1>3, <1>4, <1>5 DEF Next

(* Every variable of the worker keeps its type: in particular a task's     *)
(* record, wherever it is, has one of the statuses of the program, and a   *)
(* promise chain is always at one of its awaits.                           *)
THEOREM TypeCorrect == Spec => []TypeOK
<1>1. Init => TypeOK
  BY InitType
<1>2. TypeOK /\ [Next]_vars => TypeOK'
  BY NextType
<1> QED BY <1>1, <1>2, PTL DEF Spec

-----------------------------------------------------------------------------
(* At most one revoke *)

(* The awaits a chain can be at before it has called revokeLicense, once   *)
(* its task has been saved.                                                *)
BeforeRevoke == {"platform", "account", "init", "resumeInit", "getConfig", "process",
                 "system", "license", "waitReady", "revoke"}

Recorded(t) == mem[t].status # "absent" /\ stored[t].status # "absent"

(* Why a second revoke is impossible: a task that has revoked is on record, *)
(* in memory and in storage, so it is not posted again; the only way back  *)
(* to an await before the revoke is a startup, which takes the revoke out  *)
(* of the declaration; and only a chain whose declaration has a revoke     *)
(* ever waits for it.                                                      *)
RevokeInv ==
  /\ ~up => mem = stored
  /\ \A t \in Task :
       /\ revokes[t] \in {0, 1}
       /\ revokes[t] = 1 => Recorded(t)
       /\ pc[t] = "validating" => revokes[t] = 0 /\ mem[t].status # "absent"
       /\ pc[t] \in BeforeRevoke => Recorded(t)
       /\ pc[t] \in BeforeRevoke /\ revokes[t] = 1 => ~mem[t].declaration.revoke
       /\ pc[t] \in {"waitReady", "revoke"} => mem[t].declaration.revoke

(* What no step but a POST and a startup changes of the task table.        *)
Kept ==
  \A u \in Task : /\ mem'[u].declaration = mem[u].declaration
                  /\ mem[u].status # "absent" => mem'[u].status # "absent"
                  /\ Recorded(u) => Recorded(u)'

LEMMA UpdateResultKept ==
  ASSUME TypeOK, NEW t \in Task, NEW s \in Status \ {"absent"}, NEW m, UpdateResult(t, s, m),
         Save \/ NotSaved
  PROVE  Kept
<1>1. \A u \in Task : /\ mem'[u].declaration = mem[u].declaration
                      /\ mem[u].status # "absent" => mem'[u].status # "absent"
  BY UpdateResultKeeps
<1>2. stored' = mem' \/ stored' = stored
  BY DEF Save, NotSaved
<1> QED BY <1>1, <1>2 DEF Kept, Recorded

(* A chain that leaves the awaits before its license step, or that goes    *)
(* on among them by itself, keeps the invariant; so does a listener.       *)
LEMMA ChainMoves ==
  ASSUME TypeOK, RevokeInv, Kept, up, UNCHANGED <<up, revokes>>, NEW t \in Task, NEW to,
         pc' = [pc EXCEPT ![t] = to], to \notin BeforeRevoke, to # "validating"
  PROVE  RevokeInv'
BY DEF TypeOK, RevokeInv, Kept, BeforeRevoke

LEMMA ListenerMoves ==
  ASSUME RevokeInv, Kept, up, UNCHANGED <<up, revokes, pc>>
  PROVE  RevokeInv'
BY DEF RevokeInv, Kept

LEMMA AcceptRevoke ==
  ASSUME TypeOK, RevokeInv, NEW t \in Task, Accept(t)
  PROVE  RevokeInv'
<1>1. CASE ValidateAccepts(t)
  BY <1>1, UpdateResultKeeps
     DEF TypeOK, RevokeInv, Recorded, BeforeRevoke, ValidateAccepts, Goto, Save, auxVars, Status
<1>2. CASE ValidateRejects(t)
  BY <1>2, UpdateResultKept, ChainMoves
     DEF ValidateRejects, Goto, BeforeRevoke, auxVars, Status
<1>3. CASE ValidateThrows(t)
  BY <1>3, UpdateResultKept, ChainMoves
     DEF ValidateThrows, Goto, BeforeRevoke, auxVars, Status
<1>4. CASE ValidateSaveFails(t)
  BY <1>4, UpdateResultKept, ChainMoves
     DEF ValidateSaveFails, Goto, BeforeRevoke, auxVars, Status
<1>5. CASE RespondBad(t)
  BY <1>5
     DEF TypeOK, RevokeInv, Recorded, BeforeRevoke, RespondBad, Goto, storeVars, auxVars
<1>6. CASE Platform(t)
  BY <1>6
     DEF TypeOK, RevokeInv, Recorded, BeforeRevoke, Platform, Goto, storeVars, auxVars
<1>7. CASE Account(t)
  BY <1>7
     DEF TypeOK, RevokeInv, Recorded, BeforeRevoke, Account, Goto, storeVars, auxVars
<1>8. CASE FailEarly(t)
  BY <1>8, UpdateResultKept, ChainMoves
     DEF FailEarly, Goto, BeforeRevoke, auxVars, Status
<1>9. CASE InitBigIp(t)
  BY <1>9
     DEF TypeOK, RevokeInv, Recorded, BeforeRevoke, InitBigIp, storeVars, auxVars
<1>10. CASE InitBigIpFails(t)
  BY <1>10, UpdateResultKept, ChainMoves
     DEF InitBigIpFails, BeforeRevoke, auxVars, Status
<1> QED BY <1>1, <1>2, <1>3, <1>4, <1>5, <1>6, <1>7, <1>8, <1>9, <1>10 DEF Accept

LEMMA OnboardRevoke ==
  ASSUME TypeOK, RevokeInv, NEW t \in Task, Onboard(t)
  PROVE  RevokeInv'
<1>1. CASE GetConfig(t)
  BY <1>1, GetCurrentConfigKeeps
     DEF TypeOK, RevokeInv, Recorded, BeforeRevoke, GetConfig, Goto, Save, auxVars
<1>2. CASE Process(t)
  BY <1>2
     DEF TypeOK, RevokeInv, Recorded, BeforeRevoke, Process, Goto, NotSaved, auxVars, TaskRecord
<1>3. CASE ApplySystem(t)
  BY <1>3
     DEF TypeOK, RevokeInv, Recorded, BeforeRevoke, ApplySystem, Goto, storeVars, auxVars
<1>4. CASE License(t)
  BY <1>4
     DEF TypeOK, RevokeInv, Recorded, BeforeRevoke, License, Goto, storeVars, auxVars
<1>5. CASE Revoke(t)
  BY <1>5
     DEF TypeOK, RevokeInv, Recorded, BeforeRevoke, Revoke, Goto, storeVars
<1>6. CASE Relicense(t)
  BY <1>6
     DEF TypeOK, RevokeInv, Recorded, BeforeRevoke, Relicense, Goto, storeVars, auxVars
<1>7. CASE Disk(t)
  BY <1>7
     DEF TypeOK, RevokeInv, Recorded, BeforeRevoke, Disk, Goto, storeVars, auxVars
<1>8. CASE DiskSave(t)
  BY <1>8
     DEF TypeOK, RevokeInv, Recorded, BeforeRevoke, DiskSave, Goto, Save, NotSaved, auxVars,
         TaskRecord
<1>9. CASE ApplyRest(t)
  BY <1>9
     DEF TypeOK, RevokeInv, Recorded, BeforeRevoke, ApplyRest, Goto, NotSaved, auxVars,
         TaskRecord
<1>10. CASE SysSave(t)
  BY <1>10
     DEF TypeOK, RevokeInv, Recorded, BeforeRevoke, SysSave, Goto, SaveConfig, storeVars,
         auxVars
<1>11. CASE CheckReboot(t)
  BY <1>11
     DEF TypeOK, RevokeInv, Recorded, BeforeRevoke, CheckReboot, Goto, storeVars, auxVars
<1>12. CASE FailOnboard(t)
  <2>1. Kept
    BY <1>12, UpdateResultKept DEF FailOnboard, Status
  <2>2. pc' = [pc EXCEPT ![t] = "rbGet"] \/ pc' = [pc EXCEPT ![t] = "finalSave"]
    BY <1>12 DEF FailOnboard
  <2> QED BY <1>12, <2>1, <2>2, ChainMoves DEF FailOnboard, BeforeRevoke, auxVars
<1> QED BY <1>1, <1>2, <1>3, <1>4, <1>5, <1>6, <1>7, <1>8, <1>9, <1>10, <1>11, <1>12 DEF Onboard

LEMMA RollbackRevoke ==
  ASSUME TypeOK, RevokeInv, NEW t \in Task, Rollback(t)
  PROVE  RevokeInv'
<1>1. CASE RollbackGet(t)
  BY <1>1, GetCurrentConfigKeeps
     DEF TypeOK, RevokeInv, Recorded, BeforeRevoke, RollbackGet, Goto, Save, auxVars
<1>2. CASE RollbackSystem(t)
  BY <1>2
     DEF TypeOK, RevokeInv, Recorded, BeforeRevoke, RollbackSystem, Goto, storeVars, auxVars
<1>3. CASE RollbackRest(t)
  BY <1>3
     DEF TypeOK, RevokeInv, Recorded, BeforeRevoke, RollbackRest, Goto, storeVars, auxVars
<1>4. CASE RollbackGet2(t)
  BY <1>4, GetCurrentConfigKeeps
     DEF TypeOK, RevokeInv, Recorded, BeforeRevoke, RollbackGet2, Goto, Save, auxVars
<1>5. CASE RollbackReport(t)
  BY <1>5, UpdateResultKept, ChainMoves
     DEF RollbackReport, Goto, BeforeRevoke, auxVars, Status
<1>6. CASE FailRollback(t)
  BY <1>6, UpdateResultKept, ChainMoves
     DEF FailRollback, Goto, BeforeRevoke, auxVars, Status
<1> QED BY <1>1, <1>2, <1>3, <1>4, <1>5, <1>6 DEF Rollback

LEMMA FinishRevoke ==
  ASSUME TypeOK, RevokeInv, NEW t \in Task, Finish(t)
  PROVE  RevokeInv'
<1>1. CASE FinalSave(t)
  BY <1>1
     DEF TypeOK, RevokeInv, Recorded, BeforeRevoke, FinalSave, Goto, SaveConfig, storeVars,
         auxVars
<1>2. CASE PostGet(t)
  BY <1>2, GetCurrentConfigKeeps
     DEF TypeOK, RevokeInv, Recorded, BeforeRevoke, PostGet, Goto, Save, auxVars
<1>3. CASE PostStatus(t)
  BY <1>3, UpdateResultKept, ChainMoves
     DEF PostStatus, Goto, BeforeRevoke, auxVars, Status
<1>4. CASE Respond(t)
  BY <1>4
     DEF TypeOK, RevokeInv, Recorded, BeforeRevoke, Respond, Goto, storeVars, auxVars
<1>5. CASE RebootIfRequired(t)
  BY <1>5
     DEF TypeOK, RevokeInv, Recorded, BeforeRevoke, RebootIfRequired, Goto, storeVars, auxVars
<1>6. CASE RebootCheckHangs(t)
  BY <1>6
     DEF TypeOK, RevokeInv, Recorded, BeforeRevoke, RebootCheckHangs, Goto, storeVars, auxVars
<1>7. CASE FailTail(t)
  BY <1>7, UpdateResultKept, ChainMoves
     DEF FailTail, Goto, BeforeRevoke, auxVars, Status
<1>8. CASE PostWebhook(t)
  BY <1>8
     DEF TypeOK, RevokeInv, Recorded, BeforeRevoke, PostWebhook, Goto, storeVars, auxVars
<1> QED BY <1>1, <1>2, <1>3, <1>4, <1>5, <1>6, <1>7, <1>8 DEF Finish

LEMMA ListenerRevoke ==
  ASSUME TypeOK, RevokeInv, NEW t \in Task, Listener(t)
  PROVE  RevokeInv'
<1>1. CASE PrepSave(t)
  BY <1>1
     DEF TypeOK, RevokeInv, Recorded, BeforeRevoke, PrepSave, storeVars, auxVars
<1>2. CASE PrepMark(t)
  BY <1>2, UpdateResultKept, ListenerMoves
     DEF PrepMark, BeforeRevoke, auxVars, Status
<1>3. CASE EmitReady(t)
  BY <1>3
     DEF TypeOK, RevokeInv, Recorded, BeforeRevoke, EmitReady, storeVars, auxVars
<1>4. CASE RebootNow(t)
  BY <1>4
     DEF TypeOK, RevokeInv, Recorded, BeforeRevoke, RebootNow, storeVars, auxVars
<1>5. CASE PrepFails(t)
  <2>1. CASE UNCHANGED mem
    <3>1. Kept
      BY <1>5, <2>1 DEF PrepFails, NotSaved, Kept, Recorded
    <3> QED BY <1>5, <3>1, ListenerMoves DEF PrepFails, auxVars
  <2>2. CASE ~UNCHANGED mem
    BY <1>5, <2>2, UpdateResultKept, ListenerMoves DEF PrepFails, auxVars, Status
  <2> QED BY <2>1, <2>2
<1> QED BY <1>1, <1>2, <1>3, <1>4, <1>5 DEF Listener

(* The task that a startup takes up again: it is running, and of its       *)
(* declaration only the revoke has changed.                                *)
LEMMA ResumedTask ==
  ASSUME TypeOK, Startup, mostRecent \in Task, mem[mostRecent].status \in ResumedStatus
  PROVE  /\ mem'[mostRecent].status = "RUNNING"
         /\ mem'[mostRecent].message = "processing"
         /\ ~mem'[mostRecent].declaration.revoke
         /\ mem'[mostRecent].declaration.dryRun = mem[mostRecent].declaration.dryRun
         /\ mem'[mostRecent].declaration.disk = mem[mostRecent].declaration.disk
         /\ pc'[mostRecent] = "resumeInit" /\ ctx'[mostRecent].resumed
<1> DEFINE d == WithoutRevoke(mem[mostRecent].declaration)
           r == [mem[mostRecent] EXCEPT !.status = "RUNNING", !.message = "processing",
                                        !.declaration = d]
<1>1. mem[mostRecent].status # "REBOOTING"
  BY DEF ResumedStatus
<1>2. /\ mem' = [mem EXCEPT ![mostRecent] = r]
      /\ pc' = [pc EXCEPT ![mostRecent] = "resumeInit"]
      /\ ctx' = [ctx EXCEPT ![mostRecent].resumed = TRUE]
  BY <1>1 DEF Startup
<1>3. /\ d.revoke = FALSE /\ d.dryRun = mem[mostRecent].declaration.dryRun
      /\ d.disk = mem[mostRecent].declaration.disk
  <2>1. mem[mostRecent].declaration \in Declaration
    BY RecordType
  <2> QED BY <2>1 DEF Declaration, WithoutRevoke
<1>4. r.status = "RUNNING" /\ r.message = "processing" /\ r.declaration = d
  <2>1. mem[mostRecent] \in TaskRecord
    BY RecordType
  <2> HIDE DEF d
  <2> QED BY <2>1 DEF TaskRecord
<1>5. mem'[mostRecent] = r /\ pc'[mostRecent] = "resumeInit"
  <2> HIDE DEF r
  <2> QED BY <1>2 DEF TypeOK
<1>6. ctx'[mostRecent].resumed
  <2>1. ctx[mostRecent] \in Context
    BY DEF TypeOK
  <2> QED BY <1>2, <2>1 DEF TypeOK, Context
<1> HIDE DEF r, d
<1> QED BY <1>3, <1>4, <1>5, <1>6

LEMMA EnvironmentRevoke ==
  ASSUME TypeOK, RevokeInv, Environment
  PROVE  RevokeInv'
<1>1. ASSUME LoseProcess PROVE RevokeInv'
  BY <1>1 DEF RevokeInv, Recorded, BeforeRevoke, LoseProcess
<1>2. CASE ServiceRestart \/ DeviceReboot
  BY <1>1, <1>2 DEF ServiceRestart, DeviceReboot
<1>3. CASE Startup
  <2>1. CASE mostRecent \in Task /\ mem[mostRecent].status = "REBOOTING"
    BY <1>3, <2>1, UpdateResultKeeps
       DEF TypeOK, RevokeInv, Recorded, BeforeRevoke, Startup, Save, NotSaved, auxVars,
           Status, ResumedStatus
  <2>2. CASE mostRecent \in Task /\ mem[mostRecent].status \in ResumedStatus
    <3>1. mem[mostRecent].status # "REBOOTING" /\ mem[mostRecent].status # "absent"
      BY <2>2 DEF ResumedStatus
    <3>2. /\ ~up /\ up' /\ revokes' = revokes
          /\ pc' = [pc EXCEPT ![mostRecent] = "resumeInit"]
          /\ stored' = mem' \/ stored' = stored
      BY <1>3, <2>2, <3>1 DEF Startup, Save, NotSaved, auxVars
    <3>3. mem' = [mem EXCEPT ![mostRecent] =
                   [@ EXCEPT !.status = "RUNNING", !.message = "processing",
                             !.declaration = WithoutRevoke(mem[mostRecent].declaration)]]
      BY <1>3, <2>2, <3>1 DEF Startup
    <3>4. \A u \in Task \ {mostRecent} : mem'[u] = mem[u]
      BY <3>3 DEF TypeOK
    <3>5. mem'[mostRecent].status = "RUNNING" /\ ~mem'[mostRecent].declaration.revoke
      BY <1>3, <2>2, ResumedTask
    <3>6. \A u \in Task : Recorded(u) => Recorded(u)'
      BY <3>2, <3>4, <3>5 DEF Recorded
    <3>7. mem'[mostRecent].status # "absent" /\ stored'[mostRecent].status # "absent"
      <4>1. mem = stored
        BY <3>2 DEF RevokeInv
      <4> QED BY <3>1, <3>2, <3>5, <4>1
    <3>8. /\ pc'[mostRecent] = "resumeInit"
          /\ \A u \in Task \ {mostRecent} : pc'[u] = pc[u]
      BY <2>2, <3>2 DEF TypeOK
    <3> DEFINE R(u) == /\ revokes'[u] \in {0, 1}
                       /\ revokes'[u] = 1 => Recorded(u)'
                       /\ pc'[u] = "validating" => revokes'[u] = 0 /\ mem'[u].status # "absent"
                       /\ pc'[u] \in BeforeRevoke => Recorded(u)'
                       /\ pc'[u] \in BeforeRevoke /\ revokes'[u] = 1 => ~mem'[u].declaration.revoke
                       /\ pc'[u] \in {"waitReady", "revoke"} => mem'[u].declaration.revoke
    <3>9. \A u \in Task \ {mostRecent} : R(u)
      BY <3>2, <3>4, <3>6, <3>8 DEF RevokeInv
    <3>10. \A u \in Task : u = mostRecent => R(u)
      BY <2>2, <3>2, <3>5, <3>7, <3>8 DEF RevokeInv, Recorded
    <3> QED BY <3>2, <3>9, <3>10 DEF RevokeInv
  <2>3. CASE mostRecent \in Task => mem[mostRecent].status \notin ResumedStatus \cup {"REBOOTING"}
    BY <1>3, <2>3 DEF RevokeInv, Recorded, BeforeRevoke, Startup, storeVars, auxVars
  <2> QED BY <2>1, <2>2, <2>3
<1>4. CASE DiskCommandEnds
  BY <1>4 DEF RevokeInv, Recorded, DiskCommandEnds, storeVars, auxVars
<1> QED BY <1>2, <1>3, <1>4 DEF Environment

LEMMA PostRevoke ==
  ASSUME TypeOK, RevokeInv, NEW t \in Task, NEW d \in Declarations, Post(t, d)
  PROVE  RevokeInv'
BY DEF TypeOK, RevokeInv, Recorded, BeforeRevoke, Post, NewId, NoRecord, TaskRecord

LEMMA PostUnreadableRevoke ==
  ASSUME TypeOK, RevokeInv, NEW t \in Task, PostUnreadable(t)
  PROVE  RevokeInv'
<1>1. mem[t].status = "absent" /\ mem'[t].status = "ERROR" /\ pc'[t] = "done" /\ up
  BY PostUnreadableSets
<1>2. \A u \in Task \ {t} : mem'[u] = mem[u] /\ pc'[u] = pc[u] /\ ctx'[u] = ctx[u]
  BY PostUnreadableSets
<1>3. up' = up /\ stored' = stored /\ revokes' = revokes
  BY DEF PostUnreadable, auxVars
<1> QED BY <1>1, <1>2, <1>3 DEF RevokeInv, Recorded, BeforeRevoke

LEMMA NextRevoke == TypeOK /\ RevokeInv /\ [Next]_vars => RevokeInv'
<1> SUFFICES ASSUME TypeOK, RevokeInv, [Next]_vars PROVE RevokeInv'
  OBVIOUS
<1>1. CASE \E t \in Task, d \in Declarations : Post(t, d)
  BY <1>1, PostRevoke
<1>2. ASSUME NEW t \in Task, PostUnreadable(t) \/ Chain(t) PROVE RevokeInv'
  BY <1>2, PostUnreadableRevoke, AcceptRevoke, OnboardRevoke, RollbackRevoke, FinishRevoke DEF Chain
<1>3. ASSUME NEW t \in Task, Listener(t) PROVE RevokeInv'
  BY <1>3, ListenerRevoke
<1>4. CASE Environment
  BY <1>4, EnvironmentRevoke
<1>5. CASE UNCHANGED vars
  BY <1>5 DEF RevokeInv, Recorded, vars, storeVars, auxVars
<1> QED BY <1>1, <1>2, <1>3, <1>4, <1>5 DEF Next

(* The invariant above holds in every reachable state.                     *)
THEOREM RevokeInvariant == Spec => []RevokeInv
<1>1. Init => RevokeInv
  BY DEF Init, RevokeInv, BeforeRevoke
<1>2. TypeOK /\ RevokeInv /\ [Next]_vars => RevokeInv'
  BY NextRevoke
<1> QED BY <1>1, <1>2, TypeCorrect, PTL DEF Spec

(* No number of POSTs, restarts, reboots, timeouts or failures makes a task *)
(* call revokeLicense twice (handleStartupState: "Make sure we don't try to *)
(* revoke again").                                                         *)
THEOREM AtMostOneRevoke == Spec => []RevokeAtMostOnce
<1>1. RevokeInv => RevokeAtMostOnce
  BY DEF RevokeInv, RevokeAtMostOnce
<1> QED BY <1>1, RevokeInvariant, PTL

-----------------------------------------------------------------------------
(* RestWorker keeps its promise to the clients, for every set of tasks,    *)
(* every choice of faults and any number of restarts, provided that        *)
(* revocations do not meet each other and are not cut short.               *)

(* READY_FOR_REVOKE names no task, and the listener that prepares a        *)
(* revocation is not told that the handler has given up: with two tasks    *)
(* that revoke, or with the timeout, it may write REVOKING over the status *)
(* of a task that has ended.  The promise is kept if no declaration        *)
(* revokes, or if there is one task and the 30 seconds are enough.         *)
RevokesAlone ==
  \/ \A d \in Declarations : ~d.revoke
  \/ (\A t, u \in Task : t = u) /\ "timeout" \notin Faults

-----------------------------------------------------------------------------
(* The invariant *)

Running == {"RUNNING", "REVOKING", "REBOOTING_AND_RESUMING"}
Unrecorded == {"absent", "none"}

(* Where a chain is at work on the declaration, and where it has ended.    *)
Working == EarlyPC \cup OnboardPC \cup {"init", "resumeInit", "waitReboot", "postGet", "postCheck"}
Ending  == {"respond", "rebootCheck", "webhook", "hung", "done"}

(* How the status of a task may change, in one step or in many: it never   *)
(* leaves the table, success and failure are final, and a task that waits  *)
(* for a reboot can only succeed.                                          *)
Follows(then, now) ==
  /\ then = "OK" => now = "OK"
  /\ then = "ERROR" => now = "ERROR"
  /\ then = "REBOOTING" => now \in {"REBOOTING", "OK"}
  /\ then \in Unrecorded => now \in Unrecorded \cup {"RUNNING", "ERROR"}
  /\ now \in Unrecorded => then \in Unrecorded
  /\ now = "absent" => then = "absent"

(* The record of a task in storage is its status in memory, or an earlier  *)
(* one on the way to it: whatever chain saves the table, the record moves  *)
(* forward.  A task is accepted, and succeeds, by a save; only the OK of a *)
(* startup may be missing, whose save can fail.                            *)
StoredIsEarlier(t) ==
  LET now == mem[t].status
      then == stored[t].status
  IN /\ Follows(then, now)
     /\ then \in Unrecorded => now \in Unrecorded \cup {"ERROR"}
     /\ now = "OK" => then \in {"OK", "REBOOTING"}
     /\ now = "REBOOTING" => then = "REBOOTING"

(* The status of a task in memory at each await of its chain.              *)
StatusAtAwait(t) ==
  LET now == mem[t].status
  IN /\ pc[t] = "validating" => now = "none"
     /\ pc[t] = "badRespond" => now = "ERROR"
     /\ pc[t] \in Working => now \in Running
     /\ pc[t] \in RollbackPC => now = "ROLLING_BACK"
     /\ pc[t] = "finalSave" => now \in Running \cup {"ERROR"}
     /\ pc[t] = "postGetError" => now = "ERROR"
     /\ pc[t] \in Ending => now \in {"OK", "REBOOTING", "ERROR"}
     /\ pc[t] = "respond" /\ now = "OK" => stored[t].status = "OK"
     /\ pc[t] \notin {"idle", "validating", "done"} => stored[t].status \notin Unrecorded

(* A chain that will answer has not answered yet.                          *)
Unanswered(t) ==
  /\ pc[t] \in {"validating", "badRespond", "platform"} => response[t] = "none"
  /\ pc[t] \notin {"idle", "rebootCheck", "webhook", "hung", "done"} =>
       ctx[t].resumed \/ Async(t) \/ response[t] = "none"

(* Listeners write the status of tasks whose chain waits for them.         *)
Listening(t) ==
  /\ revPrep[t] # "idle" => pc[t] = "waitReady"
  /\ rebPrep[t] # "idle" => pc[t] = "waitReboot"

(* What storage says of a task whose client was answered; one whose body   *)
(* could not be read has no chain, and is an error wherever it is known.   *)
Answered(t) ==
  /\ response[t] \notin {"none", "unreadable"} => stored[t].status \notin Unrecorded
  /\ response[t] = "OK" => stored[t].status = "OK"
  /\ response[t] = "REBOOTING" => stored[t].status \in {"REBOOTING", "OK"}
  /\ response[t] = "unreadable" =>
       /\ pc[t] \in {"idle", "done"}
       /\ mem[t].status \in {"absent", "ERROR"}
       /\ stored[t].status \in {"absent", "ERROR"}

NoneRevokes(t) ==
  (\A d \in Declarations : ~d.revoke) =>
    ~mem[t].declaration.revoke /\ ~stored[t].declaration.revoke

TaskInv(t) ==
  /\ StoredIsEarlier(t)
  /\ StatusAtAwait(t)
  /\ Unanswered(t)
  /\ Listening(t)
  /\ Answered(t)
  /\ NoneRevokes(t)

(* While restnoded is down nothing goes on.                                *)
Down == ~up => \A t \in Task : pc[t] = "idle"

PromiseInv == Down /\ \A t \in Task : TaskInv(t)

-----------------------------------------------------------------------------
(* What one step may do to the table and to the clients *)

(* The client of task t is answered, for the first time, with its status,  *)
(* and storage says the same; only a failure may not be stored.            *)
Answers(t) ==
  LET now == mem[t].status
      then == stored[t].status
  IN /\ UNCHANGED stored
     /\ response[t] = "none"
     /\ response' = [response EXCEPT ![t] = now]
     /\ now \notin Unrecorded /\ then \notin Unrecorded
     /\ now = "OK" <=> then = "OK"
     /\ then = "ERROR" => now = "ERROR"

(* The client of task t is told that its body cannot be read; the task is  *)
(* not on record.                                                          *)
Refuses(t) ==
  /\ UNCHANGED stored
  /\ response[t] = "none"
  /\ response' = [response EXCEPT ![t] = "unreadable"]
  /\ stored[t].status \in Unrecorded

PromiseStep ==
  /\ \A t \in Task : /\ stored'[t] \in {stored[t], mem'[t]}
                     /\ Follows(stored[t].status, mem'[t].status)
  /\ UNCHANGED response \/ \E t \in Task : Answers(t) \/ Refuses(t)

(* A step of one chain, or of one listener, leaves the other tasks alone.  *)
Stores == \A t \in Task : stored'[t] \in {stored[t], mem'[t]}
OthersStay(t) ==
  \A u \in Task \ {t} :
    /\ mem'[u] = mem[u] /\ pc'[u] = pc[u] /\ ctx'[u] = ctx[u]
    /\ response'[u] = response[u]
    /\ revPrep'[u] = revPrep[u] /\ rebPrep'[u] = rebPrep[u]
Own(t) == up /\ UNCHANGED up /\ OthersStay(t) /\ Stores

(* A task keeps its part of the invariant when only the save of another    *)
(* task's chain reaches it.                                                *)
LEMMA SavedByAnother ==
  ASSUME NEW u \in Task, TaskInv(u), stored'[u] \in {stored[u], mem'[u]},
         mem'[u] = mem[u], pc'[u] = pc[u], ctx'[u] = ctx[u], response'[u] = response[u],
         revPrep'[u] = revPrep[u], rebPrep'[u] = rebPrep[u]
  PROVE  TaskInv(u)' /\ Follows(stored[u].status, mem'[u].status)
<1>1. Follows(stored[u].status, mem'[u].status)
  BY DEF TaskInv, StoredIsEarlier
<1>2. StoredIsEarlier(u)' /\ Answered(u)' /\ StatusAtAwait(u)'
  BY DEF TaskInv, StoredIsEarlier, Answered, StatusAtAwait, Follows, Unrecorded
<1>3. Unanswered(u)' /\ Listening(u)' /\ NoneRevokes(u)'
  BY DEF TaskInv, Unanswered, Listening, NoneRevokes, Async
<1> QED BY <1>1, <1>2, <1>3 DEF TaskInv

LEMMA OwnStep ==
  ASSUME PromiseInv, NEW t \in Task, Own(t), TaskInv(t)',
         Follows(stored[t].status, mem'[t].status),
         UNCHANGED response \/ Answers(t) \/ Refuses(t)
  PROVE  PromiseInv' /\ PromiseStep
<1>1. \A u \in Task \ {t} : TaskInv(u)' /\ Follows(stored[u].status, mem'[u].status)
  BY SavedByAnother DEF PromiseInv, Own, OthersStay, Stores
<1> QED BY <1>1 DEF PromiseInv, PromiseStep, Down, Own, Stores

(* How updateResult and getAndSaveCurrentConfig change the table. *)
LEMMA UpdateResultSets ==
  ASSUME TypeOK, NEW t \in Task, NEW s, NEW m, UpdateResult(t, s, m)
  PROVE  /\ mem'[t].status = s /\ mem'[t].declaration = mem[t].declaration
         /\ \A u \in Task \ {t} : mem'[u] = mem[u]
BY DEF TypeOK, UpdateResult, TaskRecord

LEMMA GetCurrentConfigSets ==
  ASSUME TypeOK, NEW t \in Task, GetCurrentConfig(t)
  PROVE  /\ mem'[t].status = mem[t].status /\ mem'[t].declaration = mem[t].declaration
         /\ \A u \in Task \ {t} : mem'[u] = mem[u]
BY DEF TypeOK, GetCurrentConfig, TaskRecord

LEMMA SaveStores ==
  ASSUME Save \/ NotSaved \/ UNCHANGED storeVars
  PROVE  Stores /\ stored' \in {stored, mem'}
BY DEF Save, NotSaved, Stores, storeVars

-----------------------------------------------------------------------------
(* One lemma per group of actions *)

LEMMA AcceptPromise ==
  ASSUME TypeOK, RevokeInv, PromiseInv, RevokesAlone, NEW t \in Task, Accept(t)
  PROVE  PromiseInv' /\ PromiseStep
<1> USE DEF PC, EarlyPC, OnboardPC, ProcessPC, RollbackPC, TailPC
<1>1. CASE ValidateAccepts(t)
  <2>1. Own(t)
    BY <1>1, UpdateResultSets, SaveStores
       DEF TypeOK, Own, OthersStay, ValidateAccepts, Goto, storeVars, clientVars, prepVars
  <2>2. /\ mem'[t].status = "RUNNING" /\ stored'[t] = mem'[t]
        /\ mem'[t].declaration = mem[t].declaration
        /\ pc[t] = "validating" /\ pc'[t] = "platform"
        /\ ctx'[t] = ctx[t] /\ UNCHANGED <<response, revPrep, rebPrep>>
    BY <1>1, UpdateResultSets
       DEF TypeOK, ValidateAccepts, Goto, Save, NotSaved, clientVars, prepVars
  <2>3. /\ TaskInv(t)' /\ Follows(stored[t].status, mem'[t].status)
        /\ UNCHANGED response
    BY <2>2
       DEF PromiseInv, TaskInv, StoredIsEarlier, Follows, StatusAtAwait, Unanswered, Listening,
           Answered, NoneRevokes, Unrecorded, Running, Working, Ending, Async
  <2> QED BY <2>1, <2>3, OwnStep
<1>2. CASE ValidateRejects(t)
  <2>1. Own(t)
    BY <1>2, UpdateResultSets, SaveStores
       DEF TypeOK, Own, OthersStay, ValidateRejects, Goto, storeVars, clientVars, prepVars
  <2>2. /\ mem'[t].status = "ERROR" /\ stored'[t] = mem'[t]
        /\ mem'[t].declaration = mem[t].declaration
        /\ pc[t] = "validating" /\ pc'[t] = "badRespond"
        /\ ctx'[t] = ctx[t] /\ UNCHANGED <<response, revPrep, rebPrep>>
    BY <1>2, UpdateResultSets
       DEF TypeOK, ValidateRejects, Goto, Save, NotSaved, clientVars, prepVars
  <2>3. /\ TaskInv(t)' /\ Follows(stored[t].status, mem'[t].status)
        /\ UNCHANGED response
    BY <2>2
       DEF PromiseInv, TaskInv, StoredIsEarlier, Follows, StatusAtAwait, Unanswered, Listening,
           Answered, NoneRevokes, Unrecorded, Running, Working, Ending, Async
  <2> QED BY <2>1, <2>3, OwnStep
<1>3. CASE ValidateThrows(t)
  <2>1. Own(t)
    BY <1>3, UpdateResultSets, SaveStores
       DEF TypeOK, Own, OthersStay, ValidateThrows, Goto, storeVars, clientVars, prepVars
  <2>2. /\ mem'[t].status = "ERROR" /\ stored'[t] = stored[t]
        /\ mem'[t].declaration = mem[t].declaration
        /\ pc[t] = "validating" /\ pc'[t] = "done"
        /\ ctx'[t] = ctx[t] /\ UNCHANGED <<response, revPrep, rebPrep>>
    BY <1>3, UpdateResultSets
       DEF TypeOK, ValidateThrows, Goto, Save, NotSaved, clientVars, prepVars
  <2>3. /\ TaskInv(t)' /\ Follows(stored[t].status, mem'[t].status)
        /\ UNCHANGED response
    BY <2>2
       DEF PromiseInv, TaskInv, StoredIsEarlier, Follows, StatusAtAwait, Unanswered, Listening,
           Answered, NoneRevokes, Unrecorded, Running, Working, Ending, Async
  <2> QED BY <2>1, <2>3, OwnStep
<1>4. CASE ValidateSaveFails(t)
  <2>1. Own(t)
    BY <1>4, UpdateResultSets, SaveStores
       DEF TypeOK, Own, OthersStay, ValidateSaveFails, Goto, storeVars, clientVars, prepVars
  <2>2. /\ mem'[t].status = "ERROR" /\ stored'[t] = stored[t]
        /\ mem'[t].declaration = mem[t].declaration
        /\ pc[t] = "validating" /\ pc'[t] = "done"
        /\ ctx'[t] = ctx[t] /\ UNCHANGED <<response, revPrep, rebPrep>>
    BY <1>4, UpdateResultSets
       DEF TypeOK, ValidateSaveFails, Goto, Save, NotSaved, clientVars, prepVars
  <2>3. /\ TaskInv(t)' /\ Follows(stored[t].status, mem'[t].status)
        /\ UNCHANGED response
    BY <2>2
       DEF PromiseInv, TaskInv, StoredIsEarlier, Follows, StatusAtAwait, Unanswered, Listening,
           Answered, NoneRevokes, Unrecorded, Running, Working, Ending, Async
  <2> QED BY <2>1, <2>3, OwnStep
<1>5. CASE RespondBad(t)
  <2>1. Own(t)
    BY <1>5, SaveStores
       DEF TypeOK, Own, OthersStay, RespondBad, Goto, storeVars, clientVars, prepVars
  <2>2. /\ TaskInv(t)' /\ Follows(stored[t].status, mem'[t].status)
        /\ UNCHANGED response \/ Answers(t)
    BY <1>5, SaveStores
       DEF TypeOK, PromiseInv, TaskInv, StoredIsEarlier, Follows, StatusAtAwait, Unanswered,
           Listening, Answered, NoneRevokes, Unrecorded, Running, Working, Ending, Async,
           Answers, RespondBad, Goto, storeVars, clientVars, prepVars
  <2> QED BY <2>1, <2>2, OwnStep
<1>6. CASE Platform(t)
  <2>1. Own(t)
    BY <1>6, SaveStores
       DEF TypeOK, Own, OthersStay, Platform, Goto, storeVars, clientVars, prepVars
  <2>2. /\ TaskInv(t)' /\ Follows(stored[t].status, mem'[t].status)
        /\ UNCHANGED response \/ Answers(t)
    BY <1>6, SaveStores
       DEF TypeOK, PromiseInv, TaskInv, StoredIsEarlier, Follows, StatusAtAwait, Unanswered,
           Listening, Answered, NoneRevokes, Unrecorded, Running, Working, Ending, Async,
           Answers, Platform, Goto, storeVars, clientVars, prepVars
  <2> QED BY <2>1, <2>2, OwnStep
<1>7. CASE Account(t)
  <2>1. Own(t)
    BY <1>7, SaveStores
       DEF TypeOK, Own, OthersStay, Account, Goto, storeVars, clientVars, prepVars
  <2>2. /\ TaskInv(t)' /\ Follows(stored[t].status, mem'[t].status)
        /\ UNCHANGED response \/ Answers(t)
    BY <1>7, SaveStores
       DEF TypeOK, PromiseInv, TaskInv, StoredIsEarlier, Follows, StatusAtAwait, Unanswered,
           Listening, Answered, NoneRevokes, Unrecorded, Running, Working, Ending, Async,
           Answers, Account, Goto, storeVars, clientVars, prepVars
  <2> QED BY <2>1, <2>2, OwnStep
<1>8. CASE FailEarly(t)
  <2>1. Own(t)
    BY <1>8, UpdateResultSets, SaveStores
       DEF TypeOK, Own, OthersStay, FailEarly, Goto, storeVars, clientVars, prepVars
  <2>2. /\ mem'[t].status = "ERROR" /\ stored'[t] = stored[t]
        /\ mem'[t].declaration = mem[t].declaration
        /\ pc[t] \in EarlyPC /\ pc'[t] = "done"
        /\ ctx'[t] = ctx[t] /\ UNCHANGED <<response, revPrep, rebPrep>>
    BY <1>8, UpdateResultSets
       DEF TypeOK, FailEarly, Goto, Save, NotSaved, clientVars, prepVars
  <2>3. /\ TaskInv(t)' /\ Follows(stored[t].status, mem'[t].status)
        /\ UNCHANGED response
    BY <2>2
       DEF PromiseInv, TaskInv, StoredIsEarlier, Follows, StatusAtAwait, Unanswered, Listening,
           Answered, NoneRevokes, Unrecorded, Running, Working, Ending, Async
  <2> QED BY <2>1, <2>3, OwnStep
<1>9. CASE InitBigIp(t)
  <2>1. Own(t)
    BY <1>9, SaveStores
       DEF TypeOK, Own, OthersStay, InitBigIp, Goto, storeVars, clientVars, prepVars
  <2>2. /\ TaskInv(t)' /\ Follows(stored[t].status, mem'[t].status)
        /\ UNCHANGED response \/ Answers(t)
    BY <1>9, SaveStores
       DEF TypeOK, PromiseInv, TaskInv, StoredIsEarlier, Follows, StatusAtAwait, Unanswered,
           Listening, Answered, NoneRevokes, Unrecorded, Running, Working, Ending, Async,
           Answers, InitBigIp, Goto, storeVars, clientVars, prepVars
  <2> QED BY <2>1, <2>2, OwnStep
<1>10. CASE InitBigIpFails(t)
  <2>1. Own(t)
    BY <1>10, UpdateResultSets, SaveStores
       DEF TypeOK, Own, OthersStay, InitBigIpFails, Goto, storeVars, clientVars, prepVars
  <2>2. /\ mem'[t].status = "ERROR" /\ stored'[t] = stored[t]
        /\ mem'[t].declaration = mem[t].declaration
        /\ pc[t] \in {"init", "resumeInit"} /\ pc'[t] = "respond"
        /\ ctx'[t] = ctx[t] /\ UNCHANGED <<response, revPrep, rebPrep>>
    BY <1>10, UpdateResultSets
       DEF TypeOK, InitBigIpFails, Goto, Save, NotSaved, clientVars, prepVars
  <2>3. /\ TaskInv(t)' /\ Follows(stored[t].status, mem'[t].status)
        /\ UNCHANGED response
    BY <2>2
       DEF PromiseInv, TaskInv, StoredIsEarlier, Follows, StatusAtAwait, Unanswered, Listening,
           Answered, NoneRevokes, Unrecorded, Running, Working, Ending, Async
  <2> QED BY <2>1, <2>3, OwnStep
<1> QED BY <1>1, <1>2, <1>3, <1>4, <1>5, <1>6, <1>7, <1>8, <1>9, <1>10 DEF Accept

LEMMA OnboardPromise ==
  ASSUME TypeOK, RevokeInv, PromiseInv, RevokesAlone, NEW t \in Task, Onboard(t)
  PROVE  PromiseInv' /\ PromiseStep
<1> USE DEF PC, EarlyPC, OnboardPC, ProcessPC, RollbackPC, TailPC
<1>1. CASE GetConfig(t)
  <2>1. Own(t)
    BY <1>1, GetCurrentConfigSets, SaveStores
       DEF TypeOK, Own, OthersStay, GetConfig, Goto, storeVars, clientVars, prepVars
  <2>2. /\ TaskInv(t)' /\ Follows(stored[t].status, mem'[t].status)
        /\ UNCHANGED response \/ Answers(t)
    BY <1>1, GetCurrentConfigSets, SaveStores
       DEF TypeOK, PromiseInv, TaskInv, StoredIsEarlier, Follows, StatusAtAwait, Unanswered,
           Listening, Answered, NoneRevokes, Unrecorded, Running, Working, Ending, Async,
           Answers, GetConfig, Goto, storeVars, clientVars, prepVars
  <2> QED BY <2>1, <2>2, OwnStep
<1>2. CASE Process(t)
  <2>1. Own(t)
    BY <1>2, SaveStores
       DEF TypeOK, Own, OthersStay, Process, Goto, storeVars, clientVars, prepVars
  <2>2. /\ mem'[t].status = mem[t].status /\ stored'[t] = stored[t]
        /\ mem'[t].declaration = mem[t].declaration
        /\ pc[t] = "process" /\ pc'[t] \in {"sysSave", "system"}
        /\ ctx'[t] = ctx[t] /\ UNCHANGED <<response, revPrep, rebPrep>>
    BY <1>2
       DEF TypeOK, Process, Goto, Save, NotSaved, clientVars, prepVars, TaskRecord
  <2>3. /\ TaskInv(t)' /\ Follows(stored[t].status, mem'[t].status)
        /\ UNCHANGED response
    BY <2>2
       DEF PromiseInv, TaskInv, StoredIsEarlier, Follows, StatusAtAwait, Unanswered, Listening,
           Answered, NoneRevokes, Unrecorded, Running, Working, Ending, Async
  <2> QED BY <2>1, <2>3, OwnStep
<1>3. CASE ApplySystem(t)
  <2>1. Own(t)
    BY <1>3, SaveStores
       DEF TypeOK, Own, OthersStay, ApplySystem, Goto, storeVars, clientVars, prepVars
  <2>2. /\ TaskInv(t)' /\ Follows(stored[t].status, mem'[t].status)
        /\ UNCHANGED response \/ Answers(t)
    BY <1>3, SaveStores
       DEF TypeOK, PromiseInv, TaskInv, StoredIsEarlier, Follows, StatusAtAwait, Unanswered,
           Listening, Answered, NoneRevokes, Unrecorded, Running, Working, Ending, Async,
           Answers, ApplySystem, Goto, storeVars, clientVars, prepVars
  <2> QED BY <2>1, <2>2, OwnStep
<1>4. CASE License(t)
  <2>1. Own(t)
    BY <1>4, SaveStores
       DEF TypeOK, Own, OthersStay, License, Goto, storeVars, clientVars, prepVars
  <2>2. /\ TaskInv(t)' /\ Follows(stored[t].status, mem'[t].status)
        /\ UNCHANGED response \/ Answers(t)
    BY <1>4, SaveStores
       DEF TypeOK, PromiseInv, TaskInv, StoredIsEarlier, Follows, StatusAtAwait, Unanswered,
           Listening, Answered, NoneRevokes, Unrecorded, Running, Working, Ending, Async,
           Answers, License, Goto, storeVars, clientVars, prepVars
  <2> QED BY <2>1, <2>2, OwnStep
<1>5. CASE Revoke(t)
  <2>1. Own(t)
    BY <1>5, SaveStores
       DEF TypeOK, Own, OthersStay, Revoke, Goto, storeVars, clientVars, prepVars
  <2>2. /\ TaskInv(t)' /\ Follows(stored[t].status, mem'[t].status)
        /\ UNCHANGED response \/ Answers(t)
    BY <1>5, SaveStores
       DEF TypeOK, PromiseInv, TaskInv, StoredIsEarlier, Follows, StatusAtAwait, Unanswered,
           Listening, Answered, NoneRevokes, Unrecorded, Running, Working, Ending, Async,
           Answers, Revoke, Goto, storeVars, clientVars, prepVars
  <2> QED BY <2>1, <2>2, OwnStep
<1>6. CASE Relicense(t)
  <2>1. Own(t)
    BY <1>6, SaveStores
       DEF TypeOK, Own, OthersStay, Relicense, Goto, storeVars, clientVars, prepVars
  <2>2. /\ TaskInv(t)' /\ Follows(stored[t].status, mem'[t].status)
        /\ UNCHANGED response \/ Answers(t)
    BY <1>6, SaveStores
       DEF TypeOK, PromiseInv, TaskInv, StoredIsEarlier, Follows, StatusAtAwait, Unanswered,
           Listening, Answered, NoneRevokes, Unrecorded, Running, Working, Ending, Async,
           Answers, Relicense, Goto, storeVars, clientVars, prepVars
  <2> QED BY <2>1, <2>2, OwnStep
<1>7. CASE Disk(t)
  <2>1. Own(t)
    BY <1>7, SaveStores
       DEF TypeOK, Own, OthersStay, Disk, Goto, storeVars, clientVars, prepVars
  <2>2. /\ TaskInv(t)' /\ Follows(stored[t].status, mem'[t].status)
        /\ UNCHANGED response \/ Answers(t)
    BY <1>7, SaveStores
       DEF TypeOK, PromiseInv, TaskInv, StoredIsEarlier, Follows, StatusAtAwait, Unanswered,
           Listening, Answered, NoneRevokes, Unrecorded, Running, Working, Ending, Async,
           Answers, Disk, Goto, storeVars, clientVars, prepVars
  <2> QED BY <2>1, <2>2, OwnStep
<1>8. CASE DiskSave(t)
  <2>1. Own(t)
    BY <1>8, SaveStores
       DEF TypeOK, Own, OthersStay, DiskSave, Goto, storeVars, clientVars, prepVars
  <2>2. /\ mem'[t].status = mem[t].status /\ stored'[t] \in {stored[t], mem'[t]}
        /\ mem'[t].declaration = mem[t].declaration
        /\ pc[t] = "diskSave" /\ pc'[t] = "waitReboot"
        /\ ctx'[t] = ctx[t] /\ UNCHANGED <<response, revPrep>>
    BY <1>8, SaveStores DEF TypeOK, DiskSave, Goto, Stores, clientVars, TaskRecord
  <2>3. /\ TaskInv(t)' /\ Follows(stored[t].status, mem'[t].status)
        /\ UNCHANGED response
    BY <2>2
       DEF PromiseInv, TaskInv, StoredIsEarlier, Follows, StatusAtAwait, Unanswered, Listening,
           Answered, NoneRevokes, Unrecorded, Running, Working, Ending, Async
  <2> QED BY <2>1, <2>3, OwnStep
<1>9. CASE ApplyRest(t)
  <2>1. Own(t)
    BY <1>9, SaveStores
       DEF TypeOK, Own, OthersStay, ApplyRest, Goto, storeVars, clientVars, prepVars
  <2>2. /\ mem'[t].status = mem[t].status /\ stored'[t] = stored[t]
        /\ mem'[t].declaration = mem[t].declaration
        /\ pc[t] = "rest" /\ pc'[t] = "sysSave"
        /\ ctx'[t] = ctx[t] /\ UNCHANGED <<response, revPrep, rebPrep>>
    BY <1>9
       DEF TypeOK, ApplyRest, Goto, Save, NotSaved, clientVars, prepVars, TaskRecord
  <2>3. /\ TaskInv(t)' /\ Follows(stored[t].status, mem'[t].status)
        /\ UNCHANGED response
    BY <2>2
       DEF PromiseInv, TaskInv, StoredIsEarlier, Follows, StatusAtAwait, Unanswered, Listening,
           Answered, NoneRevokes, Unrecorded, Running, Working, Ending, Async
  <2> QED BY <2>1, <2>3, OwnStep
<1>10. CASE SysSave(t)
  <2>1. Own(t)
    BY <1>10, SaveStores
       DEF TypeOK, Own, OthersStay, SysSave, Goto, storeVars, clientVars, prepVars
  <2>2. /\ TaskInv(t)' /\ Follows(stored[t].status, mem'[t].status)
        /\ UNCHANGED response \/ Answers(t)
    BY <1>10, SaveStores
       DEF TypeOK, PromiseInv, TaskInv, StoredIsEarlier, Follows, StatusAtAwait, Unanswered,
           Listening, Answered, NoneRevokes, Unrecorded, Running, Working, Ending, Async,
           Answers, SysSave, Goto, storeVars, clientVars, prepVars
  <2> QED BY <2>1, <2>2, OwnStep
<1>11. CASE CheckReboot(t)
  <2>1. Own(t)
    BY <1>11, SaveStores
       DEF TypeOK, Own, OthersStay, CheckReboot, Goto, storeVars, clientVars, prepVars
  <2>2. /\ TaskInv(t)' /\ Follows(stored[t].status, mem'[t].status)
        /\ UNCHANGED response \/ Answers(t)
    BY <1>11, SaveStores
       DEF TypeOK, PromiseInv, TaskInv, StoredIsEarlier, Follows, StatusAtAwait, Unanswered,
           Listening, Answered, NoneRevokes, Unrecorded, Running, Working, Ending, Async,
           Answers, CheckReboot, Goto, storeVars, clientVars, prepVars
  <2> QED BY <2>1, <2>2, OwnStep
<1>12. CASE FailOnboard(t)
  <2>1. Own(t)
    BY <1>12, UpdateResultSets, SaveStores
       DEF TypeOK, Own, OthersStay, FailOnboard, Goto, storeVars, clientVars, prepVars
  <2>2. /\ mem'[t].status \in {"ROLLING_BACK", "ERROR"}
        /\ mem'[t].status = "ROLLING_BACK" => stored'[t] = mem'[t] /\ pc'[t] = "rbGet"
        /\ mem'[t].status = "ERROR" => stored'[t] = stored[t] /\ pc'[t] = "finalSave"
        /\ mem'[t].declaration = mem[t].declaration
        /\ ctx'[t].resumed = ctx[t].resumed /\ UNCHANGED <<response, revPrep, rebPrep>>
    <3>1. [ctx[t] EXCEPT !.rollbackTo = mem[t].currentConfig].resumed = ctx[t].resumed
      BY DEF TypeOK, Context
    <3>2. ctx'[t].resumed = ctx[t].resumed
      BY <1>12, <3>1 DEF TypeOK, FailOnboard
    <3>3. UNCHANGED <<response, revPrep, rebPrep>>
      BY <1>12 DEF FailOnboard, clientVars, prepVars
    <3>4. CASE UpdateResult(t, "ROLLING_BACK", "invalid config - rolling back")
                 /\ Save /\ pc' = [pc EXCEPT ![t] = "rbGet"]
      <4>1. pc'[t] = "rbGet" /\ stored' = mem'
        BY <3>4 DEF TypeOK, Save
      <4>2. mem'[t].status = "ROLLING_BACK" /\ mem'[t].declaration = mem[t].declaration
        BY <3>4, UpdateResultSets
      <4> QED BY <3>2, <3>3, <4>1, <4>2
    <3>5. CASE UpdateResult(t, "ERROR", "rollback failed")
                 /\ NotSaved /\ pc' = [pc EXCEPT ![t] = "finalSave"]
      <4>1. pc'[t] = "finalSave" /\ stored' = stored
        BY <3>5 DEF TypeOK, NotSaved
      <4>2. mem'[t].status = "ERROR" /\ mem'[t].declaration = mem[t].declaration
        BY <3>5, UpdateResultSets
      <4> QED BY <3>2, <3>3, <4>1, <4>2
    <3> QED BY <1>12, <3>4, <3>5 DEF FailOnboard
  <2>3. pc[t] \in OnboardPC \ {"waitReady"}
    <3>1. pc[t] = "waitReady" => mem[t].declaration.revoke /\ NoneRevokes(t)
      BY DEF RevokeInv, PromiseInv, TaskInv
    <3>2. pc[t] = "waitReady" => "timeout" \notin Faults
      BY <3>1 DEF RevokesAlone, NoneRevokes
    <3> QED BY <1>12, <3>2 DEF FailOnboard, MayFail
  <2>4. /\ TaskInv(t)' /\ Follows(stored[t].status, mem'[t].status)
        /\ UNCHANGED response
    BY <2>2, <2>3
       DEF PromiseInv, TaskInv, StoredIsEarlier, Follows, StatusAtAwait, Unanswered, Listening,
           Answered, NoneRevokes, Unrecorded, Running, Working, Ending, Async
  <2> QED BY <2>1, <2>4, OwnStep
<1> QED BY <1>1, <1>2, <1>3, <1>4, <1>5, <1>6, <1>7, <1>8, <1>9, <1>10, <1>11, <1>12 DEF Onboard

LEMMA RollbackPromise ==
  ASSUME TypeOK, RevokeInv, PromiseInv, RevokesAlone, NEW t \in Task, Rollback(t)
  PROVE  PromiseInv' /\ PromiseStep
<1> USE DEF PC, EarlyPC, OnboardPC, ProcessPC, RollbackPC, TailPC
<1>1. CASE RollbackGet(t)
  <2>1. Own(t)
    BY <1>1, GetCurrentConfigSets, SaveStores
       DEF TypeOK, Own, OthersStay, RollbackGet, Goto, storeVars, clientVars, prepVars
  <2>2. /\ TaskInv(t)' /\ Follows(stored[t].status, mem'[t].status)
        /\ UNCHANGED response \/ Answers(t)
    BY <1>1, GetCurrentConfigSets, SaveStores
       DEF TypeOK, PromiseInv, TaskInv, StoredIsEarlier, Follows, StatusAtAwait, Unanswered,
           Listening, Answered, NoneRevokes, Unrecorded, Running, Working, Ending, Async,
           Answers, RollbackGet, Goto, storeVars, clientVars, prepVars
  <2> QED BY <2>1, <2>2, OwnStep
<1>2. CASE RollbackSystem(t)
  <2>1. Own(t)
    BY <1>2, SaveStores
       DEF TypeOK, Own, OthersStay, RollbackSystem, Goto, storeVars, clientVars, prepVars
  <2>2. /\ TaskInv(t)' /\ Follows(stored[t].status, mem'[t].status)
        /\ UNCHANGED response \/ Answers(t)
    BY <1>2, SaveStores
       DEF TypeOK, PromiseInv, TaskInv, StoredIsEarlier, Follows, StatusAtAwait, Unanswered,
           Listening, Answered, NoneRevokes, Unrecorded, Running, Working, Ending, Async,
           Answers, RollbackSystem, Goto, storeVars, clientVars, prepVars
  <2> QED BY <2>1, <2>2, OwnStep
<1>3. CASE RollbackRest(t)
  <2>1. Own(t)
    BY <1>3, SaveStores
       DEF TypeOK, Own, OthersStay, RollbackRest, Goto, storeVars, clientVars, prepVars
  <2>2. /\ TaskInv(t)' /\ Follows(stored[t].status, mem'[t].status)
        /\ UNCHANGED response \/ Answers(t)
    BY <1>3, SaveStores
       DEF TypeOK, PromiseInv, TaskInv, StoredIsEarlier, Follows, StatusAtAwait, Unanswered,
           Listening, Answered, NoneRevokes, Unrecorded, Running, Working, Ending, Async,
           Answers, RollbackRest, Goto, storeVars, clientVars, prepVars
  <2> QED BY <2>1, <2>2, OwnStep
<1>4. CASE RollbackGet2(t)
  <2>1. Own(t)
    BY <1>4, GetCurrentConfigSets, SaveStores
       DEF TypeOK, Own, OthersStay, RollbackGet2, Goto, storeVars, clientVars, prepVars
  <2>2. /\ TaskInv(t)' /\ Follows(stored[t].status, mem'[t].status)
        /\ UNCHANGED response \/ Answers(t)
    BY <1>4, GetCurrentConfigSets, SaveStores
       DEF TypeOK, PromiseInv, TaskInv, StoredIsEarlier, Follows, StatusAtAwait, Unanswered,
           Listening, Answered, NoneRevokes, Unrecorded, Running, Working, Ending, Async,
           Answers, RollbackGet2, Goto, storeVars, clientVars, prepVars
  <2> QED BY <2>1, <2>2, OwnStep
<1>5. CASE RollbackReport(t)
  <2>1. Own(t)
    BY <1>5, UpdateResultSets, SaveStores
       DEF TypeOK, Own, OthersStay, RollbackReport, Goto, storeVars, clientVars, prepVars
  <2>2. /\ mem'[t].status = "ERROR" /\ stored'[t] = mem'[t]
        /\ mem'[t].declaration = mem[t].declaration
        /\ pc[t] = "rbReport" /\ pc'[t] = "finalSave"
        /\ ctx'[t] = ctx[t] /\ UNCHANGED <<response, revPrep, rebPrep>>
    BY <1>5, UpdateResultSets
       DEF TypeOK, RollbackReport, Goto, Save, NotSaved, clientVars, prepVars
  <2>3. /\ TaskInv(t)' /\ Follows(stored[t].status, mem'[t].status)
        /\ UNCHANGED response
    BY <2>2
       DEF PromiseInv, TaskInv, StoredIsEarlier, Follows, StatusAtAwait, Unanswered, Listening,
           Answered, NoneRevokes, Unrecorded, Running, Working, Ending, Async
  <2> QED BY <2>1, <2>3, OwnStep
<1>6. CASE FailRollback(t)
  <2>1. Own(t)
    BY <1>6, UpdateResultSets, SaveStores
       DEF TypeOK, Own, OthersStay, FailRollback, Goto, storeVars, clientVars, prepVars
  <2>2. /\ mem'[t].status = "ERROR" /\ stored'[t] = stored[t]
        /\ mem'[t].declaration = mem[t].declaration
        /\ pc[t] \in RollbackPC /\ pc'[t] = "finalSave"
        /\ ctx'[t] = ctx[t] /\ UNCHANGED <<response, revPrep, rebPrep>>
    BY <1>6, UpdateResultSets
       DEF TypeOK, FailRollback, Goto, Save, NotSaved, clientVars, prepVars
  <2>3. /\ TaskInv(t)' /\ Follows(stored[t].status, mem'[t].status)
        /\ UNCHANGED response
    BY <2>2
       DEF PromiseInv, TaskInv, StoredIsEarlier, Follows, StatusAtAwait, Unanswered, Listening,
           Answered, NoneRevokes, Unrecorded, Running, Working, Ending, Async
  <2> QED BY <2>1, <2>3, OwnStep
<1> QED BY <1>1, <1>2, <1>3, <1>4, <1>5, <1>6 DEF Rollback

LEMMA FinishPromise ==
  ASSUME TypeOK, RevokeInv, PromiseInv, RevokesAlone, NEW t \in Task, Finish(t)
  PROVE  PromiseInv' /\ PromiseStep
<1> USE DEF PC, EarlyPC, OnboardPC, ProcessPC, RollbackPC, TailPC
<1>1. CASE FinalSave(t)
  <2>1. Own(t)
    BY <1>1, SaveStores
       DEF TypeOK, Own, OthersStay, FinalSave, Goto, storeVars, clientVars, prepVars
  <2>2. /\ TaskInv(t)' /\ Follows(stored[t].status, mem'[t].status)
        /\ UNCHANGED response \/ Answers(t)
    BY <1>1, SaveStores
       DEF TypeOK, PromiseInv, TaskInv, StoredIsEarlier, Follows, StatusAtAwait, Unanswered,
           Listening, Answered, NoneRevokes, Unrecorded, Running, Working, Ending, Async,
           Answers, FinalSave, Goto, storeVars, clientVars, prepVars
  <2> QED BY <2>1, <2>2, OwnStep
<1>2. CASE PostGet(t)
  <2>1. Own(t)
    BY <1>2, GetCurrentConfigSets, SaveStores
       DEF TypeOK, Own, OthersStay, PostGet, Goto, storeVars, clientVars, prepVars
  <2>2. /\ TaskInv(t)' /\ Follows(stored[t].status, mem'[t].status)
        /\ UNCHANGED response \/ Answers(t)
    BY <1>2, GetCurrentConfigSets, SaveStores
       DEF TypeOK, PromiseInv, TaskInv, StoredIsEarlier, Follows, StatusAtAwait, Unanswered,
           Listening, Answered, NoneRevokes, Unrecorded, Running, Working, Ending, Async,
           Answers, PostGet, Goto, storeVars, clientVars, prepVars
  <2> QED BY <2>1, <2>2, OwnStep
<1>3. CASE PostStatus(t)
  <2>1. Own(t)
    BY <1>3, UpdateResultSets, SaveStores
       DEF TypeOK, Own, OthersStay, PostStatus, Goto, storeVars, clientVars, prepVars
  <2>2. /\ mem'[t].status \in {"OK", "REBOOTING"} /\ stored'[t] = mem'[t]
        /\ mem'[t].declaration = mem[t].declaration
        /\ pc[t] = "postCheck" /\ pc'[t] = "respond"
        /\ ctx'[t] = ctx[t] /\ UNCHANGED <<response, revPrep, rebPrep>>
    BY <1>3, UpdateResultSets
       DEF TypeOK, PostStatus, Goto, Save, NotSaved, clientVars, prepVars
  <2>3. /\ TaskInv(t)' /\ Follows(stored[t].status, mem'[t].status)
        /\ UNCHANGED response
    BY <2>2
       DEF PromiseInv, TaskInv, StoredIsEarlier, Follows, StatusAtAwait, Unanswered, Listening,
           Answered, NoneRevokes, Unrecorded, Running, Working, Ending, Async
  <2> QED BY <2>1, <2>3, OwnStep
<1>4. CASE Respond(t)
  <2>1. Own(t)
    BY <1>4, SaveStores
       DEF TypeOK, Own, OthersStay, Respond, Goto, storeVars, clientVars, prepVars
  <2>2. /\ TaskInv(t)' /\ Follows(stored[t].status, mem'[t].status)
        /\ UNCHANGED response \/ Answers(t)
    BY <1>4, SaveStores
       DEF TypeOK, PromiseInv, TaskInv, StoredIsEarlier, Follows, StatusAtAwait, Unanswered,
           Listening, Answered, NoneRevokes, Unrecorded, Running, Working, Ending, Async,
           Answers, Respond, Goto, storeVars, clientVars, prepVars
  <2> QED BY <2>1, <2>2, OwnStep
<1>5. CASE RebootIfRequired(t)
  <2>1. Own(t)
    BY <1>5, SaveStores
       DEF TypeOK, Own, OthersStay, RebootIfRequired, Goto, storeVars, clientVars, prepVars
  <2>2. /\ TaskInv(t)' /\ Follows(stored[t].status, mem'[t].status)
        /\ UNCHANGED response \/ Answers(t)
    BY <1>5, SaveStores
       DEF TypeOK, PromiseInv, TaskInv, StoredIsEarlier, Follows, StatusAtAwait, Unanswered,
           Listening, Answered, NoneRevokes, Unrecorded, Running, Working, Ending, Async,
           Answers, RebootIfRequired, Goto, storeVars, clientVars, prepVars
  <2> QED BY <2>1, <2>2, OwnStep
<1>6. CASE RebootCheckHangs(t)
  <2>1. Own(t)
    BY <1>6, SaveStores
       DEF TypeOK, Own, OthersStay, RebootCheckHangs, Goto, storeVars, clientVars, prepVars
  <2>2. /\ TaskInv(t)' /\ Follows(stored[t].status, mem'[t].status)
        /\ UNCHANGED response \/ Answers(t)
    BY <1>6, SaveStores
       DEF TypeOK, PromiseInv, TaskInv, StoredIsEarlier, Follows, StatusAtAwait, Unanswered,
           Listening, Answered, NoneRevokes, Unrecorded, Running, Working, Ending, Async,
           Answers, RebootCheckHangs, Goto, storeVars, clientVars, prepVars
  <2> QED BY <2>1, <2>2, OwnStep
<1>7. CASE FailTail(t)
  <2>1. Own(t)
    BY <1>7, UpdateResultSets, SaveStores
       DEF TypeOK, Own, OthersStay, FailTail, Goto, storeVars, clientVars, prepVars
  <2>2. /\ TaskInv(t)' /\ Follows(stored[t].status, mem'[t].status)
        /\ UNCHANGED response \/ Answers(t)
    BY <1>7, UpdateResultSets, SaveStores
       DEF TypeOK, PromiseInv, TaskInv, StoredIsEarlier, Follows, StatusAtAwait, Unanswered,
           Listening, Answered, NoneRevokes, Unrecorded, Running, Working, Ending, Async,
           Answers, FailTail, Goto, storeVars, clientVars, prepVars
  <2> QED BY <2>1, <2>2, OwnStep
<1>8. CASE PostWebhook(t)
  <2>1. Own(t)
    BY <1>8, SaveStores
       DEF TypeOK, Own, OthersStay, PostWebhook, Goto, storeVars, clientVars, prepVars
  <2>2. /\ TaskInv(t)' /\ Follows(stored[t].status, mem'[t].status)
        /\ UNCHANGED response \/ Answers(t)
    BY <1>8, SaveStores
       DEF TypeOK, PromiseInv, TaskInv, StoredIsEarlier, Follows, StatusAtAwait, Unanswered,
           Listening, Answered, NoneRevokes, Unrecorded, Running, Working, Ending, Async,
           Answers, PostWebhook, Goto, storeVars, clientVars, prepVars
  <2> QED BY <2>1, <2>2, OwnStep
<1> QED BY <1>1, <1>2, <1>3, <1>4, <1>5, <1>6, <1>7, <1>8 DEF Finish

LEMMA ListenerPromise ==
  ASSUME TypeOK, RevokeInv, PromiseInv, RevokesAlone, NEW t \in Task, Listener(t)
  PROVE  PromiseInv' /\ PromiseStep
<1> USE DEF PC, EarlyPC, OnboardPC, ProcessPC, RollbackPC, TailPC
<1>1. CASE PrepSave(t)
  <2>1. Own(t)
    BY <1>1, SaveStores DEF TypeOK, Own, OthersStay, PrepSave, storeVars, clientVars
  <2>2. /\ TaskInv(t)' /\ Follows(stored[t].status, mem'[t].status)
        /\ UNCHANGED response
    BY <1>1
       DEF TypeOK, PromiseInv, TaskInv, StoredIsEarlier, Follows, StatusAtAwait, Unanswered,
           Listening, Answered, NoneRevokes, Async, PrepSave, storeVars, clientVars
  <2> QED BY <2>1, <2>2, OwnStep
<1>2. CASE PrepMark(t)
  <2>1. Own(t)
    BY <1>2, UpdateResultSets, SaveStores DEF TypeOK, Own, OthersStay, PrepMark, clientVars
  <2>2. /\ mem'[t].status \in {"REVOKING", "REBOOTING_AND_RESUMING"}
        /\ stored'[t] = mem'[t] /\ mem'[t].declaration = mem[t].declaration
        /\ revPrep[t] # "idle" \/ rebPrep[t] # "idle"
        /\ revPrep'[t] # "idle" => revPrep[t] # "idle"
        /\ rebPrep'[t] # "idle" => rebPrep[t] # "idle"
        /\ UNCHANGED <<pc, ctx, response>>
    BY <1>2, UpdateResultSets DEF TypeOK, PrepMark, Save, clientVars
  <2>3. /\ TaskInv(t)' /\ Follows(stored[t].status, mem'[t].status)
        /\ UNCHANGED response
    BY <2>2
       DEF PromiseInv, TaskInv, StoredIsEarlier, Follows, StatusAtAwait, Unanswered, Listening,
           Answered, NoneRevokes, Unrecorded, Running, Working, Ending, Async
  <2> QED BY <2>1, <2>3, OwnStep
<1>3. CASE EmitReady(t)
  <2>1. pc[t] = "waitReady" /\ mem[t].declaration.revoke /\ NoneRevokes(t)
    BY <1>3 DEF EmitReady, PromiseInv, TaskInv, Listening, RevokeInv
  <2>2. \A u \in Task : u = t
    BY <2>1 DEF RevokesAlone, NoneRevokes
  <2>3. pc'[t] \in {"waitReady", "revoke"}
    BY <1>3, <2>1, <2>2 DEF TypeOK, EmitReady
  <2>4. Own(t)
    BY <1>3, <2>2, SaveStores DEF Own, OthersStay, EmitReady, storeVars
  <2>5. /\ TaskInv(t)' /\ Follows(stored[t].status, mem'[t].status)
        /\ UNCHANGED response
    BY <1>3, <2>1, <2>3
       DEF TypeOK, PromiseInv, TaskInv, StoredIsEarlier, Follows, StatusAtAwait, Unanswered,
           Listening, Answered, NoneRevokes, Unrecorded, Running, Working, Ending, Async,
           EmitReady, storeVars, clientVars
  <2> QED BY <2>4, <2>5, OwnStep
<1>4. CASE RebootNow(t)
  <2>1. Own(t)
    BY <1>4, SaveStores DEF TypeOK, Own, OthersStay, RebootNow, storeVars, clientVars
  <2>2. /\ TaskInv(t)' /\ Follows(stored[t].status, mem'[t].status)
        /\ UNCHANGED response
    BY <1>4
       DEF TypeOK, PromiseInv, TaskInv, StoredIsEarlier, Follows, StatusAtAwait, Unanswered,
           Listening, Answered, NoneRevokes, Async, RebootNow, storeVars, clientVars
  <2> QED BY <2>1, <2>2, OwnStep
<1>5. CASE PrepFails(t)
  <2>1. Own(t)
    BY <1>5, UpdateResultSets, SaveStores DEF TypeOK, Own, OthersStay, PrepFails, clientVars
  <2>2. /\ \/ mem'[t] = mem[t]
           \/ mem'[t].status \in {"REVOKING", "REBOOTING_AND_RESUMING"}
        /\ stored'[t] = stored[t] /\ mem'[t].declaration = mem[t].declaration
        /\ revPrep[t] # "idle" \/ rebPrep[t] # "idle"
        /\ revPrep'[t] # "idle" => revPrep[t] # "idle"
        /\ rebPrep'[t] # "idle" => rebPrep[t] # "idle"
        /\ UNCHANGED <<pc, ctx, response>>
    BY <1>5, UpdateResultSets DEF TypeOK, PrepFails, NotSaved, clientVars
  <2>3. /\ TaskInv(t)' /\ Follows(stored[t].status, mem'[t].status)
        /\ UNCHANGED response
    BY <2>2
       DEF PromiseInv, TaskInv, StoredIsEarlier, Follows, StatusAtAwait, Unanswered, Listening,
           Answered, NoneRevokes, Unrecorded, Running, Working, Ending, Async
  <2> QED BY <2>1, <2>3, OwnStep
<1> QED BY <1>1, <1>2, <1>3, <1>4, <1>5 DEF Listener

LEMMA PostPromise ==
  ASSUME TypeOK, PromiseInv, NEW t \in Task, NEW d \in Declarations, Post(t, d)
  PROVE  PromiseInv' /\ PromiseStep
<1>1. Own(t)
  BY DEF TypeOK, Own, OthersStay, Stores, Post, NewId, prepVars, clientVars
<1>2. /\ mem[t].status = "absent" /\ mem'[t].status = "none" /\ mem'[t].declaration = d
      /\ pc'[t] = "validating" /\ ctx'[t].resumed = FALSE /\ response[t] = "none"
      /\ UNCHANGED <<stored, response, revPrep, rebPrep>>
  BY DEF TypeOK, Post, NewId, NoRecord, NoContext, prepVars, clientVars
<1>3. pc[t] = "idle" /\ revPrep[t] = "idle" /\ rebPrep[t] = "idle"
  BY <1>2
     DEF TypeOK, PromiseInv, TaskInv, StatusAtAwait, Listening, Running, Working, Ending, PC,
         EarlyPC, OnboardPC, ProcessPC, RollbackPC, TailPC
<1>4. /\ TaskInv(t)' /\ Follows(stored[t].status, mem'[t].status)
      /\ UNCHANGED response
  BY <1>2, <1>3
     DEF PromiseInv, TaskInv, StoredIsEarlier, Follows, StatusAtAwait, Unanswered, Listening,
         Answered, NoneRevokes, Unrecorded, Running, Working, Ending, Async, EarlyPC, OnboardPC,
         ProcessPC, RollbackPC, TailPC
<1> QED BY <1>1, <1>4, OwnStep

LEMMA PostUnreadablePromise ==
  ASSUME TypeOK, PromiseInv, NEW t \in Task, PostUnreadable(t)
  PROVE  PromiseInv' /\ PromiseStep
<1>1. /\ up /\ UNCHANGED <<up, stored, revPrep, rebPrep>>
      /\ mem[t].status = "absent" /\ mem'[t].status = "ERROR"
      /\ mem'[t].declaration = NoDeclaration
      /\ pc'[t] = "done" /\ response[t] = "none"
      /\ response' = [response EXCEPT ![t] = "unreadable"]
      /\ \A u \in Task \ {t} : mem'[u] = mem[u] /\ pc'[u] = pc[u] /\ ctx'[u] = ctx[u]
  BY PostUnreadableSets DEF prepVars
<1>2. response'[t] = "unreadable" /\ Own(t)
  BY <1>1 DEF TypeOK, Own, OthersStay, Stores
<1>3. pc[t] = "idle" /\ revPrep[t] = "idle" /\ rebPrep[t] = "idle"
  BY <1>1
     DEF TypeOK, PromiseInv, TaskInv, StatusAtAwait, Listening, Running, Working, Ending, PC,
         EarlyPC, OnboardPC, ProcessPC, RollbackPC, TailPC
<1>4. stored[t].status = "absent"
  BY <1>1 DEF PromiseInv, TaskInv, StoredIsEarlier, Follows, Unrecorded
<1>5. /\ TaskInv(t)' /\ Follows(stored[t].status, mem'[t].status)
      /\ Refuses(t)
  BY <1>1, <1>2, <1>3, <1>4
     DEF PromiseInv, TaskInv, StoredIsEarlier, Follows, StatusAtAwait, Unanswered, Listening,
         Answered, NoneRevokes, NoDeclaration, Unrecorded, Running, Working, Ending, Refuses,
         EarlyPC, OnboardPC, ProcessPC, RollbackPC, TailPC
<1> QED BY <1>2, <1>5, OwnStep

(* A restart loses what is not stored, and with it every chain and listener. *)
LEMMA LoseProcessPromise ==
  ASSUME TypeOK, PromiseInv, LoseProcess
  PROVE  PromiseInv' /\ PromiseStep
<1>1. ASSUME NEW t \in Task PROVE TaskInv(t)' /\ Follows(stored[t].status, mem'[t].status)
  <2>1. /\ mem'[t] = stored[t] /\ stored'[t] = stored[t] /\ pc'[t] = "idle"
        /\ response'[t] = response[t] /\ revPrep'[t] = "idle" /\ rebPrep'[t] = "idle"
    BY DEF LoseProcess, clientVars
  <2> QED BY <2>1
          DEF PromiseInv, TaskInv, StoredIsEarlier, Follows, StatusAtAwait, Unanswered,
              Listening, Answered, NoneRevokes, Unrecorded, Running, Working, Ending, EarlyPC,
              OnboardPC, ProcessPC, RollbackPC, TailPC
<1>2. Down'
  BY DEF Down, LoseProcess
<1> QED BY <1>1, <1>2 DEF PromiseInv, PromiseStep, LoseProcess, clientVars

LEMMA StartupPromise ==
  ASSUME TypeOK, RevokeInv, PromiseInv, Startup
  PROVE  PromiseInv' /\ PromiseStep
<1>1. /\ ~up /\ up' /\ mem = stored /\ \A u \in Task : pc[u] = "idle"
      /\ UNCHANGED <<response, revPrep, rebPrep>>
  BY DEF Startup, RevokeInv, PromiseInv, Down, prepVars
<1>2. CASE UNCHANGED <<mem, stored, pc, ctx>>
  <2>1. \A u \in Task : TaskInv(u)' /\ Follows(stored[u].status, mem'[u].status)
    BY <1>1, <1>2, SavedByAnother DEF PromiseInv
  <2> QED BY <1>1, <1>2, <2>1 DEF PromiseInv, PromiseStep, Down
<1>3. ASSUME NEW r \in Task, r = mostRecent, mem[r].status \in ResumedStatus \cup {"REBOOTING"}
      PROVE  PromiseInv' /\ PromiseStep
  <2>1. /\ \A u \in Task \ {r} : mem'[u] = mem[u] /\ pc'[u] = pc[u] /\ ctx'[u] = ctx[u]
        /\ \A u \in Task : stored'[u] \in {stored[u], mem'[u]}
    BY <1>3 DEF TypeOK, Startup, UpdateResult, Save, NotSaved, ResumedStatus
  <2>2. \A u \in Task \ {r} : TaskInv(u)' /\ Follows(stored[u].status, mem'[u].status)
    BY <1>1, <2>1, SavedByAnother DEF PromiseInv
  <2>3. TaskInv(r)' /\ Follows(stored[r].status, mem'[r].status)
    <3>1. CASE mem[r].status = "REBOOTING"
      <4>1. /\ mem'[r].status = "OK" /\ mem'[r].declaration = mem[r].declaration
            /\ UNCHANGED <<pc, ctx>>
        BY <1>3, <3>1, UpdateResultSets DEF Startup, ResumedStatus
      <4> QED BY <1>1, <1>3, <2>1, <3>1, <4>1
              DEF PromiseInv, TaskInv, StoredIsEarlier, Follows, StatusAtAwait, Unanswered,
                  Listening, Answered, NoneRevokes, Unrecorded, Running, Working, Ending,
                  EarlyPC, OnboardPC, ProcessPC, RollbackPC, TailPC
    <3>2. CASE mem[r].status \in ResumedStatus
      <4>1. /\ mem'[r].status = "RUNNING" /\ ~mem'[r].declaration.revoke
            /\ pc'[r] = "resumeInit" /\ ctx'[r].resumed
        BY <1>3, <3>2, ResumedTask
      <4> QED BY <1>1, <1>3, <2>1, <3>2, <4>1
              DEF PromiseInv, TaskInv, StoredIsEarlier, Follows, StatusAtAwait, Unanswered,
                  Listening, Answered, NoneRevokes, Unrecorded, Running, Working, Ending,
                  EarlyPC, OnboardPC, ProcessPC, RollbackPC, TailPC, ResumedStatus
    <3> QED BY <1>3, <3>1, <3>2
  <2> QED BY <1>1, <2>1, <2>2, <2>3 DEF PromiseInv, PromiseStep, Down
<1> QED BY <1>2, <1>3 DEF Startup, storeVars

LEMMA NextPromise ==
  ASSUME TypeOK, RevokeInv, PromiseInv, RevokesAlone, [Next]_vars
  PROVE  PromiseInv' /\ PromiseStep
<1>1. CASE \E t \in Task, d \in Declarations : Post(t, d)
  BY <1>1, PostPromise
<1>2. ASSUME NEW t \in Task, PostUnreadable(t) \/ Chain(t) PROVE PromiseInv' /\ PromiseStep
  BY <1>2, PostUnreadablePromise, AcceptPromise, OnboardPromise, RollbackPromise, FinishPromise
     DEF Chain
<1>3. ASSUME NEW t \in Task, Listener(t) PROVE PromiseInv' /\ PromiseStep
  BY <1>3, ListenerPromise
<1>4. ASSUME UNCHANGED <<up, mem, stored, pc, ctx, response, revPrep, rebPrep>>
      PROVE  PromiseInv' /\ PromiseStep
  <2>1. \A u \in Task : TaskInv(u)' /\ Follows(stored[u].status, mem'[u].status)
    BY <1>4, SavedByAnother DEF PromiseInv
  <2> QED BY <1>4, <2>1 DEF PromiseInv, PromiseStep, Down
<1>5. CASE Environment
  BY <1>4, <1>5, LoseProcessPromise, StartupPromise
     DEF Environment, ServiceRestart, DeviceReboot, DiskCommandEnds, storeVars, prepVars,
         clientVars
<1>6. CASE UNCHANGED vars
  BY <1>4, <1>6 DEF vars, storeVars, prepVars, clientVars
<1> QED BY <1>1, <1>2, <1>3, <1>5, <1>6 DEF Next

LEMMA InitPromise == Init => PromiseInv
<1> SUFFICES ASSUME Init PROVE PromiseInv
  OBVIOUS
<1> QED BY DEF Init, NoRecord, NoDeclaration, NoContext, PromiseInv, Down, TaskInv,
               StoredIsEarlier, Follows, StatusAtAwait, Unanswered, Listening, Answered,
               NoneRevokes, Unrecorded, Running, Working, Ending, EarlyPC, OnboardPC,
               ProcessPC, RollbackPC, TailPC

(* However the environment fails, restnoded crashes and the device reboots, *)
(* the invariant holds, and every step is one that the clients may see.    *)
LEMMA SpecPromise ==
  ASSUME RevokesAlone
  PROVE  Spec => []PromiseInv
<1>1. Init => PromiseInv
  BY InitPromise
<1>2. TypeOK /\ RevokeInv /\ PromiseInv /\ [Next]_vars => PromiseInv'
  BY NextPromise
<1> QED BY <1>1, <1>2, TypeCorrect, RevokeInvariant, PTL DEF Spec

-----------------------------------------------------------------------------
(* The theorems *)

(* What a client was told, no restart, failed save or save of another      *)
(* chain takes back: an answered task is in storage, one answered OK is    *)
(* stored as OK, and one answered REBOOTING as a reboot that a startup     *)
(* turns into OK (onPost saves before it answers).  A task whose body      *)
(* could not be read is answered without a save, and is never more than an *)
(* error (onPost, the return after sendResponse).                          *)
THEOREM AnswersAreDurable ==
  ASSUME RevokesAlone
  PROVE  Spec => []AnswerIsDurable
<1>1. PromiseInv => AnswerIsDurable
  BY DEF PromiseInv, TaskInv, Answered, AnswerIsDurable, Unrecorded
<1> QED BY <1>1, SpecPromise, PTL

(* The worker implements the promise to its clients: what storage says of  *)
(* a task only goes forward, and each client is answered at most once,     *)
(* about a task on record and with what storage says of it, unless its     *)
(* body could not be read: then it is refused, and nothing is ever done    *)
(* for it.  Every other step, restarts included, is invisible (onPost,     *)
(* state.js save and load, handleStartupState).                            *)
THEOREM PromiseKept ==
  ASSUME RevokesAlone
  PROVE  Spec => KeepsPromise
<1> USE DEF Unrecorded
<1>1. ASSUME Init PROVE Promise!Init
  <2>1. \A t \in Task : stored[t].status = "absent" /\ response[t] = "none"
    BY <1>1 DEF Init, NoRecord
  <2> QED BY <2>1 DEF Promise!Init
<1>2. ASSUME TypeOK, TypeOK', PromiseInv, PromiseInv', PromiseStep
      PROVE  [Promise!Next]_(Promise!vars)
  <2>1. response \in [Task -> Answer] /\ \A t \in Task : mem[t].status \in Status
    BY <1>2, RecordType DEF TypeOK
  <2>2. CASE UNCHANGED response
    <3> DEFINE PhaseOf(status) ==
                 CASE status \in {"absent", "none"} -> "absent"
                   [] status = "OK" -> "ok"
                   [] status = "ERROR" -> "failed"
                   [] OTHER -> "working"
    <3>1. \A t \in Task : response[t] = "unreadable" =>
            stored[t].status \in {"absent", "ERROR"} /\ stored'[t].status \in {"absent", "ERROR"}
      BY <1>2, <2>2 DEF PromiseInv, TaskInv, Answered
    <3>2. \A t \in Task : Follows(stored[t].status, stored'[t].status)
      BY <1>2 DEF PromiseStep, Follows
    <3>3. ASSUME NEW t \in Task
          PROVE  LET was == PhaseOf(stored[t].status)
                     now == PhaseOf(stored'[t].status)
                 IN was = now \/ <<was, now>> \in Promise!Forward(t)
      BY <3>1, <3>2 DEF Follows, Promise!Forward
    <3>4. \A t \in Task : PhaseOf(stored'[t].status) \in Promise!Phase
      BY DEF Promise!Phase
    <3> QED BY <2>2, <3>3, <3>4 DEF Promise!Next, Promise!Record, Promise!vars
  <2>3. ASSUME NEW t \in Task, Answers(t) PROVE Promise!AnswerClient(t)
    <3> DEFINE Told(said) == CASE said = "none" -> "none"
                               [] said = "unreadable" -> "refused"
                               [] said = "OK" -> "ok"
                               [] said = "ERROR" -> "failed"
                               [] OTHER -> "accepted"
               AnswerOf(r) == [u \in Task |-> Told(r[u])]
    <3> DEFINE was == stored[t].status
               now == mem[t].status
    <3>1. /\ now \in Status
          /\ now \notin {"absent", "none"}
          /\ was \notin {"absent", "none"}
          /\ now = "OK" <=> was = "OK"
          /\ was = "ERROR" => now = "ERROR"
      BY <2>1, <2>3 DEF Answers
    <3>2. /\ response[t] = "none"
          /\ response' = [response EXCEPT ![t] = now]
          /\ stored' = stored
      BY <2>3 DEF Answers
    <3> HIDE DEF was, now
    <3>3. AnswerOf(response') = [AnswerOf(response) EXCEPT ![t] = Told(now)]
      BY <2>1, <3>2
    <3>4. AnswerOf(response)[t] = "none"
      BY <3>2
    <3>5. CASE now = "OK"
      <4>1. AnswerOf(response') = [AnswerOf(response) EXCEPT ![t] = "ok"]
        BY <3>3, <3>5
      <4> QED BY <3>1, <3>2, <3>4, <3>5, <4>1 DEF was, Promise!AnswerClient
    <3>6. CASE now = "ERROR"
      <4>1. AnswerOf(response') = [AnswerOf(response) EXCEPT ![t] = "failed"]
        BY <3>3, <3>6
      <4> QED BY <3>1, <3>2, <3>4, <3>6, <4>1 DEF was, Promise!AnswerClient
    <3>7. CASE now \notin {"OK", "ERROR"}
      <4>1. Told(now) = "accepted"
        BY <3>1, <3>7 DEF Status
      <4>2. AnswerOf(response') = [AnswerOf(response) EXCEPT ![t] = "accepted"]
        BY <3>3, <4>1
      <4> QED BY <3>1, <3>2, <3>4, <3>7, <4>2 DEF was, Promise!AnswerClient
    <3> QED BY <3>5, <3>6, <3>7
  <2>4. ASSUME NEW t \in Task, Refuses(t) PROVE Promise!AnswerClient(t)
    BY <1>2, <2>4 DEF Refuses, TypeOK, Promise!AnswerClient
  <2> QED BY <1>2, <2>2, <2>3, <2>4 DEF PromiseStep, Promise!Next
<1>3. TypeOK /\ RevokeInv /\ PromiseInv /\ [Next]_vars => [Promise!Next]_(Promise!vars)
  BY <1>2, NextPromise, NextType
<1> QED BY <1>1, <1>3, TypeCorrect, RevokeInvariant, SpecPromise, PTL
        DEF Spec, KeepsPromise, Promise!Spec

-----------------------------------------------------------------------------
(* The device, when one declaration is at work on it: whatever it is, what *)
(* fails and however often restnoded and the device restart.               *)

(* Two tasks write over each other's configuration, and the timeout lets a *)
(* chain go on beside its own listener.                                    *)
OneTask == (\A t, u \in Task : t = u) /\ "timeout" \notin Faults

-----------------------------------------------------------------------------
(* The invariant *)

(* The parts of the configuration that a handler can write back. *)
Same(config, other) == config.system = other.system /\ config.rest = other.rest
OwnedBy(config, t)  == config.system = t /\ config.rest = t

(* Where a chain has written its system sections, and not yet the rest;    *)
(* where it has written everything; where it has saved that as well.       *)
SystemPC  == {"license", "waitReady", "revoke", "relicense", "disk", "diskSave", "rest",
              "waitReboot"}
WrittenPC == {"sysSave", "check", "finalSave", "postGet", "postCheck"}
SavedPC   == WrittenPC \ {"sysSave"}

(* Until the first save of the table there is nothing that a restart of    *)
(* the device could bring back.                                            *)
NothingYet(t) == stored[t].status \in Unrecorded => Same(device, sysConfig)

(* What a task has read is what it works on, and what it will return to.   *)
Reads(t) ==
  LET current == mem[t].currentConfig
      back == ctx[t].rollbackTo
  IN /\ pc[t] \in {"process", "system", "rbSystem"} => Same(device, current)
     /\ pc[t] \in SystemPC => device.system = t /\ device.rest = current.rest
     /\ pc[t] \in {"rbRest", "rbGet2", "rbReport"} => ctx[t].handler
     /\ pc[t] = "rbRest" => device.system = back.system /\ device.rest = current.rest
     /\ pc[t] \in {"rbGet2", "rbReport"} => Same(device, back)
     /\ current.large \/ stored[t].currentConfig.large => device.large

(* What the POST of a task found, as long as it did not have to be resumed. *)
Finds(t) ==
  /\ pc[t] = "resumeInit" => ctx[t].resumed
  /\ ~ctx[t].resumed =>
    /\ pc[t] \in EarlyPC \cup {"validating", "init", "getConfig"} => ~ctx[t].handler
    /\ pc[t] \in EarlyPC \cup {"validating", "init", "getConfig", "process", "system"} =>
         Same(device, found[t]) /\ Same(sysConfig, found[t])
    /\ pc[t] \in OnboardPC \ {"getConfig"} => Same(mem[t].currentConfig, found[t])
    /\ pc[t] \in RollbackPC /\ ctx[t].handler => Same(ctx[t].rollbackTo, found[t])
    /\ Dry(t) /\ pc[t] # "idle" => Same(device, found[t]) /\ Same(sysConfig, found[t])

(* On the way to success, and after it, the configuration is the task's.   *)
Writes(t) ==
  /\ pc[t] \in SystemPC \cup {"system"} => ~Dry(t)
  /\ ~Dry(t) /\ pc[t] \in WrittenPC /\ mem[t].status # "ERROR" => OwnedBy(device, t)
  /\ ~Dry(t) /\ pc[t] \in SavedPC /\ mem[t].status # "ERROR" => OwnedBy(sysConfig, t)
  /\ /\ mem[t].declaration.disk /\ ~Dry(t) /\ mem[t].status # "ERROR"
     /\ pc[t] \in WrittenPC \cup {"rest"}
     => device.large
  /\ ~Dry(t) /\ mem[t].status \in {"OK", "REBOOTING"} =>
       /\ OwnedBy(device, t) /\ OwnedBy(sysConfig, t)
       /\ mem[t].declaration.disk => device.large
  /\ stored[t].status \notin Unrecorded =>
       /\ stored[t].declaration.dryRun = Dry(t)
       /\ stored[t].declaration.disk = mem[t].declaration.disk

(* On the way back, and after it, the configuration is what the POST found. *)
RollsBack(t) ==
  /\ mem[t].message = RolledBack => mem[t].status = "ERROR"
  /\ stored[t].message = RolledBack => stored[t].status = "ERROR"
  /\ pc[t] = "badRespond" => mem[t].message # RolledBack
  /\ mem[t].message = RolledBack /\ ~ctx[t].resumed /\ pc[t] \in Ending \cup {"postGetError"} =>
       Same(device, found[t]) /\ Same(sysConfig, found[t])
  /\ mem[t].message = RolledBack /\ ~ctx[t].resumed /\ pc[t] = "finalSave" =>
       Same(device, found[t])

(* What the listener has prepared when it emits READY_FOR_REVOKE.          *)
Prepares(t) ==
  /\ mem[t].status # "absent" => mostRecent = t
  /\ stored[t].status # "absent" => storedRecent = t
  /\ revPrep[t] \in {"mark", "ready"} \/ pc[t] = "revoke" => sysConfig.system = t
  /\ revPrep[t] = "ready" \/ pc[t] = "revoke" =>
       stored[t].status = "REVOKING" /\ storedRecent = t

DeviceTask(t) ==
  NothingYet(t) /\ Reads(t) /\ Finds(t) /\ Writes(t) /\ RollsBack(t) /\ Prepares(t)

DeviceInv == \A t \in Task : DeviceTask(t)

-----------------------------------------------------------------------------
(* The helpers, for one task *)

LEMMA UpdateResultOne ==
  ASSUME TypeOK, NEW t \in Task, NEW s, NEW m, UpdateResult(t, s, m)
  PROVE  /\ mem'[t].status = s /\ mem'[t].message = m
         /\ mem'[t].declaration = mem[t].declaration
         /\ mem'[t].currentConfig = mem[t].currentConfig
BY DEF TypeOK, UpdateResult, TaskRecord

LEMMA GetCurrentConfigOne ==
  ASSUME TypeOK, NEW t \in Task, GetCurrentConfig(t)
  PROVE  /\ mem'[t].status = mem[t].status /\ mem'[t].message = mem[t].message
         /\ mem'[t].declaration = mem[t].declaration
         /\ mem'[t].currentConfig = device
BY DEF TypeOK, GetCurrentConfig, TaskRecord

(* Writing one part of the configuration leaves the others. *)
LEMMA SetConfig ==
  ASSUME NEW config \in Config, NEW x
  PROVE  /\ [config EXCEPT !.system = x].system = x
         /\ [config EXCEPT !.system = x].rest = config.rest
         /\ [config EXCEPT !.system = x].large = config.large
         /\ [config EXCEPT !.rest = x].system = config.system
         /\ [config EXCEPT !.rest = x].rest = x
         /\ [config EXCEPT !.rest = x].large = config.large
         /\ [config EXCEPT !.large = x].system = config.system
         /\ [config EXCEPT !.large = x].rest = config.rest
         /\ [config EXCEPT !.large = x].large = x
BY DEF Config

-----------------------------------------------------------------------------
(* One lemma per group of actions *)

LEMMA AcceptDevice ==
  ASSUME TypeOK, RevokeInv, PromiseInv, OneTask, NEW t \in Task, DeviceTask(t), Accept(t)
  PROVE  DeviceTask(t)'
<1>1. CASE ValidateAccepts(t)
  <2>1. /\ mem'[t].status = "RUNNING" /\ mem'[t].message = "processing"
        /\ mem'[t].declaration = mem[t].declaration
        /\ mem'[t].currentConfig = mem[t].currentConfig
        /\ stored' = mem' /\ storedRecent' = mostRecent
        /\ pc[t] = "validating" /\ pc'[t] = "platform"
        /\ UNCHANGED <<mostRecent, ctx, revPrep, device, sysConfig, found>>
    BY <1>1, UpdateResultOne
       DEF TypeOK, ValidateAccepts, Goto, Save, NotSaved, prepVars, deviceVars, auxVars
  <2>2. /\ PromiseInv /\ DeviceTask(t)
        /\ TaskInv(t)
    BY DEF PromiseInv
  <2>3. NothingYet(t)'
    BY <2>1, <2>2
       DEF DeviceTask, NothingYet, Same, Unrecorded, TaskInv, StatusAtAwait, Running, Working,
           Ending, EarlyPC, OnboardPC, ProcessPC, RollbackPC, TailPC
  <2>4. Reads(t)'
    BY <2>1, <2>2
       DEF DeviceTask, Reads, Same, SystemPC, TaskInv, StatusAtAwait, Running, Working, Ending,
           EarlyPC, OnboardPC, ProcessPC, RollbackPC, TailPC
  <2>5. Finds(t)'
    BY <2>1, <2>2
       DEF DeviceTask, Finds, Same, Dry, TaskInv, StatusAtAwait, Running, Working, Ending,
           EarlyPC, OnboardPC, ProcessPC, RollbackPC, TailPC
  <2>6. Writes(t)'
    BY <2>1, <2>2
       DEF DeviceTask, Writes, OwnedBy, SystemPC, WrittenPC, SavedPC, Dry, Unrecorded, TaskInv,
           StatusAtAwait, Running, Working, Ending, EarlyPC, OnboardPC, ProcessPC, RollbackPC,
           TailPC
  <2>7. RollsBack(t)'
    BY <2>1, <2>2
       DEF DeviceTask, RollsBack, RolledBack, Same, Ending, TaskInv, StatusAtAwait, Running,
           Working, EarlyPC, OnboardPC, ProcessPC, RollbackPC, TailPC
  <2>8. Prepares(t)'
    BY <2>1, <2>2
       DEF DeviceTask, Prepares, TaskInv, Listening, StatusAtAwait, Running, Working, Ending, EarlyPC,
           OnboardPC, ProcessPC, RollbackPC, TailPC
  <2> QED BY <2>3, <2>4, <2>5, <2>6, <2>7, <2>8 DEF DeviceTask
<1>2. CASE ValidateRejects(t)
  <2>1. /\ mem'[t].status = "ERROR" /\ mem'[t].message = "bad declaration"
        /\ mem'[t].declaration = mem[t].declaration
        /\ mem'[t].currentConfig = mem[t].currentConfig
        /\ stored' = mem' /\ storedRecent' = mostRecent
        /\ pc[t] = "validating" /\ pc'[t] = "badRespond"
        /\ UNCHANGED <<mostRecent, ctx, revPrep, device, sysConfig, found>>
    BY <1>2, UpdateResultOne
       DEF TypeOK, ValidateRejects, Goto, Save, NotSaved, prepVars, deviceVars, auxVars
  <2>2. /\ PromiseInv /\ DeviceTask(t)
        /\ TaskInv(t)
    BY DEF PromiseInv
  <2>3. NothingYet(t)'
    BY <2>1, <2>2
       DEF DeviceTask, NothingYet, Same, Unrecorded, TaskInv, StatusAtAwait, Running, Working,
           Ending, EarlyPC, OnboardPC, ProcessPC, RollbackPC, TailPC
  <2>4. Reads(t)'
    BY <2>1, <2>2
       DEF DeviceTask, Reads, Same, SystemPC, TaskInv, StatusAtAwait, Running, Working, Ending,
           EarlyPC, OnboardPC, ProcessPC, RollbackPC, TailPC
  <2>5. Finds(t)'
    BY <2>1, <2>2
       DEF DeviceTask, Finds, Same, Dry, TaskInv, StatusAtAwait, Running, Working, Ending,
           EarlyPC, OnboardPC, ProcessPC, RollbackPC, TailPC
  <2>6. Writes(t)'
    BY <2>1, <2>2
       DEF DeviceTask, Writes, OwnedBy, SystemPC, WrittenPC, SavedPC, Dry, Unrecorded, TaskInv,
           StatusAtAwait, Running, Working, Ending, EarlyPC, OnboardPC, ProcessPC, RollbackPC,
           TailPC
  <2>7. RollsBack(t)'
    BY <2>1, <2>2
       DEF DeviceTask, RollsBack, RolledBack, Same, Ending, TaskInv, StatusAtAwait, Running,
           Working, EarlyPC, OnboardPC, ProcessPC, RollbackPC, TailPC
  <2>8. Prepares(t)'
    BY <2>1, <2>2
       DEF DeviceTask, Prepares, TaskInv, Listening, StatusAtAwait, Running, Working, Ending, EarlyPC,
           OnboardPC, ProcessPC, RollbackPC, TailPC
  <2> QED BY <2>3, <2>4, <2>5, <2>6, <2>7, <2>8 DEF DeviceTask
<1>3. CASE ValidateThrows(t)
  <2>1. /\ mem'[t].status = "ERROR" /\ mem'[t].message = "error during validation"
        /\ mem'[t].declaration = mem[t].declaration
        /\ mem'[t].currentConfig = mem[t].currentConfig
        /\ UNCHANGED <<stored, storedRecent>>
        /\ pc[t] = "validating" /\ pc'[t] = "done"
        /\ UNCHANGED <<mostRecent, ctx, revPrep, device, sysConfig, found>>
    BY <1>3, UpdateResultOne
       DEF TypeOK, ValidateThrows, Goto, Save, NotSaved, prepVars, deviceVars, auxVars
  <2>2. DeviceTask(t)'
    BY <2>1
       DEF TypeOK, PromiseInv, TaskInv, StatusAtAwait, RolledBack, DeviceTask, NothingYet,
           Reads, Finds, Writes, RollsBack, Prepares, Same, OwnedBy, SystemPC, WrittenPC,
           SavedPC, Dry, Unrecorded, Running, Working, Ending, EarlyPC, OnboardPC, ProcessPC,
           RollbackPC, TailPC
  <2> QED BY <2>2
<1>4. CASE ValidateSaveFails(t)
  <2>1. /\ mem'[t].status = "ERROR"
        /\ mem'[t].message \in {"error during onboarding", "bad declaration"}
        /\ mem'[t].declaration = mem[t].declaration
        /\ mem'[t].currentConfig = mem[t].currentConfig
        /\ UNCHANGED <<stored, storedRecent>>
        /\ pc[t] = "validating" /\ pc'[t] = "done"
        /\ UNCHANGED <<mostRecent, ctx, revPrep, device, sysConfig, found>>
    BY <1>4, UpdateResultOne
       DEF TypeOK, ValidateSaveFails, Goto, Save, NotSaved, prepVars, deviceVars, auxVars
  <2>2. DeviceTask(t)'
    BY <2>1
       DEF TypeOK, PromiseInv, TaskInv, StatusAtAwait, RolledBack, DeviceTask, NothingYet,
           Reads, Finds, Writes, RollsBack, Prepares, Same, OwnedBy, SystemPC, WrittenPC,
           SavedPC, Dry, Unrecorded, Running, Working, Ending, EarlyPC, OnboardPC, ProcessPC,
           RollbackPC, TailPC
  <2> QED BY <2>2
<1>5. CASE RespondBad(t)
  <2>1. /\ pc[t] = "badRespond" /\ pc'[t] # "idle" /\ pc'[t] \in Ending
        /\ UNCHANGED <<mem, mostRecent, stored, storedRecent, ctx, revPrep, device, sysConfig, found>>
    BY <1>5
       DEF TypeOK, RespondBad, Goto, storeVars, Ending, prepVars, deviceVars, auxVars
  <2>2. /\ PromiseInv /\ DeviceTask(t)
        /\ TaskInv(t)
    BY DEF PromiseInv
  <2>3. NothingYet(t)'
    BY <2>1, <2>2
       DEF DeviceTask, NothingYet, Same, Unrecorded, TaskInv, StatusAtAwait, Running, Working,
           Ending, EarlyPC, OnboardPC, ProcessPC, RollbackPC, TailPC
  <2>4. Reads(t)'
    BY <2>1, <2>2
       DEF DeviceTask, Reads, Same, SystemPC, TaskInv, StatusAtAwait, Running, Working, Ending,
           EarlyPC, OnboardPC, ProcessPC, RollbackPC, TailPC
  <2>5. Finds(t)'
    BY <2>1, <2>2
       DEF DeviceTask, Finds, Same, Dry, TaskInv, StatusAtAwait, Running, Working, Ending,
           EarlyPC, OnboardPC, ProcessPC, RollbackPC, TailPC
  <2>6. Writes(t)'
    BY <2>1, <2>2
       DEF DeviceTask, Writes, OwnedBy, SystemPC, WrittenPC, SavedPC, Dry, Unrecorded, TaskInv,
           StatusAtAwait, Running, Working, Ending, EarlyPC, OnboardPC, ProcessPC, RollbackPC,
           TailPC
  <2>7. RollsBack(t)'
    BY <2>1, <2>2
       DEF DeviceTask, RollsBack, RolledBack, Same, Ending, TaskInv, StatusAtAwait, Running,
           Working, EarlyPC, OnboardPC, ProcessPC, RollbackPC, TailPC
  <2>8. Prepares(t)'
    BY <2>1, <2>2
       DEF DeviceTask, Prepares, Listening, TaskInv, StatusAtAwait, Running, Working, Ending,
           EarlyPC, OnboardPC, ProcessPC, RollbackPC, TailPC
  <2> QED BY <2>3, <2>4, <2>5, <2>6, <2>7, <2>8 DEF DeviceTask
<1>6. CASE Platform(t)
  BY <1>6
     DEF TypeOK, PromiseInv, TaskInv, StatusAtAwait, DeviceTask, NothingYet, Reads, Finds,
         Writes, RollsBack, Prepares, Same, OwnedBy, SystemPC, WrittenPC, SavedPC, Dry,
         Unrecorded, Running, Working, Ending, EarlyPC, OnboardPC, ProcessPC, RollbackPC,
         TailPC, Platform, Goto, Save, NotSaved, storeVars, clientVars, prepVars, deviceVars,
         auxVars
<1>7. CASE Account(t)
  BY <1>7
     DEF TypeOK, PromiseInv, TaskInv, StatusAtAwait, DeviceTask, NothingYet, Reads, Finds,
         Writes, RollsBack, Prepares, Same, OwnedBy, SystemPC, WrittenPC, SavedPC, Dry,
         Unrecorded, Running, Working, Ending, EarlyPC, OnboardPC, ProcessPC, RollbackPC,
         TailPC, Account, Goto, Save, NotSaved, storeVars, clientVars, prepVars, deviceVars,
         auxVars
<1>8. CASE FailEarly(t)
  <2>1. /\ mem'[t].status = "ERROR" /\ mem'[t].message = "error during onboarding"
        /\ mem'[t].declaration = mem[t].declaration
        /\ mem'[t].currentConfig = mem[t].currentConfig
        /\ UNCHANGED <<stored, storedRecent>>
        /\ pc[t] \in EarlyPC /\ pc'[t] = "done"
        /\ UNCHANGED <<mostRecent, ctx, revPrep, device, sysConfig, found>>
    BY <1>8, UpdateResultOne
       DEF TypeOK, FailEarly, Goto, Save, NotSaved, prepVars, deviceVars, auxVars
  <2>2. DeviceTask(t)'
    BY <2>1
       DEF TypeOK, PromiseInv, TaskInv, StatusAtAwait, RolledBack, DeviceTask, NothingYet,
           Reads, Finds, Writes, RollsBack, Prepares, Same, OwnedBy, SystemPC, WrittenPC,
           SavedPC, Dry, Unrecorded, Running, Working, Ending, EarlyPC, OnboardPC, ProcessPC,
           RollbackPC, TailPC
  <2> QED BY <2>2
<1>9. CASE InitBigIp(t)
  BY <1>9
     DEF TypeOK, PromiseInv, TaskInv, StatusAtAwait, DeviceTask, NothingYet, Reads, Finds,
         Writes, RollsBack, Prepares, Same, OwnedBy, SystemPC, WrittenPC, SavedPC, Dry,
         Unrecorded, Running, Working, Ending, EarlyPC, OnboardPC, ProcessPC, RollbackPC,
         TailPC, InitBigIp, Goto, Save, NotSaved, storeVars, clientVars, prepVars, deviceVars,
         auxVars
<1>10. CASE InitBigIpFails(t)
  <2>1. /\ mem'[t].status = "ERROR" /\ mem'[t].message = "failed to initialize device"
        /\ mem'[t].declaration = mem[t].declaration
        /\ mem'[t].currentConfig = mem[t].currentConfig
        /\ UNCHANGED <<stored, storedRecent>>
        /\ pc[t] \in {"init", "resumeInit"} /\ pc'[t] = "respond"
        /\ UNCHANGED <<mostRecent, ctx, revPrep, device, sysConfig, found>>
    BY <1>10, UpdateResultOne
       DEF TypeOK, InitBigIpFails, Goto, Save, NotSaved, prepVars, deviceVars, auxVars
  <2>2. DeviceTask(t)'
    BY <2>1
       DEF TypeOK, PromiseInv, TaskInv, StatusAtAwait, RolledBack, DeviceTask, NothingYet,
           Reads, Finds, Writes, RollsBack, Prepares, Same, OwnedBy, SystemPC, WrittenPC,
           SavedPC, Dry, Unrecorded, Running, Working, Ending, EarlyPC, OnboardPC, ProcessPC,
           RollbackPC, TailPC
  <2> QED BY <2>2
<1> QED BY <1>1, <1>2, <1>3, <1>4, <1>5, <1>6, <1>7, <1>8, <1>9, <1>10 DEF Accept

LEMMA OnboardDevice ==
  ASSUME TypeOK, RevokeInv, PromiseInv, OneTask, NEW t \in Task, DeviceTask(t), Onboard(t)
  PROVE  DeviceTask(t)'
<1>1. CASE GetConfig(t)
  <2>1. /\ mem'[t].status = mem[t].status /\ mem'[t].message = mem[t].message
        /\ mem'[t].declaration = mem[t].declaration
        /\ mem'[t].currentConfig = device
        /\ stored' = mem' /\ storedRecent' = mostRecent
        /\ pc[t] = "getConfig" /\ pc'[t] = "process"
        /\ UNCHANGED <<mostRecent, revPrep, device, sysConfig, found>>
        /\ ctx'[t].resumed = ctx[t].resumed /\ ctx'[t].handler
    BY <1>1, GetCurrentConfigOne
       DEF TypeOK, GetConfig, Goto, Save, NotSaved, prepVars, deviceVars, auxVars, Context
  <2>2. /\ PromiseInv /\ DeviceTask(t)
        /\ TaskInv(t)
    BY DEF PromiseInv
  <2>3. NothingYet(t)'
    BY <2>1, <2>2
       DEF DeviceTask, NothingYet, Same, Unrecorded, TaskInv, StatusAtAwait, Running, Working,
           Ending, EarlyPC, OnboardPC, ProcessPC, RollbackPC, TailPC
  <2>4. Reads(t)'
    BY <2>1, <2>2
       DEF DeviceTask, Reads, Same, SystemPC, TaskInv, StatusAtAwait, Running, Working, Ending,
           EarlyPC, OnboardPC, ProcessPC, RollbackPC, TailPC
  <2>5. Finds(t)'
    BY <2>1, <2>2
       DEF DeviceTask, Finds, Same, Dry, TaskInv, StatusAtAwait, Running, Working, Ending,
           EarlyPC, OnboardPC, ProcessPC, RollbackPC, TailPC
  <2>6. Writes(t)'
    BY <2>1, <2>2
       DEF DeviceTask, Writes, OwnedBy, SystemPC, WrittenPC, SavedPC, Dry, Unrecorded, TaskInv,
           StatusAtAwait, Running, Working, Ending, EarlyPC, OnboardPC, ProcessPC, RollbackPC,
           TailPC
  <2>7. RollsBack(t)'
    BY <2>1, <2>2
       DEF DeviceTask, RollsBack, RolledBack, Same, Ending, TaskInv, StatusAtAwait, Running,
           Working, EarlyPC, OnboardPC, ProcessPC, RollbackPC, TailPC
  <2>8. Prepares(t)'
    BY <2>1, <2>2
       DEF DeviceTask, Prepares, TaskInv, Listening, StatusAtAwait, Running, Working, Ending, EarlyPC,
           OnboardPC, ProcessPC, RollbackPC, TailPC
  <2> QED BY <2>3, <2>4, <2>5, <2>6, <2>7, <2>8 DEF DeviceTask
<1>2. CASE Process(t)
  <2>1. /\ mem'[t].status = mem[t].status /\ mem'[t].message = mem[t].message
        /\ mem'[t].declaration = mem[t].declaration
        /\ mem'[t].currentConfig = mem[t].currentConfig
        /\ pc[t] = "process" /\ pc'[t] = IF Dry(t) THEN "sysSave" ELSE "system"
        /\ UNCHANGED <<mostRecent, stored, storedRecent, ctx, revPrep, device, sysConfig, found>>
    BY <1>2
       DEF TypeOK, Process, Goto, NotSaved, TaskRecord, prepVars, deviceVars, auxVars
  <2>2. /\ PromiseInv /\ DeviceTask(t)
        /\ TaskInv(t)
    BY DEF PromiseInv
  <2>3. NothingYet(t)'
    BY <2>1, <2>2
       DEF DeviceTask, NothingYet, Same, Unrecorded, TaskInv, StatusAtAwait, Running, Working,
           Ending, EarlyPC, OnboardPC, ProcessPC, RollbackPC, TailPC
  <2>4. Reads(t)'
    BY <2>1, <2>2
       DEF DeviceTask, Reads, Same, SystemPC, TaskInv, StatusAtAwait, Running, Working, Ending,
           EarlyPC, OnboardPC, ProcessPC, RollbackPC, TailPC
  <2>5. Finds(t)'
    BY <2>1, <2>2
       DEF DeviceTask, Finds, Same, Dry, TaskInv, StatusAtAwait, Running, Working, Ending,
           EarlyPC, OnboardPC, ProcessPC, RollbackPC, TailPC
  <2>6. Writes(t)'
    BY <2>1, <2>2
       DEF DeviceTask, Writes, OwnedBy, SystemPC, WrittenPC, SavedPC, Dry, Unrecorded, TaskInv,
           StatusAtAwait, Running, Working, Ending, EarlyPC, OnboardPC, ProcessPC, RollbackPC,
           TailPC
  <2>7. RollsBack(t)'
    BY <2>1, <2>2
       DEF DeviceTask, RollsBack, RolledBack, Same, Ending, TaskInv, StatusAtAwait, Running,
           Working, EarlyPC, OnboardPC, ProcessPC, RollbackPC, TailPC
  <2>8. Prepares(t)'
    BY <2>1, <2>2
       DEF DeviceTask, Prepares, Listening, TaskInv, StatusAtAwait, Running, Working, Ending,
           EarlyPC, OnboardPC, ProcessPC, RollbackPC, TailPC
  <2> QED BY <2>3, <2>4, <2>5, <2>6, <2>7, <2>8 DEF DeviceTask
<1>3. CASE ApplySystem(t)
  BY <1>3
     DEF TypeOK, PromiseInv, TaskInv, StatusAtAwait, DeviceTask, NothingYet, Reads, Finds,
         Writes, RollsBack, Prepares, Same, OwnedBy, SystemPC, WrittenPC, SavedPC, Dry,
         Unrecorded, Running, Working, Ending, EarlyPC, OnboardPC, ProcessPC, RollbackPC,
         TailPC, ApplySystem, Goto, Save, NotSaved, storeVars, clientVars, prepVars, deviceVars,
         auxVars
<1>4. CASE License(t)
  BY <1>4
     DEF TypeOK, PromiseInv, TaskInv, StatusAtAwait, DeviceTask, NothingYet, Reads, Finds,
         Writes, RollsBack, Prepares, Same, OwnedBy, SystemPC, WrittenPC, SavedPC, Dry,
         Unrecorded, Running, Working, Ending, EarlyPC, OnboardPC, ProcessPC, RollbackPC,
         TailPC, License, Goto, Save, NotSaved, storeVars, clientVars, prepVars, deviceVars,
         auxVars
<1>5. CASE Revoke(t)
  BY <1>5
     DEF TypeOK, PromiseInv, TaskInv, StatusAtAwait, DeviceTask, NothingYet, Reads, Finds,
         Writes, RollsBack, Prepares, Same, OwnedBy, SystemPC, WrittenPC, SavedPC, Dry,
         Unrecorded, Running, Working, Ending, EarlyPC, OnboardPC, ProcessPC, RollbackPC,
         TailPC, Revoke, Goto, Save, NotSaved, storeVars, clientVars, prepVars, deviceVars,
         auxVars
<1>6. CASE Relicense(t)
  BY <1>6
     DEF TypeOK, PromiseInv, TaskInv, StatusAtAwait, DeviceTask, NothingYet, Reads, Finds,
         Writes, RollsBack, Prepares, Same, OwnedBy, SystemPC, WrittenPC, SavedPC, Dry,
         Unrecorded, Running, Working, Ending, EarlyPC, OnboardPC, ProcessPC, RollbackPC,
         TailPC, Relicense, Goto, Save, NotSaved, storeVars, clientVars, prepVars, deviceVars,
         auxVars
<1>7. CASE Disk(t)
  BY <1>7
     DEF TypeOK, PromiseInv, TaskInv, StatusAtAwait, DeviceTask, NothingYet, Reads, Finds,
         Writes, RollsBack, Prepares, Same, OwnedBy, SystemPC, WrittenPC, SavedPC, Dry,
         Unrecorded, Running, Working, Ending, EarlyPC, OnboardPC, ProcessPC, RollbackPC,
         TailPC, Disk, Goto, Save, NotSaved, storeVars, clientVars, prepVars, deviceVars,
         auxVars
<1>8. CASE DiskSave(t)
  <2>1. /\ mem'[t].status = mem[t].status /\ mem'[t].message = mem[t].message
        /\ mem'[t].declaration = mem[t].declaration
        /\ mem'[t].currentConfig = mem[t].currentConfig
        /\ \/ stored' = mem' /\ storedRecent' = mostRecent
           \/ UNCHANGED <<stored, storedRecent>>
        /\ pc[t] = "diskSave" /\ pc'[t] = "waitReboot"
        /\ sysConfig' = device
        /\ UNCHANGED <<mostRecent, ctx, revPrep, device, found>>
    BY <1>8
       DEF TypeOK, DiskSave, Goto, Save, NotSaved, TaskRecord, prepVars, deviceVars, auxVars
  <2>2. /\ PromiseInv /\ DeviceTask(t)
        /\ TaskInv(t)
    BY DEF PromiseInv
  <2>3. NothingYet(t)'
    BY <2>1, <2>2
       DEF DeviceTask, NothingYet, Same, Unrecorded, TaskInv, StatusAtAwait, Running, Working,
           Ending, EarlyPC, OnboardPC, ProcessPC, RollbackPC, TailPC
  <2>4. Reads(t)'
    BY <2>1, <2>2
       DEF DeviceTask, Reads, Same, SystemPC, TaskInv, StatusAtAwait, Running, Working, Ending,
           EarlyPC, OnboardPC, ProcessPC, RollbackPC, TailPC
  <2>5. Finds(t)'
    BY <2>1, <2>2
       DEF DeviceTask, Finds, Same, Dry, TaskInv, StatusAtAwait, Running, Working, Ending,
           EarlyPC, OnboardPC, ProcessPC, RollbackPC, TailPC
  <2>6. Writes(t)'
    BY <2>1, <2>2
       DEF DeviceTask, Writes, OwnedBy, SystemPC, WrittenPC, SavedPC, Dry, Unrecorded, TaskInv,
           StatusAtAwait, Running, Working, Ending, EarlyPC, OnboardPC, ProcessPC, RollbackPC,
           TailPC
  <2>7. RollsBack(t)'
    BY <2>1, <2>2
       DEF DeviceTask, RollsBack, RolledBack, Same, Ending, TaskInv, StatusAtAwait, Running,
           Working, EarlyPC, OnboardPC, ProcessPC, RollbackPC, TailPC
  <2>8. Prepares(t)'
    BY <2>1, <2>2
       DEF DeviceTask, Prepares, Listening, TaskInv, StatusAtAwait, Running, Working, Ending,
           EarlyPC, OnboardPC, ProcessPC, RollbackPC, TailPC
  <2> QED BY <2>3, <2>4, <2>5, <2>6, <2>7, <2>8 DEF DeviceTask
<1>9. CASE ApplyRest(t)
  BY <1>9
     DEF TypeOK, PromiseInv, TaskInv, StatusAtAwait, DeviceTask, NothingYet, Reads, Finds,
         Writes, RollsBack, Prepares, Same, OwnedBy, SystemPC, WrittenPC, SavedPC, Dry,
         Unrecorded, Running, Working, Ending, EarlyPC, OnboardPC, ProcessPC, RollbackPC,
         TailPC, ApplyRest, Goto, Save, NotSaved, storeVars, clientVars, prepVars, deviceVars,
         auxVars
<1>10. CASE SysSave(t)
  <2>1. /\ pc[t] = "sysSave" /\ pc'[t] = "check"
        /\ sysConfig' = IF Dry(t) THEN sysConfig ELSE device
        /\ UNCHANGED <<mem, mostRecent, stored, storedRecent, ctx, revPrep, device, found>>
    BY <1>10
       DEF TypeOK, SysSave, Goto, storeVars, SaveConfig, Dry, prepVars, deviceVars, auxVars
  <2>2. /\ PromiseInv /\ DeviceTask(t)
        /\ TaskInv(t)
    BY DEF PromiseInv
  <2>3. NothingYet(t)'
    BY <2>1, <2>2
       DEF DeviceTask, NothingYet, Same, Unrecorded, TaskInv, StatusAtAwait, Running, Working,
           Ending, EarlyPC, OnboardPC, ProcessPC, RollbackPC, TailPC
  <2>4. Reads(t)'
    BY <2>1, <2>2
       DEF DeviceTask, Reads, Same, SystemPC, TaskInv, StatusAtAwait, Running, Working, Ending,
           EarlyPC, OnboardPC, ProcessPC, RollbackPC, TailPC
  <2>5. Finds(t)'
    BY <2>1, <2>2
       DEF DeviceTask, Finds, Same, Dry, TaskInv, StatusAtAwait, Running, Working, Ending,
           EarlyPC, OnboardPC, ProcessPC, RollbackPC, TailPC
  <2>6. Writes(t)'
    BY <2>1, <2>2
       DEF DeviceTask, Writes, OwnedBy, SystemPC, WrittenPC, SavedPC, Dry, Unrecorded, TaskInv,
           StatusAtAwait, Running, Working, Ending, EarlyPC, OnboardPC, ProcessPC, RollbackPC,
           TailPC
  <2>7. RollsBack(t)'
    BY <2>1, <2>2
       DEF DeviceTask, RollsBack, RolledBack, Same, Ending, TaskInv, StatusAtAwait, Running,
           Working, EarlyPC, OnboardPC, ProcessPC, RollbackPC, TailPC
  <2>8. Prepares(t)'
    BY <2>1, <2>2
       DEF DeviceTask, Prepares, Listening, TaskInv, StatusAtAwait, Running, Working, Ending,
           EarlyPC, OnboardPC, ProcessPC, RollbackPC, TailPC
  <2> QED BY <2>3, <2>4, <2>5, <2>6, <2>7, <2>8 DEF DeviceTask
<1>11. CASE CheckReboot(t)
  BY <1>11
     DEF TypeOK, PromiseInv, TaskInv, StatusAtAwait, DeviceTask, NothingYet, Reads, Finds,
         Writes, RollsBack, Prepares, Same, OwnedBy, SystemPC, WrittenPC, SavedPC, Dry,
         Unrecorded, Running, Working, Ending, EarlyPC, OnboardPC, ProcessPC, RollbackPC,
         TailPC, CheckReboot, Goto, Save, NotSaved, storeVars, clientVars, prepVars, deviceVars,
         auxVars
<1>12. CASE FailOnboard(t)
  <2>1. /\ mem'[t].declaration = mem[t].declaration
        /\ mem'[t].currentConfig = mem[t].currentConfig
        /\ pc[t] \in OnboardPC \ {"waitReady"}
        /\ UNCHANGED <<mostRecent, revPrep, device, sysConfig, found>>
    <3>1. PICK status, message : UpdateResult(t, status, message)
      BY <1>12 DEF FailOnboard
    <3>2. pc[t] \in OnboardPC \ {"waitReady"} /\ UNCHANGED mostRecent
      BY <1>12 DEF FailOnboard, OneTask, MayFail, Save, NotSaved
    <3> QED BY <1>12, <3>1, <3>2, UpdateResultOne DEF FailOnboard, prepVars, deviceVars, auxVars
  <2>2. \/ /\ mem'[t].status = "ROLLING_BACK" /\ pc'[t] = "rbGet"
           /\ mem'[t].message = "invalid config - rolling back"
           /\ stored' = mem' /\ storedRecent' = mostRecent
           /\ ctx'[t].rollbackTo = mem[t].currentConfig
           /\ ctx'[t].resumed = ctx[t].resumed /\ ctx'[t].handler = ctx[t].handler
        \/ /\ mem'[t].status = "ERROR" /\ pc'[t] = "finalSave"
           /\ mem'[t].message = "rollback failed"
           /\ UNCHANGED <<stored, storedRecent, ctx>>
    <3>1. CASE /\ pc' = [pc EXCEPT ![t] = "rbGet"]
               /\ UpdateResult(t, "ROLLING_BACK", "invalid config - rolling back") /\ Save
               /\ ctx' = [ctx EXCEPT ![t].rollbackTo = mem[t].currentConfig]
      <4> DEFINE c == [ctx[t] EXCEPT !.rollbackTo = mem[t].currentConfig]
      <4>1. /\ c.rollbackTo = mem[t].currentConfig
            /\ c.resumed = ctx[t].resumed /\ c.handler = ctx[t].handler
        BY DEF TypeOK, Context
      <4>2. ctx'[t] = c
        BY <3>1 DEF TypeOK
      <4>3. /\ mem'[t].status = "ROLLING_BACK" /\ pc'[t] = "rbGet"
            /\ mem'[t].message = "invalid config - rolling back"
        BY <3>1, UpdateResultOne DEF TypeOK
      <4> HIDE DEF c
      <4> QED BY <3>1, <4>1, <4>2, <4>3 DEF Save
    <3>2. CASE /\ pc' = [pc EXCEPT ![t] = "finalSave"]
               /\ UpdateResult(t, "ERROR", "rollback failed") /\ NotSaved
               /\ UNCHANGED ctx
      <4>1. /\ mem'[t].status = "ERROR" /\ pc'[t] = "finalSave"
            /\ mem'[t].message = "rollback failed"
        BY <3>2, UpdateResultOne DEF TypeOK
      <4> QED BY <3>2, <4>1 DEF NotSaved
    <3> QED BY <1>12, <3>1, <3>2 DEF FailOnboard
  <2>3. /\ PromiseInv /\ DeviceTask(t)
        /\ TaskInv(t)
    BY DEF PromiseInv
  <2>4. NothingYet(t)'
    BY <2>1, <2>2, <2>3
       DEF DeviceTask, NothingYet, Same, Unrecorded, TaskInv, StatusAtAwait, Running, Working,
           Ending, EarlyPC, OnboardPC, ProcessPC, RollbackPC, TailPC
  <2>5. Reads(t)'
    BY <2>1, <2>2, <2>3
       DEF DeviceTask, Reads, Same, SystemPC, TaskInv, StatusAtAwait, Running, Working, Ending,
           EarlyPC, OnboardPC, ProcessPC, RollbackPC, TailPC
  <2>6. Finds(t)'
    BY <2>1, <2>2, <2>3
       DEF DeviceTask, Finds, Same, Dry, TaskInv, StatusAtAwait, Running, Working, Ending,
           EarlyPC, OnboardPC, ProcessPC, RollbackPC, TailPC
  <2>7. Writes(t)'
    BY <2>1, <2>2, <2>3
       DEF DeviceTask, Writes, OwnedBy, SystemPC, WrittenPC, SavedPC, Dry, Unrecorded, TaskInv,
           StatusAtAwait, Running, Working, Ending, EarlyPC, OnboardPC, ProcessPC, RollbackPC,
           TailPC
  <2>8. RollsBack(t)'
    BY <2>1, <2>2, <2>3
       DEF DeviceTask, RollsBack, RolledBack, Same, Ending, TaskInv, StatusAtAwait, Running,
           Working, EarlyPC, OnboardPC, ProcessPC, RollbackPC, TailPC
  <2>9. Prepares(t)'
    BY <2>1, <2>2, <2>3
       DEF DeviceTask, Prepares, Listening, TaskInv, StatusAtAwait, Running, Working, Ending,
           EarlyPC, OnboardPC, ProcessPC, RollbackPC, TailPC
  <2> QED BY <2>4, <2>5, <2>6, <2>7, <2>8, <2>9 DEF DeviceTask
<1> QED BY <1>1, <1>2, <1>3, <1>4, <1>5, <1>6, <1>7, <1>8, <1>9, <1>10, <1>11, <1>12 DEF Onboard

LEMMA RollbackDevice ==
  ASSUME TypeOK, RevokeInv, PromiseInv, OneTask, NEW t \in Task, DeviceTask(t), Rollback(t)
  PROVE  DeviceTask(t)'
<1>1. CASE RollbackGet(t)
  <2>1. /\ mem'[t].status = mem[t].status /\ mem'[t].message = mem[t].message
        /\ mem'[t].declaration = mem[t].declaration
        /\ mem'[t].currentConfig = device
        /\ stored' = mem' /\ storedRecent' = mostRecent
        /\ pc[t] = "rbGet" /\ pc'[t] = "rbSystem"
        /\ UNCHANGED <<mostRecent, ctx, revPrep, device, sysConfig, found>>
    BY <1>1, GetCurrentConfigOne
       DEF TypeOK, RollbackGet, Goto, Save, NotSaved, prepVars, deviceVars, auxVars
  <2>2. /\ PromiseInv /\ DeviceTask(t)
        /\ TaskInv(t)
    BY DEF PromiseInv
  <2>3. NothingYet(t)'
    BY <2>1, <2>2
       DEF DeviceTask, NothingYet, Same, Unrecorded, TaskInv, StatusAtAwait, Running, Working,
           Ending, EarlyPC, OnboardPC, ProcessPC, RollbackPC, TailPC
  <2>4. Reads(t)'
    BY <2>1, <2>2
       DEF DeviceTask, Reads, Same, SystemPC, TaskInv, StatusAtAwait, Running, Working, Ending,
           EarlyPC, OnboardPC, ProcessPC, RollbackPC, TailPC
  <2>5. Finds(t)'
    BY <2>1, <2>2
       DEF DeviceTask, Finds, Same, Dry, TaskInv, StatusAtAwait, Running, Working, Ending,
           EarlyPC, OnboardPC, ProcessPC, RollbackPC, TailPC
  <2>6. Writes(t)'
    BY <2>1, <2>2
       DEF DeviceTask, Writes, OwnedBy, SystemPC, WrittenPC, SavedPC, Dry, Unrecorded, TaskInv,
           StatusAtAwait, Running, Working, Ending, EarlyPC, OnboardPC, ProcessPC, RollbackPC,
           TailPC
  <2>7. RollsBack(t)'
    BY <2>1, <2>2
       DEF DeviceTask, RollsBack, RolledBack, Same, Ending, TaskInv, StatusAtAwait, Running,
           Working, EarlyPC, OnboardPC, ProcessPC, RollbackPC, TailPC
  <2>8. Prepares(t)'
    BY <2>1, <2>2
       DEF DeviceTask, Prepares, TaskInv, Listening, StatusAtAwait, Running, Working, Ending, EarlyPC,
           OnboardPC, ProcessPC, RollbackPC, TailPC
  <2> QED BY <2>3, <2>4, <2>5, <2>6, <2>7, <2>8 DEF DeviceTask
<1>2. CASE RollbackSystem(t)
  <2>1. /\ pc[t] = "rbSystem" /\ pc'[t] = "rbRest" /\ ctx[t].handler
        /\ device'.system = ctx[t].rollbackTo.system
        /\ device'.rest = device.rest /\ device'.large = device.large
        /\ UNCHANGED <<mem, mostRecent, stored, storedRecent, ctx, revPrep, sysConfig, found>>
    <3>1. device.system = mem[t].currentConfig.system
      BY <1>2 DEF RollbackSystem, Goto, DeviceTask, Reads, Same
    <3>2. device'.system = ctx[t].rollbackTo.system /\ device'.rest = device.rest
          /\ device'.large = device.large
      BY <1>2, <3>1, SetConfig DEF TypeOK, RollbackSystem
    <3> QED BY <1>2, <3>2
            DEF TypeOK, RollbackSystem, Goto, storeVars, RollbackPossible, prepVars, auxVars
  <2>2. /\ PromiseInv /\ DeviceTask(t)
        /\ TaskInv(t)
    BY DEF PromiseInv
  <2>3. NothingYet(t)'
    BY <2>1, <2>2
       DEF DeviceTask, NothingYet, Same, Unrecorded, TaskInv, StatusAtAwait, Running, Working,
           Ending, EarlyPC, OnboardPC, ProcessPC, RollbackPC, TailPC
  <2>4. Reads(t)'
    BY <2>1, <2>2
       DEF DeviceTask, Reads, Same, SystemPC, TaskInv, StatusAtAwait, Running, Working, Ending,
           EarlyPC, OnboardPC, ProcessPC, RollbackPC, TailPC
  <2>5. Finds(t)'
    BY <2>1, <2>2
       DEF DeviceTask, Finds, Same, Dry, TaskInv, StatusAtAwait, Running, Working, Ending,
           EarlyPC, OnboardPC, ProcessPC, RollbackPC, TailPC
  <2>6. Writes(t)'
    BY <2>1, <2>2
       DEF DeviceTask, Writes, OwnedBy, SystemPC, WrittenPC, SavedPC, Dry, Unrecorded, TaskInv,
           StatusAtAwait, Running, Working, Ending, EarlyPC, OnboardPC, ProcessPC, RollbackPC,
           TailPC
  <2>7. RollsBack(t)'
    BY <2>1, <2>2
       DEF DeviceTask, RollsBack, RolledBack, Same, Ending, TaskInv, StatusAtAwait, Running,
           Working, EarlyPC, OnboardPC, ProcessPC, RollbackPC, TailPC
  <2>8. Prepares(t)'
    BY <2>1, <2>2
       DEF DeviceTask, Prepares, Listening, TaskInv, StatusAtAwait, Running, Working, Ending,
           EarlyPC, OnboardPC, ProcessPC, RollbackPC, TailPC
  <2> QED BY <2>3, <2>4, <2>5, <2>6, <2>7, <2>8 DEF DeviceTask
<1>3. CASE RollbackRest(t)
  BY <1>3
     DEF TypeOK, PromiseInv, TaskInv, StatusAtAwait, DeviceTask, NothingYet, Reads, Finds,
         Writes, RollsBack, Prepares, Same, OwnedBy, SystemPC, WrittenPC, SavedPC, Dry,
         Unrecorded, Running, Working, Ending, EarlyPC, OnboardPC, ProcessPC, RollbackPC,
         TailPC, RollbackRest, Goto, Save, NotSaved, storeVars, clientVars, prepVars,
         deviceVars, auxVars
<1>4. CASE RollbackGet2(t)
  <2>1. /\ mem'[t].status = mem[t].status /\ mem'[t].message = mem[t].message
        /\ mem'[t].declaration = mem[t].declaration
        /\ mem'[t].currentConfig = device
        /\ stored' = mem' /\ storedRecent' = mostRecent
        /\ pc[t] = "rbGet2" /\ pc'[t] = "rbReport"
        /\ UNCHANGED <<mostRecent, ctx, revPrep, device, sysConfig, found>>
    BY <1>4, GetCurrentConfigOne
       DEF TypeOK, RollbackGet2, Goto, Save, NotSaved, prepVars, deviceVars, auxVars
  <2>2. /\ PromiseInv /\ DeviceTask(t)
        /\ TaskInv(t)
    BY DEF PromiseInv
  <2>3. NothingYet(t)'
    BY <2>1, <2>2
       DEF DeviceTask, NothingYet, Same, Unrecorded, TaskInv, StatusAtAwait, Running, Working,
           Ending, EarlyPC, OnboardPC, ProcessPC, RollbackPC, TailPC
  <2>4. Reads(t)'
    BY <2>1, <2>2
       DEF DeviceTask, Reads, Same, SystemPC, TaskInv, StatusAtAwait, Running, Working, Ending,
           EarlyPC, OnboardPC, ProcessPC, RollbackPC, TailPC
  <2>5. Finds(t)'
    BY <2>1, <2>2
       DEF DeviceTask, Finds, Same, Dry, TaskInv, StatusAtAwait, Running, Working, Ending,
           EarlyPC, OnboardPC, ProcessPC, RollbackPC, TailPC
  <2>6. Writes(t)'
    BY <2>1, <2>2
       DEF DeviceTask, Writes, OwnedBy, SystemPC, WrittenPC, SavedPC, Dry, Unrecorded, TaskInv,
           StatusAtAwait, Running, Working, Ending, EarlyPC, OnboardPC, ProcessPC, RollbackPC,
           TailPC
  <2>7. RollsBack(t)'
    BY <2>1, <2>2
       DEF DeviceTask, RollsBack, RolledBack, Same, Ending, TaskInv, StatusAtAwait, Running,
           Working, EarlyPC, OnboardPC, ProcessPC, RollbackPC, TailPC
  <2>8. Prepares(t)'
    BY <2>1, <2>2
       DEF DeviceTask, Prepares, TaskInv, Listening, StatusAtAwait, Running, Working, Ending, EarlyPC,
           OnboardPC, ProcessPC, RollbackPC, TailPC
  <2> QED BY <2>3, <2>4, <2>5, <2>6, <2>7, <2>8 DEF DeviceTask
<1>5. CASE RollbackReport(t)
  <2>1. /\ mem'[t].status = "ERROR" /\ mem'[t].message = "invalid config - rolled back"
        /\ mem'[t].declaration = mem[t].declaration
        /\ mem'[t].currentConfig = mem[t].currentConfig
        /\ stored' = mem' /\ storedRecent' = mostRecent
        /\ pc[t] = "rbReport" /\ pc'[t] = "finalSave"
        /\ UNCHANGED <<mostRecent, ctx, revPrep, device, sysConfig, found>>
    BY <1>5, UpdateResultOne
       DEF TypeOK, RollbackReport, Goto, Save, NotSaved, prepVars, deviceVars, auxVars
  <2>2. /\ PromiseInv /\ DeviceTask(t)
        /\ TaskInv(t)
    BY DEF PromiseInv
  <2>3. NothingYet(t)'
    BY <2>1, <2>2
       DEF DeviceTask, NothingYet, Same, Unrecorded, TaskInv, StatusAtAwait, Running, Working,
           Ending, EarlyPC, OnboardPC, ProcessPC, RollbackPC, TailPC
  <2>4. Reads(t)'
    BY <2>1, <2>2
       DEF DeviceTask, Reads, Same, SystemPC, TaskInv, StatusAtAwait, Running, Working, Ending,
           EarlyPC, OnboardPC, ProcessPC, RollbackPC, TailPC
  <2>5. Finds(t)'
    BY <2>1, <2>2
       DEF DeviceTask, Finds, Same, Dry, TaskInv, StatusAtAwait, Running, Working, Ending,
           EarlyPC, OnboardPC, ProcessPC, RollbackPC, TailPC
  <2>6. Writes(t)'
    BY <2>1, <2>2
       DEF DeviceTask, Writes, OwnedBy, SystemPC, WrittenPC, SavedPC, Dry, Unrecorded, TaskInv,
           StatusAtAwait, Running, Working, Ending, EarlyPC, OnboardPC, ProcessPC, RollbackPC,
           TailPC
  <2>7. RollsBack(t)'
    BY <2>1, <2>2
       DEF Reads, Finds, DeviceTask, RollsBack, RolledBack, Same, Ending, TaskInv, StatusAtAwait, Running,
           Working, EarlyPC, OnboardPC, ProcessPC, RollbackPC, TailPC
  <2>8. Prepares(t)'
    BY <2>1, <2>2
       DEF DeviceTask, Prepares, TaskInv, Listening, StatusAtAwait, Running, Working, Ending, EarlyPC,
           OnboardPC, ProcessPC, RollbackPC, TailPC
  <2> QED BY <2>3, <2>4, <2>5, <2>6, <2>7, <2>8 DEF DeviceTask
<1>6. CASE FailRollback(t)
  <2>1. /\ mem'[t].status = "ERROR" /\ mem'[t].message = "rollback failed"
        /\ mem'[t].declaration = mem[t].declaration
        /\ mem'[t].currentConfig = mem[t].currentConfig
        /\ UNCHANGED <<stored, storedRecent>>
        /\ pc[t] \in RollbackPC /\ pc'[t] = "finalSave"
        /\ UNCHANGED <<mostRecent, ctx, revPrep, device, sysConfig, found>>
    BY <1>6, UpdateResultOne
       DEF RollbackPC, TypeOK, FailRollback, Goto, Save, NotSaved, prepVars, deviceVars, auxVars
  <2>2. /\ PromiseInv /\ DeviceTask(t)
        /\ TaskInv(t)
    BY DEF PromiseInv
  <2>3. NothingYet(t)'
    BY <2>1, <2>2
       DEF DeviceTask, NothingYet, Same, Unrecorded, TaskInv, StatusAtAwait, Running, Working,
           Ending, EarlyPC, OnboardPC, ProcessPC, RollbackPC, TailPC
  <2>4. Reads(t)'
    BY <2>1, <2>2
       DEF DeviceTask, Reads, Same, SystemPC, TaskInv, StatusAtAwait, Running, Working, Ending,
           EarlyPC, OnboardPC, ProcessPC, RollbackPC, TailPC
  <2>5. Finds(t)'
    BY <2>1, <2>2
       DEF DeviceTask, Finds, Same, Dry, TaskInv, StatusAtAwait, Running, Working, Ending,
           EarlyPC, OnboardPC, ProcessPC, RollbackPC, TailPC
  <2>6. Writes(t)'
    BY <2>1, <2>2
       DEF DeviceTask, Writes, OwnedBy, SystemPC, WrittenPC, SavedPC, Dry, Unrecorded, TaskInv,
           StatusAtAwait, Running, Working, Ending, EarlyPC, OnboardPC, ProcessPC, RollbackPC,
           TailPC
  <2>7. RollsBack(t)'
    BY <2>1, <2>2
       DEF DeviceTask, RollsBack, RolledBack, Same, Ending, TaskInv, StatusAtAwait, Running,
           Working, EarlyPC, OnboardPC, ProcessPC, RollbackPC, TailPC
  <2>8. Prepares(t)'
    BY <2>1, <2>2
       DEF DeviceTask, Prepares, TaskInv, Listening, StatusAtAwait, Running, Working, Ending, EarlyPC,
           OnboardPC, ProcessPC, RollbackPC, TailPC
  <2> QED BY <2>3, <2>4, <2>5, <2>6, <2>7, <2>8 DEF DeviceTask
<1> QED BY <1>1, <1>2, <1>3, <1>4, <1>5, <1>6 DEF Rollback

LEMMA FinishDevice ==
  ASSUME TypeOK, RevokeInv, PromiseInv, OneTask, NEW t \in Task, DeviceTask(t), Finish(t)
  PROVE  DeviceTask(t)'
<1>1. CASE FinalSave(t)
  <2>1. /\ pc[t] = "finalSave"
        /\ pc'[t] = IF mem[t].status = "ERROR" THEN "postGetError" ELSE "postGet"
        /\ sysConfig' = IF ctx[t].resumed \/ ~Dry(t) THEN device ELSE sysConfig
        /\ UNCHANGED <<mem, mostRecent, stored, storedRecent, ctx, revPrep, device, found>>
    BY <1>1
       DEF TypeOK, FinalSave, Goto, storeVars, SaveConfig, Dry, prepVars, deviceVars, auxVars
  <2>2. /\ PromiseInv /\ DeviceTask(t)
        /\ TaskInv(t)
    BY DEF PromiseInv
  <2>3. NothingYet(t)'
    BY <2>1, <2>2
       DEF DeviceTask, NothingYet, Same, Unrecorded, TaskInv, StatusAtAwait, Running, Working,
           Ending, EarlyPC, OnboardPC, ProcessPC, RollbackPC, TailPC
  <2>4. Reads(t)'
    BY <2>1, <2>2
       DEF DeviceTask, Reads, Same, SystemPC, TaskInv, StatusAtAwait, Running, Working, Ending,
           EarlyPC, OnboardPC, ProcessPC, RollbackPC, TailPC
  <2>5. Finds(t)'
    BY <2>1, <2>2
       DEF DeviceTask, Finds, Same, Dry, TaskInv, StatusAtAwait, Running, Working, Ending,
           EarlyPC, OnboardPC, ProcessPC, RollbackPC, TailPC
  <2>6. Writes(t)'
    BY <2>1, <2>2
       DEF DeviceTask, Writes, OwnedBy, SystemPC, WrittenPC, SavedPC, Dry, Unrecorded, TaskInv,
           StatusAtAwait, Running, Working, Ending, EarlyPC, OnboardPC, ProcessPC, RollbackPC,
           TailPC
  <2>7. RollsBack(t)'
    BY <2>1, <2>2
       DEF Finds, Dry, DeviceTask, RollsBack, RolledBack, Same, Ending, TaskInv, StatusAtAwait, Running,
           Working, EarlyPC, OnboardPC, ProcessPC, RollbackPC, TailPC
  <2>8. Prepares(t)'
    BY <2>1, <2>2
       DEF DeviceTask, Prepares, Listening, TaskInv, StatusAtAwait, Running, Working, Ending,
           EarlyPC, OnboardPC, ProcessPC, RollbackPC, TailPC
  <2> QED BY <2>3, <2>4, <2>5, <2>6, <2>7, <2>8 DEF DeviceTask
<1>2. CASE PostGet(t)
  <2>1. /\ mem'[t].status = mem[t].status /\ mem'[t].message = mem[t].message
        /\ mem'[t].declaration = mem[t].declaration
        /\ mem'[t].currentConfig = device
        /\ stored' = mem' /\ storedRecent' = mostRecent
        /\ \/ pc[t] = "postGet" /\ pc'[t] = "postCheck"
           \/ pc[t] = "postGetError" /\ pc'[t] = "respond"
        /\ UNCHANGED <<mostRecent, ctx, revPrep, device, sysConfig, found>>
    BY <1>2, GetCurrentConfigOne
       DEF TypeOK, PostGet, Goto, Save, NotSaved, prepVars, deviceVars, auxVars
  <2>2. /\ PromiseInv /\ DeviceTask(t)
        /\ TaskInv(t)
    BY DEF PromiseInv
  <2>3. NothingYet(t)'
    BY <2>1, <2>2
       DEF DeviceTask, NothingYet, Same, Unrecorded, TaskInv, StatusAtAwait, Running, Working,
           Ending, EarlyPC, OnboardPC, ProcessPC, RollbackPC, TailPC
  <2>4. Reads(t)'
    BY <2>1, <2>2
       DEF DeviceTask, Reads, Same, SystemPC, TaskInv, StatusAtAwait, Running, Working, Ending,
           EarlyPC, OnboardPC, ProcessPC, RollbackPC, TailPC
  <2>5. Finds(t)'
    BY <2>1, <2>2
       DEF DeviceTask, Finds, Same, Dry, TaskInv, StatusAtAwait, Running, Working, Ending,
           EarlyPC, OnboardPC, ProcessPC, RollbackPC, TailPC
  <2>6. Writes(t)'
    BY <2>1, <2>2
       DEF DeviceTask, Writes, OwnedBy, SystemPC, WrittenPC, SavedPC, Dry, Unrecorded, TaskInv,
           StatusAtAwait, Running, Working, Ending, EarlyPC, OnboardPC, ProcessPC, RollbackPC,
           TailPC
  <2>7. RollsBack(t)'
    BY <2>1, <2>2
       DEF DeviceTask, RollsBack, RolledBack, Same, Ending, TaskInv, StatusAtAwait, Running,
           Working, EarlyPC, OnboardPC, ProcessPC, RollbackPC, TailPC
  <2>8. Prepares(t)'
    BY <2>1, <2>2
       DEF DeviceTask, Prepares, TaskInv, Listening, StatusAtAwait, Running, Working, Ending, EarlyPC,
           OnboardPC, ProcessPC, RollbackPC, TailPC
  <2> QED BY <2>3, <2>4, <2>5, <2>6, <2>7, <2>8 DEF DeviceTask
<1>3. CASE PostStatus(t)
  <2>1. /\ mem'[t].status \in {"OK", "REBOOTING"}
        /\ mem'[t].message \in {"success", "reboot required"}
        /\ mem'[t].declaration = mem[t].declaration
        /\ mem'[t].currentConfig = mem[t].currentConfig
        /\ stored' = mem' /\ storedRecent' = mostRecent
        /\ pc[t] = "postCheck" /\ pc'[t] = "respond"
        /\ UNCHANGED <<mostRecent, ctx, revPrep, device, sysConfig, found>>
    BY <1>3, UpdateResultOne
       DEF TypeOK, PostStatus, Goto, Save, NotSaved, prepVars, deviceVars, auxVars
  <2>2. /\ PromiseInv /\ DeviceTask(t)
        /\ TaskInv(t)
    BY DEF PromiseInv
  <2>3. NothingYet(t)'
    BY <2>1, <2>2
       DEF DeviceTask, NothingYet, Same, Unrecorded, TaskInv, StatusAtAwait, Running, Working,
           Ending, EarlyPC, OnboardPC, ProcessPC, RollbackPC, TailPC
  <2>4. Reads(t)'
    BY <2>1, <2>2
       DEF DeviceTask, Reads, Same, SystemPC, TaskInv, StatusAtAwait, Running, Working, Ending,
           EarlyPC, OnboardPC, ProcessPC, RollbackPC, TailPC
  <2>5. Finds(t)'
    BY <2>1, <2>2
       DEF DeviceTask, Finds, Same, Dry, TaskInv, StatusAtAwait, Running, Working, Ending,
           EarlyPC, OnboardPC, ProcessPC, RollbackPC, TailPC
  <2>6. Writes(t)'
    BY <2>1, <2>2
       DEF DeviceTask, Writes, OwnedBy, SystemPC, WrittenPC, SavedPC, Dry, Unrecorded, TaskInv,
           StatusAtAwait, Running, Working, Ending, EarlyPC, OnboardPC, ProcessPC, RollbackPC,
           TailPC
  <2>7. RollsBack(t)'
    BY <2>1, <2>2
       DEF DeviceTask, RollsBack, RolledBack, Same, Ending, TaskInv, StatusAtAwait, Running,
           Working, EarlyPC, OnboardPC, ProcessPC, RollbackPC, TailPC
  <2>8. Prepares(t)'
    BY <2>1, <2>2
       DEF DeviceTask, Prepares, TaskInv, Listening, StatusAtAwait, Running, Working, Ending, EarlyPC,
           OnboardPC, ProcessPC, RollbackPC, TailPC
  <2> QED BY <2>3, <2>4, <2>5, <2>6, <2>7, <2>8 DEF DeviceTask
<1>4. CASE Respond(t)
  BY <1>4
     DEF TypeOK, PromiseInv, TaskInv, StatusAtAwait, DeviceTask, NothingYet, Reads, Finds,
         Writes, RollsBack, Prepares, Same, OwnedBy, SystemPC, WrittenPC, SavedPC, Dry,
         Unrecorded, Running, Working, Ending, EarlyPC, OnboardPC, ProcessPC, RollbackPC,
         TailPC, Respond, Goto, Save, NotSaved, storeVars, clientVars, prepVars, deviceVars,
         auxVars
<1>5. CASE RebootIfRequired(t)
  BY <1>5
     DEF TypeOK, PromiseInv, TaskInv, StatusAtAwait, DeviceTask, NothingYet, Reads, Finds,
         Writes, RollsBack, Prepares, Same, OwnedBy, SystemPC, WrittenPC, SavedPC, Dry,
         Unrecorded, Running, Working, Ending, EarlyPC, OnboardPC, ProcessPC, RollbackPC,
         TailPC, RebootIfRequired, Goto, Save, NotSaved, storeVars, clientVars, prepVars,
         deviceVars, auxVars
<1>6. CASE RebootCheckHangs(t)
  BY <1>6
     DEF TypeOK, PromiseInv, TaskInv, StatusAtAwait, DeviceTask, NothingYet, Reads, Finds,
         Writes, RollsBack, Prepares, Same, OwnedBy, SystemPC, WrittenPC, SavedPC, Dry,
         Unrecorded, Running, Working, Ending, EarlyPC, OnboardPC, ProcessPC, RollbackPC,
         TailPC, RebootCheckHangs, Goto, Save, NotSaved, storeVars, clientVars, prepVars,
         deviceVars, auxVars
<1>7. CASE FailTail(t)
  <2>1. /\ mem'[t].status = "ERROR" /\ mem'[t].message = "failed"
        /\ mem'[t].declaration = mem[t].declaration
        /\ mem'[t].currentConfig = mem[t].currentConfig
        /\ UNCHANGED <<stored, storedRecent>>
        /\ pc[t] \in TailPC \cup {"init", "resumeInit"} /\ pc'[t] = "webhook"
        /\ UNCHANGED <<mostRecent, ctx, revPrep, device, sysConfig, found>>
    BY <1>7, UpdateResultOne
       DEF TailPC, TypeOK, FailTail, Goto, Save, NotSaved, prepVars, deviceVars, auxVars
  <2>2. /\ PromiseInv /\ DeviceTask(t)
        /\ TaskInv(t)
    BY DEF PromiseInv
  <2>3. NothingYet(t)'
    BY <2>1, <2>2
       DEF DeviceTask, NothingYet, Same, Unrecorded, TaskInv, StatusAtAwait, Running, Working,
           Ending, EarlyPC, OnboardPC, ProcessPC, RollbackPC, TailPC
  <2>4. Reads(t)'
    BY <2>1, <2>2
       DEF DeviceTask, Reads, Same, SystemPC, TaskInv, StatusAtAwait, Running, Working, Ending,
           EarlyPC, OnboardPC, ProcessPC, RollbackPC, TailPC
  <2>5. Finds(t)'
    BY <2>1, <2>2
       DEF DeviceTask, Finds, Same, Dry, TaskInv, StatusAtAwait, Running, Working, Ending,
           EarlyPC, OnboardPC, ProcessPC, RollbackPC, TailPC
  <2>6. Writes(t)'
    BY <2>1, <2>2
       DEF DeviceTask, Writes, OwnedBy, SystemPC, WrittenPC, SavedPC, Dry, Unrecorded, TaskInv,
           StatusAtAwait, Running, Working, Ending, EarlyPC, OnboardPC, ProcessPC, RollbackPC,
           TailPC
  <2>7. RollsBack(t)'
    BY <2>1, <2>2
       DEF DeviceTask, RollsBack, RolledBack, Same, Ending, TaskInv, StatusAtAwait, Running,
           Working, EarlyPC, OnboardPC, ProcessPC, RollbackPC, TailPC
  <2>8. Prepares(t)'
    BY <2>1, <2>2
       DEF DeviceTask, Prepares, TaskInv, Listening, StatusAtAwait, Running, Working, Ending, EarlyPC,
           OnboardPC, ProcessPC, RollbackPC, TailPC
  <2> QED BY <2>3, <2>4, <2>5, <2>6, <2>7, <2>8 DEF DeviceTask
<1>8. CASE PostWebhook(t)
  BY <1>8
     DEF TypeOK, PromiseInv, TaskInv, StatusAtAwait, DeviceTask, NothingYet, Reads, Finds,
         Writes, RollsBack, Prepares, Same, OwnedBy, SystemPC, WrittenPC, SavedPC, Dry,
         Unrecorded, Running, Working, Ending, EarlyPC, OnboardPC, ProcessPC, RollbackPC,
         TailPC, PostWebhook, Goto, Save, NotSaved, storeVars, clientVars, prepVars, deviceVars,
         auxVars
<1> QED BY <1>1, <1>2, <1>3, <1>4, <1>5, <1>6, <1>7, <1>8 DEF Finish

LEMMA ListenerDevice ==
  ASSUME TypeOK, RevokeInv, PromiseInv, OneTask, NEW t \in Task, DeviceTask(t), Listener(t)
  PROVE  DeviceTask(t)'
<1> USE DEF EarlyPC, OnboardPC, ProcessPC, RollbackPC, TailPC
<1>1. /\ PromiseInv /\ DeviceTask(t)
      /\ TaskInv(t)
  BY DEF PromiseInv
<1>2. CASE PrepSave(t)
  <2>1. /\ sysConfig' = device /\ UNCHANGED <<storeVars, pc, ctx, device, found>>
        /\ pc[t] \in {"waitReady", "waitReboot"}
        /\ revPrep'[t] # revPrep[t] => pc[t] = "waitReady"
        /\ revPrep'[t] # "ready" \/ revPrep'[t] = revPrep[t]
    BY <1>1, <1>2 DEF TypeOK, PrepSave, TaskInv, Listening, auxVars
  <2> QED BY <1>1, <2>1
          DEF DeviceTask, NothingYet, Reads, Finds, Writes, RollsBack, Prepares, Same, OwnedBy,
              SystemPC, WrittenPC, SavedPC, Dry, TaskInv, StatusAtAwait, Listening, Running,
              Working, Ending, storeVars
<1>3. CASE PrepMark(t)
  <2>1. /\ mem'[t].status \in {"REVOKING", "REBOOTING_AND_RESUMING"}
        /\ mem'[t].message # RolledBack
        /\ mem'[t].declaration = mem[t].declaration
        /\ mem'[t].currentConfig = mem[t].currentConfig
        /\ stored' = mem' /\ storedRecent' = mostRecent
        /\ UNCHANGED <<mostRecent, pc, ctx, device, sysConfig, found>>
    <3>1. PICK status \in {"REVOKING", "REBOOTING_AND_RESUMING"},
               message \in {"revoking license", "rebooting and resuming"} :
            UpdateResult(t, status, message)
      BY <1>3 DEF PrepMark
    <3> QED BY <1>3, <3>1, UpdateResultOne DEF PrepMark, Save, RolledBack, deviceVars, auxVars
  <2>2. \/ /\ revPrep[t] = "mark" /\ revPrep'[t] = "ready" /\ mem'[t].status = "REVOKING"
        \/ rebPrep[t] = "mark" /\ revPrep' = revPrep
    BY <1>3, UpdateResultOne DEF TypeOK, PrepMark
  <2>3. pc[t] \in {"waitReady", "waitReboot"}
    BY <1>1, <2>2 DEF TaskInv, Listening
  <2>4. pc[t] = "waitReboot" => revPrep[t] = "idle"
    BY <1>1 DEF TaskInv, Listening
  <2>5. rebPrep[t] = "mark" => pc[t] = "waitReboot"
    BY <1>1 DEF TaskInv, Listening
  <2> QED BY <1>1, <2>1, <2>2, <2>3, <2>4, <2>5
          DEF DeviceTask, NothingYet, Reads, Finds, Writes, RollsBack, Prepares, Same, OwnedBy,
              SystemPC, WrittenPC, SavedPC, Dry, TaskInv, StatusAtAwait, Running,
              Working, Ending, Unrecorded
<1>4. CASE EmitReady(t)
  <2>1. /\ pc[t] = "waitReady" /\ pc'[t] \in {"waitReady", "revoke"}
        /\ revPrep[t] = "ready" /\ revPrep'[t] = "idle"
        /\ UNCHANGED <<storeVars, ctx, device, sysConfig, found>>
    BY <1>1, <1>4
       DEF TypeOK, EmitReady, TaskInv, Listening, OneTask, deviceVars, auxVars
  <2> QED BY <1>1, <2>1
          DEF DeviceTask, NothingYet, Reads, Finds, Writes, RollsBack, Prepares, Same, OwnedBy,
              SystemPC, WrittenPC, SavedPC, Dry, TaskInv, StatusAtAwait, Running,
              Working, Ending, storeVars
<1>5. CASE RebootNow(t)
  BY <1>1, <1>5
     DEF RebootNow, DeviceTask, NothingYet, Reads, Finds, Writes, RollsBack, Prepares, Same,
         OwnedBy, SystemPC, WrittenPC, SavedPC, Dry, storeVars, auxVars
<1>6. CASE PrepFails(t)
  <2>1. /\ \/ mem' = mem
           \/ mem'[t].status \notin {"OK", "REBOOTING", "absent"} /\ mem'[t].message # RolledBack
        /\ mem'[t].declaration = mem[t].declaration
        /\ mem'[t].currentConfig = mem[t].currentConfig
        /\ UNCHANGED <<mostRecent, stored, storedRecent, pc, ctx, device, sysConfig, found>>
    <3>1. \/ UNCHANGED mem
          \/ \E status \in {"REVOKING", "REBOOTING_AND_RESUMING"},
                message \in {"revoking license", "rebooting and resuming"} :
               UpdateResult(t, status, message)
      BY <1>6 DEF PrepFails
    <3> QED BY <1>6, <3>1, UpdateResultOne DEF PrepFails, NotSaved, RolledBack, deviceVars, auxVars
  <2>2. /\ revPrep'[t] \in {revPrep[t], "idle"}
        /\ pc[t] \in {"waitReady", "waitReboot"}
    BY <1>1, <1>6 DEF TypeOK, PrepFails, TaskInv, Listening
  <2> QED BY <1>1, <2>1, <2>2
          DEF DeviceTask, NothingYet, Reads, Finds, Writes, RollsBack, Prepares, Same, OwnedBy,
              SystemPC, WrittenPC, SavedPC, Dry, TaskInv, StatusAtAwait, Running,
              Working, Ending, Unrecorded
<1> QED BY <1>2, <1>3, <1>4, <1>5, <1>6 DEF Listener

LEMMA PostUnreadableDevice ==
  ASSUME TypeOK, PromiseInv, NEW t \in Task, DeviceTask(t), PostUnreadable(t)
  PROVE  DeviceTask(t)'
<1> USE DEF EarlyPC, OnboardPC, ProcessPC, RollbackPC, TailPC
<1>1. TaskInv(t)
  BY DEF PromiseInv
<1>2. /\ mem[t].status = "absent" /\ mem'[t].status = "ERROR"
      /\ mem'[t].message = "bad declaration" /\ mem'[t].currentConfig.large = FALSE
      /\ mem'[t].declaration.dryRun = FALSE /\ mostRecent' = t
      /\ pc'[t] = "done"
      /\ UNCHANGED <<stored, storedRecent, revPrep, device, sysConfig, found>>
  <2>1. NoDeclaration.dryRun = FALSE /\ NoConfig.large = FALSE
    BY DEF NoDeclaration, NoConfig
  <2> QED BY <2>1, PostUnreadableSets DEF prepVars, deviceVars, auxVars
<1>3. revPrep[t] = "idle" /\ stored[t].status = "absent"
  BY <1>1, <1>2
     DEF TypeOK, TaskInv, StatusAtAwait, StoredIsEarlier, Follows, Listening, Running, Working,
         Ending, Unrecorded
<1> QED BY <1>2, <1>3
        DEF DeviceTask, NothingYet, Reads, Finds, Writes, RollsBack, Prepares, Same, OwnedBy,
            SystemPC, WrittenPC, SavedPC, Dry, Ending, Unrecorded, RolledBack

LEMMA PostDevice ==
  ASSUME TypeOK, PromiseInv, NEW t \in Task, DeviceTask(t), NEW d \in Declarations, Post(t, d)
  PROVE  DeviceTask(t)'
<1> USE DEF EarlyPC, OnboardPC, ProcessPC, RollbackPC, TailPC
<1>1. /\ PromiseInv /\ DeviceTask(t)
      /\ TaskInv(t)
  BY DEF PromiseInv
<1>2. /\ mem[t].status = "absent" /\ mem'[t].status = "none" /\ mem'[t].message = ""
      /\ mem'[t].currentConfig.large = FALSE /\ mostRecent' = t
      /\ pc'[t] = "validating" /\ ctx'[t].resumed = FALSE /\ ctx'[t].handler = FALSE
      /\ found'[t] = device
      /\ UNCHANGED <<stored, storedRecent, revPrep, device, sysConfig>>
  BY DEF TypeOK, Post, NewId, NoRecord, NoContext, NoConfig, prepVars, deviceVars
<1>3. pc[t] = "idle" /\ revPrep[t] = "idle" /\ stored[t].status \in Unrecorded
  BY <1>1, <1>2
     DEF TypeOK, TaskInv, StatusAtAwait, StoredIsEarlier, Follows, Listening, Running, Working,
         Ending, PC, Unrecorded
<1>4. Same(device, sysConfig)
  BY <1>1, <1>3 DEF DeviceTask, NothingYet
<1> QED BY <1>1, <1>2, <1>3, <1>4
        DEF DeviceTask, NothingYet, Reads, Finds, Writes, RollsBack, Prepares, Same, OwnedBy,
            SystemPC, WrittenPC, SavedPC, Dry, Ending, Unrecorded, RolledBack

(* A restart of the device keeps the size of its disk and returns, with    *)
(* the rest, to what was saved.                                            *)
LEMMA LoseProcessDevice ==
  ASSUME TypeOK, PromiseInv, NEW t \in Task, DeviceTask(t), LoseProcess, UNCHANGED sysConfig,
         device'.large = device.large, Same(device', device) \/ Same(device', sysConfig)
  PROVE  DeviceTask(t)'
<1> USE DEF EarlyPC, OnboardPC, ProcessPC, RollbackPC, TailPC
<1>1. TaskInv(t)
  BY DEF PromiseInv
<1>2. /\ mem'[t] = stored[t] /\ stored'[t] = stored[t] /\ pc'[t] = "idle"
      /\ mostRecent' = storedRecent /\ storedRecent' = storedRecent
      /\ revPrep'[t] = "idle" /\ found'[t] = found[t]
  BY DEF LoseProcess
<1> QED BY <1>1, <1>2
        DEF DeviceTask, NothingYet, Reads, Finds, Writes, RollsBack, Prepares, Same, OwnedBy,
            SystemPC, WrittenPC, SavedPC, Dry, Ending, Unrecorded, TaskInv, StoredIsEarlier,
            Follows

LEMMA StartupDevice ==
  ASSUME TypeOK, RevokeInv, PromiseInv, NEW t \in Task, OneTask, DeviceTask(t), Startup
  PROVE  DeviceTask(t)'
<1> USE DEF EarlyPC, OnboardPC, ProcessPC, RollbackPC, TailPC
<1>1. /\ mem = stored /\ pc[t] = "idle" /\ revPrep[t] = "idle"
      /\ UNCHANGED <<revPrep, device, sysConfig, found>>
      /\ mostRecent \in Task => mostRecent = t
  BY DEF Startup, RevokeInv, PromiseInv, Down, TaskInv, Listening, OneTask, prepVars, deviceVars,
         auxVars
<1>2. CASE UNCHANGED <<storeVars, pc, ctx>>
  BY <1>1, <1>2
     DEF DeviceTask, NothingYet, Reads, Finds, Writes, RollsBack, Prepares, Same, OwnedBy,
         SystemPC, WrittenPC, SavedPC, Dry, storeVars
<1>3. CASE mostRecent = t /\ mem[t].status = "REBOOTING"
  <2>1. /\ mem'[t].status = "OK" /\ mem'[t].message # RolledBack
        /\ mem'[t].declaration = mem[t].declaration
        /\ mem'[t].currentConfig = mem[t].currentConfig
        /\ UNCHANGED <<mostRecent, pc, ctx>>
        /\ \/ stored' = mem' /\ storedRecent' = mostRecent
           \/ UNCHANGED <<stored, storedRecent>>
    <3>1. /\ UpdateResult(t, "OK", "success") /\ UNCHANGED <<mostRecent, pc, ctx>>
          /\ Save \/ NotSaved
      BY <1>3 DEF Startup, ResumedStatus, Save, NotSaved
    <3>2. /\ mem'[t].status = "OK" /\ mem'[t].message = "success"
          /\ mem'[t].declaration = mem[t].declaration
          /\ mem'[t].currentConfig = mem[t].currentConfig
      BY <3>1, UpdateResultOne
    <3> QED BY <3>1, <3>2 DEF Save, NotSaved, RolledBack
  <2> QED BY <1>1, <1>3, <2>1
          DEF DeviceTask, NothingYet, Reads, Finds, Writes, RollsBack, Prepares, Same, OwnedBy,
              SystemPC, WrittenPC, SavedPC, Dry, Unrecorded
<1>4. CASE mostRecent = t /\ mem[t].status \in ResumedStatus
  <2>1. /\ mem'[t].status = "RUNNING" /\ mem'[t].message = "processing"
        /\ mem'[t].declaration.dryRun = mem[t].declaration.dryRun
        /\ mem'[t].declaration.disk = mem[t].declaration.disk
        /\ pc'[t] = "resumeInit" /\ ctx'[t].resumed
    BY <1>4, ResumedTask
  <2>2. mem'[t].currentConfig = mem[t].currentConfig
    <3> DEFINE r == [mem[t] EXCEPT !.status = "RUNNING", !.message = "processing",
                                   !.declaration = WithoutRevoke(mem[t].declaration)]
    <3>1. mem' = [mem EXCEPT ![t] = r]
      BY <1>4 DEF Startup, ResumedStatus
    <3>2. r.currentConfig = mem[t].currentConfig
      <4>1. mem[t] \in TaskRecord
        BY RecordType
      <4> DEFINE d == WithoutRevoke(mem[t].declaration)
      <4> HIDE DEF d
      <4> QED BY <4>1 DEF TaskRecord
    <3> HIDE DEF r
    <3> QED BY <3>1, <3>2 DEF TypeOK
  <2>3. /\ UNCHANGED mostRecent
        /\ \/ stored' = mem' /\ storedRecent' = mostRecent
           \/ UNCHANGED <<stored, storedRecent>>
    BY <1>4 DEF Startup, ResumedStatus, Save, NotSaved
  <2> QED BY <1>1, <1>4, <2>1, <2>2, <2>3
          DEF DeviceTask, NothingYet, Reads, Finds, Writes, RollsBack, Prepares, Same, OwnedBy,
              SystemPC, WrittenPC, SavedPC, Dry, Unrecorded, RolledBack, ResumedStatus, Ending
<1> QED BY <1>1, <1>2, <1>3, <1>4 DEF Startup, storeVars

LEMMA EnvironmentDevice ==
  ASSUME TypeOK, RevokeInv, PromiseInv, OneTask, NEW t \in Task, DeviceTask(t), Environment
  PROVE  DeviceTask(t)'
<1>1. CASE ServiceRestart
  BY <1>1, LoseProcessDevice DEF ServiceRestart, Same
<1>2. CASE DeviceReboot
  <2>1. device' = [sysConfig EXCEPT !.large = device.large]
    BY <1>2 DEF DeviceReboot
  <2>2. Same(device', sysConfig) /\ device'.large = device.large
    BY <2>1, SetConfig DEF TypeOK, Same
  <2> QED BY <1>2, <2>2, LoseProcessDevice DEF DeviceReboot
<1>3. CASE DiskCommandEnds
  <2>1. device' = [device EXCEPT !.large = TRUE] \/ device' = device
    BY <1>3 DEF DiskCommandEnds
  <2>2. [device EXCEPT !.large = TRUE].large = TRUE /\ Same([device EXCEPT !.large = TRUE], device)
    BY SetConfig DEF TypeOK, Same
  <2>3. device'.system = device.system /\ device'.rest = device.rest
    BY <2>1, <2>2 DEF Same
  <2>4. device.large => device'.large
    BY <2>1, <2>2
  <2>5. UNCHANGED <<mem, mostRecent, stored, storedRecent, pc, ctx, revPrep, sysConfig, found>>
    BY <1>3 DEF DiskCommandEnds, storeVars, prepVars, auxVars
  <2> QED BY <2>3, <2>4, <2>5
          DEF DeviceTask, NothingYet, Reads, Finds, Writes, RollsBack, Prepares, Same, OwnedBy,
              Dry
<1> QED BY <1>1, <1>2, <1>3, StartupDevice DEF Environment

LEMMA NextDevice ==
  ASSUME TypeOK, RevokeInv, PromiseInv, OneTask, DeviceInv, [Next]_vars
  PROVE  DeviceInv'
<1> SUFFICES ASSUME NEW t \in Task PROVE DeviceTask(t)'
  BY DEF DeviceInv
<1>1. DeviceTask(t) /\ \A u \in Task : u = t
  BY DEF DeviceInv, OneTask
<1>2. CASE \E u \in Task, d \in Declarations : Post(u, d)
  BY <1>1, <1>2, PostDevice
<1>3. CASE \E u \in Task : PostUnreadable(u) \/ Chain(u) \/ Listener(u)
  BY <1>1, <1>3, PostUnreadableDevice, AcceptDevice, OnboardDevice, RollbackDevice, FinishDevice, ListenerDevice
     DEF Chain
<1>4. CASE Environment
  BY <1>1, <1>4, EnvironmentDevice
<1>5. CASE UNCHANGED vars
  BY <1>1, <1>5
     DEF DeviceTask, NothingYet, Reads, Finds, Writes, RollsBack, Prepares, Same, OwnedBy,
         SystemPC, WrittenPC, SavedPC, Dry, vars, storeVars, prepVars, deviceVars, auxVars
<1> QED BY <1>2, <1>3, <1>4, <1>5 DEF Next

LEMMA InitDevice == Init => DeviceInv
<1> SUFFICES ASSUME Init, NEW t \in Task PROVE DeviceTask(t)
  BY DEF DeviceInv
<1>1. /\ pc[t] = "idle" /\ revPrep[t] = "idle" /\ device = sysConfig
      /\ mem[t].status = "absent" /\ mem[t].message = "" /\ mem[t].currentConfig.large = FALSE
      /\ stored[t].status = "absent" /\ stored[t].message = ""
      /\ stored[t].currentConfig.large = FALSE
  BY DEF Init, NoRecord, NoConfig
<1> QED BY <1>1
        DEF DeviceTask, NothingYet, Reads, Finds, Writes, RollsBack, Prepares, Same, SystemPC,
            WrittenPC, SavedPC, Unrecorded, RolledBack, EarlyPC, OnboardPC, ProcessPC,
            RollbackPC, Ending

LEMMA SpecDevice ==
  ASSUME OneTask
  PROVE  Spec => []DeviceInv
<1>1. Init => DeviceInv
  BY InitDevice
<1>2. TypeOK /\ RevokeInv /\ PromiseInv /\ DeviceInv /\ [Next]_vars => DeviceInv'
  BY NextDevice
<1>3. RevokesAlone
  BY DEF OneTask, RevokesAlone
<1>4. Spec => []PromiseInv
  BY <1>3, SpecPromise
<1> QED BY <1>1, <1>2, <1>4, TypeCorrect, RevokeInvariant, PTL DEF Spec

-----------------------------------------------------------------------------
(* The theorems *)

(* A task that reports OK has its configuration in force, in the running   *)
(* and in the saved configuration, whatever failed, was restarted or was   *)
(* rebooted on the way (setPostOnboardStatus, updateStateAfterReboot).     *)
THEOREM AppliedWhenOk ==
  ASSUME OneTask
  PROVE  Spec => []OkIsApplied
<1>1. DeviceInv => OkIsApplied
  BY DEF DeviceInv, DeviceTask, Writes, OwnedBy, OkIsApplied
<1> QED BY <1>1, SpecDevice, PTL

(* A task that says it was rolled back, and was not restarted meanwhile,   *)
(* has put back what its POST found, and saved it (the catch of onboard,   *)
(* then saveConfig).                                                       *)
THEOREM RestoredWhenRolledBack ==
  ASSUME OneTask
  PROVE  Spec => []RolledBackRestores
<1>1. DeviceInv => RolledBackRestores
  BY DEF DeviceInv, DeviceTask, RollsBack, Same, RolledBackRestores, Ending
<1> QED BY <1>1, SpecDevice, PTL

(* The license is revoked only when the restart that this causes will find *)
(* the task in storage, to be resumed, and what it has configured so far   *)
(* in the saved configuration (waitForRevokeReady,                         *)
(* prepForRebootResumeOrRevoke).                                           *)
THEOREM PreparedWhenRevoking ==
  ASSUME OneTask
  PROVE  Spec => []RevokeIsPrepared
<1>1. DeviceInv => RevokeIsPrepared
  BY DEF DeviceInv, DeviceTask, Prepares, RevokeIsPrepared
<1> QED BY <1>1, SpecDevice, PTL
=============================================================================
