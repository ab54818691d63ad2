----------------------------- MODULE RestWorker -----------------------------
(***************************************************************************)
(* The REST worker of Declarative Onboarding when it runs on a BIG-IP      *)
(* (src/nodejs/restWorker.js), together with what it shares with the rest  *)
(* of the program: the task table kept in rest storage (src/lib/state.js), *)
(* the two event conversations with the system handler                     *)
(* (LICENSE_WILL_BE_REVOKED / READY_FOR_REVOKE and REBOOT_NOW), and the    *)
(* device it configures.                                                   *)
(*                                                                         *)
(* A task is one POST.  Nothing in the worker makes a second POST wait, so *)
(* the promise chains of different tasks interleave at every await; pc[t]  *)
(* names the await task t is at.  A status update and the save of the task *)
(* table that follows it are one step: only a restart reads the storage,   *)
(* and a restart between the two is a restart before the step.             *)
(***************************************************************************)
EXTENDS Naturals, FiniteSets

CONSTANTS
  Task,           \* identifiers of the tasks that may be posted
  NoTask,         \* "no task": an empty mostRecentTask or event listener
  Factory,        \* owner of configuration that no task has written
  Declarations,   \* the declarations a client may post
  Faults,         \* the faults the environment may produce, see FaultKind
  MaxFaults       \* how many crashes and power losses a behaviour may have

FaultKind ==
  { "step",       \* a call to the device, or a handler, rejects
    "save",       \* rest storage rejects a save even after its retries
    "timeout",    \* the 30 seconds of waitForRevokeReady run out
    "crash",      \* restnoded is restarted
    "power" }     \* the device restarts without having been asked to

(* What the worker asks of a declaration: is it async, does it have a      *)
(* webhook, is it a dry run, does its license revoke another one that is   *)
(* in use here (revokeCurrent, or a reachable revokeFrom), does it resize  *)
(* /appdata.                                                               *)
Declaration ==
  [async: BOOLEAN, webhook: BOOLEAN, dryRun: BOOLEAN, revoke: BOOLEAN, disk: BOOLEAN]

ASSUME ConstantsAssumption ==
  /\ Task # {}
  /\ NoTask \notin Task
  /\ Factory \notin Task \cup {NoTask}
  /\ Declarations \subseteq Declaration
  /\ Faults \subseteq FaultKind
  /\ MaxFaults \in Nat

VARIABLES
  up,             \* restnoded is running
  mem,            \* doState.tasks in memory
  mostRecent,     \* doState.mostRecentTask in memory
  stored,         \* doState.tasks in rest storage
  storedRecent,   \* doState.mostRecentTask in rest storage
  pc,             \* where each task's promise chain is
  ctx,            \* the closure of each task's promise chain
  waiter,         \* the task whose handler listens for READY_FOR_REVOKE
  revPrep,        \* progress of the LICENSE_WILL_BE_REVOKED listener
  rebPrep,        \* progress of the REBOOT_NOW listener
  device,         \* the running configuration of the device
  sysConfig,      \* its saved configuration, which a reboot returns to
  rebootPending,  \* the device prompt says REBOOT REQUIRED
  rebootIssued,   \* bigIp.reboot() has been called
  diskCommand,    \* the resize command of handleDisk is running
  servicesBounce, \* a revoked license is about to restart the services
  response,       \* what each client was answered
  webhooks,       \* the statuses posted to each task's webhook
  revokes,        \* how often each task called revokeLicense
  found,          \* the configuration each POST found on the device
  faults          \* crashes and power losses so far

clientVars == <<response, webhooks>>
storeVars  == <<mem, mostRecent, stored, storedRecent>>
prepVars   == <<waiter, revPrep, rebPrep>>
deviceVars == <<device, sysConfig, rebootPending, rebootIssued, diskCommand, servicesBounce>>
auxVars    == <<revokes, found, faults>>
vars == <<up, storeVars, pc, ctx, prepVars, deviceVars, clientVars, auxVars>>

-----------------------------------------------------------------------------
(* Types *)

Status == { "absent",  \* not in the table
            "none",    \* added, result still empty
            "OK", "ERROR", "ROLLING_BACK", "RUNNING", "REBOOTING", "REVOKING",
            "REBOOTING_AND_RESUMING" }

(* What a client is answered: the status of its task, or that its body is  *)
(* not JSON, which has the status ERROR too and is told at once.           *)
Answer == Status \cup {"unreadable"}

Message == { "", "bad declaration", "error during validation", "processing",
             "error during onboarding", "failed to initialize device", "failed",
             "invalid config - rolling back", "invalid config - rolled back",
             "rollback failed", "reboot required", "success",
             "revoking license", "rebooting and resuming" }

Owner == Task \cup {Factory}

(* What the handlers configure: the sections of the system handler (those  *)
(* after licensing are counted with those before it), the size of /appdata, *)
(* and everything from the authentication handler to the deprovision       *)
(* handler.                                                                *)
Config   == [system: Owner \cup {NoTask}, large: BOOLEAN, rest: Owner \cup {NoTask}]
NoConfig == [system |-> NoTask, large |-> FALSE, rest |-> NoTask]

TaskRecord == [status: Status, message: Message, rebootRequired: BOOLEAN,
               declaration: Declaration, currentConfig: Config]

NoDeclaration == [async |-> FALSE, webhook |-> FALSE, dryRun |-> FALSE,
                  revoke |-> FALSE, disk |-> FALSE]
NoRecord == [status |-> "absent", message |-> "", rebootRequired |-> FALSE,
             declaration |-> NoDeclaration, currentConfig |-> NoConfig]

Context == [resumed: BOOLEAN,   \* started by handleStartupState, not by a POST
            bigIp: BOOLEAN,     \* this.bigIps[taskId] is set
            handler: BOOLEAN,   \* onboard created its declarationHandler
            rollbackTo: Config]
NoContext == [resumed |-> FALSE, bigIp |-> FALSE, handler |-> FALSE, rollbackTo |-> NoConfig]

EarlyPC    == {"platform", "account"}
ProcessPC  == {"process", "system", "license", "waitReady", "revoke", "relicense",
               "disk", "diskSave", "rest"}
OnboardPC  == ProcessPC \cup {"getConfig", "sysSave", "check"}
RollbackPC == {"rbGet", "rbSystem", "rbRest", "rbGet2", "rbReport"}
TailPC     == {"finalSave", "postGet", "postGetError", "postCheck"}
PC == {"idle", "validating", "badRespond", "init", "resumeInit", "waitReboot",
       "respond", "rebootCheck", "webhook", "hung", "done"}
      \cup EarlyPC \cup OnboardPC \cup RollbackPC \cup TailPC

TypeOK ==
  /\ up \in BOOLEAN
  /\ mem \in [Task -> TaskRecord]
  /\ stored \in [Task -> TaskRecord]
  /\ mostRecent \in Task \cup {NoTask}
  /\ storedRecent \in Task \cup {NoTask}
  /\ pc \in [Task -> PC]
  /\ ctx \in [Task -> Context]
  /\ waiter \in Task \cup {NoTask}
  /\ revPrep \in [Task -> {"idle", "save", "mark", "ready"}]
  /\ rebPrep \in [Task -> {"idle", "save", "mark", "reboot"}]
  /\ device \in Config
  /\ sysConfig \in Config
  /\ rebootPending \in BOOLEAN
  /\ rebootIssued \in BOOLEAN
  /\ diskCommand \in BOOLEAN
  /\ servicesBounce \in BOOLEAN
  /\ response \in [Task -> Answer]
  /\ webhooks \in [Task -> SUBSET Status]
  /\ revokes \in [Task -> Nat]
  /\ found \in [Task -> Config]
  /\ faults \in Nat

-----------------------------------------------------------------------------
(* Helpers *)

Goto(t, from, to) == up /\ pc[t] = from /\ pc' = [pc EXCEPT ![t] = to]

(* Mutant: the arguments of updateResult in the wrong order. *)
UpdateResultSwapped(t, status, message) ==
  mem' = [mem EXCEPT ![t] = [@ EXCEPT !.status = message, !.message = status]]

(* State.updateResult: the code is left out, the errors are left out. *)
UpdateResult(t, status, message) ==
  mem' = [mem EXCEPT ![t] = [@ EXCEPT !.status = status, !.message = message]]

(* Mutant: the configuration is not read again. *)
GetCurrentConfigOnce(t) ==
  mem' = IF mem[t].currentConfig = NoConfig
           THEN [mem EXCEPT ![t] = [@ EXCEPT !.currentConfig = device]] ELSE mem

(* getAndSaveCurrentConfig, the part of ConfigManager.get that the worker  *)
(* depends on: the task's currentConfig becomes what the device has now.   *)
GetCurrentConfig(t) ==
  mem' = [mem EXCEPT ![t] = [@ EXCEPT !.currentConfig = device]]

(* Mutant: the table is saved first and updated afterwards. *)
SaveBeforeUpdate == stored' = mem /\ storedRecent' = mostRecent /\ UNCHANGED mostRecent

(* save: the whole table in memory replaces the one in storage. *)
Save == stored' = mem' /\ storedRecent' = mostRecent /\ UNCHANGED mostRecent
NotSaved == UNCHANGED <<mostRecent, stored, storedRecent>>
MayFail(fault) == fault \in Faults

(* Mutant: the condition on a dry run is inverted. *)
SaveConfigInverted(t) ==
  sysConfig' = IF mem[t].declaration.dryRun THEN device ELSE sysConfig

(* saveConfig: a dry run does not save the device's configuration. *)
SaveConfig(t) ==
  sysConfig' = IF mem[t].declaration.dryRun THEN sysConfig ELSE device

(* doUtil.rebootRequired *)
RebootRequired(t) == mem[t].rebootRequired \/ rebootPending

Dry(t)   == mem[t].declaration.dryRun
Async(t) == mem[t].declaration.async

-----------------------------------------------------------------------------
(* onPost, up to the start of onboarding *)

(* Identifiers are random: one that a client was told is not used again,   *)
(* even if a restart has forgotten the task.                               *)
NewId(t) == up /\ mem[t].status = "absent" /\ response[t] = "none"

(* addTask; the validator has been called and has not answered yet. *)
Post(t, d) ==
  /\ NewId(t)
  /\ mem' = [mem EXCEPT ![t] = [NoRecord EXCEPT !.status = "none", !.declaration = d]]
  /\ mostRecent' = t
  /\ pc' = [pc EXCEPT ![t] = "validating"]
  /\ ctx' = [ctx EXCEPT ![t] = NoContext]
  /\ found' = [found EXCEPT ![t] = device]
  /\ UNCHANGED <<up, stored, storedRecent, prepVars, deviceVars, clientVars, revokes, faults>>

(* Mutant: the return is missing, and the chain goes on to the validator. *)
PostUnreadableGoesOn(t) ==
  /\ NewId(t)
  /\ mem' = [mem EXCEPT ![t] = [NoRecord EXCEPT !.status = "ERROR",
                                               !.message = "bad declaration"]]
  /\ mostRecent' = t
  /\ pc' = [pc EXCEPT ![t] = "validating"]
  /\ ctx' = [ctx EXCEPT ![t] = NoContext]
  /\ response' = [response EXCEPT ![t] = "unreadable"]
  /\ UNCHANGED <<up, stored, storedRecent, prepVars, deviceVars, webhooks, auxVars>>

(* A body that is not JSON, under a content type that does not claim it:   *)
(* the task is in the table, and the most recent one, but the client is    *)
(* answered at once and nothing is saved.                                  *)
PostUnreadable(t) ==
  /\ NewId(t)
  /\ mem' = [mem EXCEPT ![t] = [NoRecord EXCEPT !.status = "ERROR",
                                               !.message = "bad declaration"]]
  /\ mostRecent' = t
  /\ pc' = [pc EXCEPT ![t] = "done"]
  /\ ctx' = [ctx EXCEPT ![t] = NoContext]
  /\ response' = [response EXCEPT ![t] = "unreadable"]
  /\ UNCHANGED <<up, stored, storedRecent, prepVars, deviceVars, webhooks, auxVars>>

ValidateAccepts(t) ==
  /\ Goto(t, "validating", "platform")
  /\ UpdateResult(t, "RUNNING", "processing")
  /\ Save
  /\ UNCHANGED <<up, ctx, prepVars, deviceVars, clientVars, auxVars>>

ValidateRejects(t) ==
  /\ Goto(t, "validating", "badRespond")
  /\ UpdateResult(t, "ERROR", "bad declaration")
  /\ Save
  /\ UNCHANGED <<up, ctx, prepVars, deviceVars, clientVars, auxVars>>

RespondBad(t) ==
  /\ Goto(t, "badRespond", "done")
  /\ response' = [response EXCEPT ![t] = mem[t].status]
  /\ UNCHANGED <<up, storeVars, ctx, prepVars, deviceVars, webhooks, auxVars>>

(* The validator itself throws: the outermost catch. *)
ValidateThrows(t) ==
  /\ MayFail("step")
  /\ Goto(t, "validating", "done")
  /\ UpdateResult(t, "ERROR", "error during validation")
  /\ NotSaved
  /\ UNCHANGED <<up, ctx, prepVars, deviceVars, clientVars, auxVars>>

(* The save after validation fails: an accepted declaration ends in the    *)
(* 'error during onboarding' catch, a rejected one is never answered.      *)
ValidateSaveFails(t) ==
  /\ MayFail("save")
  /\ Goto(t, "validating", "done")
  /\ \/ UpdateResult(t, "ERROR", "error during onboarding")
     \/ UpdateResult(t, "ERROR", "bad declaration")
  /\ NotSaved
  /\ UNCHANGED <<up, ctx, prepVars, deviceVars, clientVars, auxVars>>

(* The platform is known: an async client is answered with a 202. *)
Platform(t) ==
  /\ Goto(t, "platform", "account")
  /\ response' = IF Async(t) THEN [response EXCEPT ![t] = mem[t].status] ELSE response
  /\ UNCHANGED <<up, storeVars, ctx, prepVars, deviceVars, webhooks, auxVars>>

(* getPrimaryAdminUser, dereference and initialAccountSetup. *)
Account(t) ==
  /\ Goto(t, "account", "init")
  /\ UNCHANGED <<up, storeVars, ctx, prepVars, deviceVars, clientVars, auxVars>>

(* A rejection before onboarding: status only, not saved, nobody answered. *)
FailEarly(t) ==
  /\ MayFail("step")
  /\ pc[t] \in EarlyPC
  /\ Goto(t, pc[t], "done")
  /\ UpdateResult(t, "ERROR", "error during onboarding")
  /\ NotSaved
  /\ UNCHANGED <<up, ctx, prepVars, deviceVars, clientVars, auxVars>>

(* handleFetches and initBigIp; onboard registers the device. *)
InitBigIp(t) ==
  /\ up /\ pc[t] \in {"init", "resumeInit"}
  /\ pc' = [pc EXCEPT ![t] = "getConfig"]
  /\ ctx' = [ctx EXCEPT ![t].bigIp = TRUE]
  /\ UNCHANGED <<up, storeVars, prepVars, deviceVars, clientVars, auxVars>>

(* initBigIp swallows the rejection: the chain goes on without a device. *)
InitBigIpFails(t) ==
  /\ MayFail("step")
  /\ up /\ pc[t] \in {"init", "resumeInit"}
  /\ pc' = [pc EXCEPT ![t] = "respond"]
  /\ UpdateResult(t, "ERROR", "failed to initialize device")
  /\ NotSaved
  /\ UNCHANGED <<up, ctx, prepVars, deviceVars, clientVars, auxVars>>

-----------------------------------------------------------------------------
(* onboard: DeclarationHandler.process and the calls around it *)

GetConfig(t) ==
  /\ Goto(t, "getConfig", "process")
  /\ GetCurrentConfig(t)
  /\ Save
  /\ ctx' = [ctx EXCEPT ![t].handler = TRUE]
  /\ UNCHANGED <<up, prepVars, deviceVars, clientVars, auxVars>>

(* Parse, apply defaults, diff against currentConfig; a dry run ends here. *)
Process(t) ==
  /\ IF Dry(t) THEN /\ Goto(t, "process", "sysSave")
                    /\ mem' = [mem EXCEPT ![t] = [@ EXCEPT !.rebootRequired = FALSE]]
               ELSE Goto(t, "process", "system") /\ UNCHANGED mem
  /\ NotSaved
  /\ UNCHANGED <<up, ctx, prepVars, deviceVars, clientVars, auxVars>>

(* A section is written when the diff, taken against the configuration the *)
(* task read, says that it differs.                                        *)
ApplySystem(t) ==
  /\ Goto(t, "system", "license")
  /\ device' = IF mem[t].currentConfig.system # t THEN [device EXCEPT !.system = t] ELSE device
  /\ UNCHANGED <<up, storeVars, ctx, prepVars, sysConfig, rebootPending, rebootIssued,
                 diskCommand, servicesBounce, clientVars, auxVars>>

(* Mutant: the revoke does not wait for READY_FOR_REVOKE. *)
LicenseAtOnce(t) ==
  /\ IF mem[t].declaration.revoke
       THEN /\ Goto(t, "license", "revoke")
            /\ waiter' = t
            /\ revPrep' = [revPrep EXCEPT ![t] = "save"]
       ELSE Goto(t, "license", "disk") /\ UNCHANGED <<waiter, revPrep>>
  /\ UNCHANGED <<up, storeVars, ctx, rebPrep, deviceVars, clientVars, auxVars>>

(* handleLicense.  With a revoke: waitForRevokeReady removes every         *)
(* READY_FOR_REVOKE listener and adds its own, then nextTick emits         *)
(* LICENSE_WILL_BE_REVOKED to the worker.                                  *)
License(t) ==
  /\ IF mem[t].declaration.revoke
       THEN /\ Goto(t, "license", "waitReady")
            /\ waiter' = t
            /\ revPrep' = [revPrep EXCEPT ![t] = "save"]
       ELSE Goto(t, "license", "disk") /\ UNCHANGED <<waiter, revPrep>>
  /\ UNCHANGED <<up, storeVars, ctx, rebPrep, deviceVars, clientVars, auxVars>>

(* revokeLicense: the services of the device may restart any time now. *)
Revoke(t) ==
  /\ Goto(t, "revoke", "relicense")
  /\ revokes' = [revokes EXCEPT ![t] = @ + 1]
  /\ servicesBounce' = TRUE
  /\ UNCHANGED <<up, storeVars, ctx, prepVars, device, sysConfig, rebootPending,
                 rebootIssued, diskCommand, clientVars, found, faults>>

Relicense(t) ==
  /\ Goto(t, "relicense", "disk")
  /\ UNCHANGED <<up, storeVars, ctx, prepVars, deviceVars, clientVars, auxVars>>

(* handleDisk starts the resize and does not wait for it. *)
Disk(t) ==
  /\ IF mem[t].declaration.disk /\ ~mem[t].currentConfig.large
       THEN Goto(t, "disk", "diskSave") /\ diskCommand' = TRUE
       ELSE Goto(t, "disk", "rest") /\ UNCHANGED diskCommand
  /\ UNCHANGED <<up, storeVars, ctx, prepVars, device, sysConfig, rebootPending,
                 rebootIssued, servicesBounce, clientVars, auxVars>>

(* bigIp.save, then REBOOT_NOW; its listener flags the reboot and saves.   *)
(* From here waitForReboot never resolves on a BIG-IP.                     *)
DiskSave(t) ==
  /\ Goto(t, "diskSave", "waitReboot")
  /\ sysConfig' = device
  /\ mem' = [mem EXCEPT ![t] = [@ EXCEPT !.rebootRequired = TRUE]]
  /\ \/ Save /\ rebPrep' = [rebPrep EXCEPT ![t] = "save"]
     \/ MayFail("save") /\ NotSaved /\ UNCHANGED rebPrep
  /\ UNCHANGED <<up, ctx, waiter, revPrep, device, rebootPending, rebootIssued,
                 diskCommand, servicesBounce, clientVars, auxVars>>

(* The handlers after the system handler.  Any of them may leave the       *)
(* device asking for a reboot or return rebootRequired; onboard stores it. *)
ApplyRest(t) ==
  /\ Goto(t, "rest", "sysSave")
  /\ device' = IF mem[t].currentConfig.rest # t THEN [device EXCEPT !.rest = t] ELSE device
  /\ \E pending, required \in BOOLEAN :
       /\ rebootPending' = (rebootPending \/ pending)
       /\ mem' = [mem EXCEPT ![t] = [@ EXCEPT !.rebootRequired = required]]
  /\ NotSaved
  /\ UNCHANGED <<up, ctx, prepVars, sysConfig, rebootIssued, diskCommand, servicesBounce,
                 clientVars, auxVars>>

SysSave(t) ==
  /\ Goto(t, "sysSave", "check")
  /\ SaveConfig(t)
  /\ UNCHANGED <<up, storeVars, ctx, prepVars, device, rebootPending, rebootIssued,
                 diskCommand, servicesBounce, clientVars, auxVars>>

(* doUtil.rebootRequired, only to fail here rather than later. *)
CheckReboot(t) ==
  /\ Goto(t, "check", "finalSave")
  /\ UNCHANGED <<up, storeVars, ctx, prepVars, deviceVars, clientVars, auxVars>>

(* The catch of onboard: roll back to what the task read when it started.  *)
(* handleLicense rejects by itself when READY_FOR_REVOKE does not come.    *)
FailOnboard(t) ==
  /\ up
  /\ \/ pc[t] \in OnboardPC \ {"waitReady"} /\ MayFail("step")
     \/ pc[t] = "waitReady" /\ MayFail("timeout")
  /\ \/ /\ pc' = [pc EXCEPT ![t] = "rbGet"]
        /\ UpdateResult(t, "ROLLING_BACK", "invalid config - rolling back")
        /\ Save
        /\ ctx' = [ctx EXCEPT ![t].rollbackTo = mem[t].currentConfig]
     \/ /\ MayFail("save")
        /\ pc' = [pc EXCEPT ![t] = "finalSave"]
        /\ UpdateResult(t, "ERROR", "rollback failed")
        /\ NotSaved
        /\ UNCHANGED ctx
  /\ UNCHANGED <<up, prepVars, deviceVars, clientVars, auxVars>>

-----------------------------------------------------------------------------
(* The rollback in the catch of onboard *)

RollbackGet(t) ==
  /\ Goto(t, "rbGet", "rbSystem")
  /\ GetCurrentConfig(t)
  /\ Save
  /\ UNCHANGED <<up, ctx, prepVars, deviceVars, clientVars, auxVars>>

(* declarationHandler.process(rollbackTo): a TypeError when there is no    *)
(* handler, a rejection by handleDisk when the disk would have to shrink.  *)
RollbackPossible(t) ==
  ctx[t].handler /\ ctx[t].rollbackTo.large = mem[t].currentConfig.large

RollbackSystem(t) ==
  /\ RollbackPossible(t)
  /\ Goto(t, "rbSystem", "rbRest")
  /\ device' = IF ctx[t].rollbackTo.system # mem[t].currentConfig.system
                 THEN [device EXCEPT !.system = ctx[t].rollbackTo.system] ELSE device
  /\ UNCHANGED <<up, storeVars, ctx, prepVars, sysConfig, rebootPending, rebootIssued,
                 diskCommand, servicesBounce, clientVars, auxVars>>

(* The status of this process() is dropped; the device may ask for reboot. *)
RollbackRest(t) ==
  /\ Goto(t, "rbRest", "rbGet2")
  /\ device' = IF ctx[t].rollbackTo.rest # mem[t].currentConfig.rest
                 THEN [device EXCEPT !.rest = ctx[t].rollbackTo.rest] ELSE device
  /\ \E pending \in BOOLEAN : rebootPending' = (rebootPending \/ pending)
  /\ UNCHANGED <<up, storeVars, ctx, prepVars, sysConfig, rebootIssued, diskCommand,
                 servicesBounce, clientVars, auxVars>>

RollbackGet2(t) ==
  /\ Goto(t, "rbGet2", "rbReport")
  /\ GetCurrentConfig(t)
  /\ Save
  /\ UNCHANGED <<up, ctx, prepVars, deviceVars, clientVars, auxVars>>

RollbackReport(t) ==
  /\ Goto(t, "rbReport", "finalSave")
  /\ UpdateResult(t, "ERROR", "invalid config - rolled back")
  /\ Save
  /\ UNCHANGED <<up, ctx, prepVars, deviceVars, clientVars, auxVars>>

FailRollback(t) ==
  /\ \/ pc[t] \in RollbackPC \ {"rbReport"} /\ MayFail("step")
     \/ pc[t] = "rbSystem" /\ ~RollbackPossible(t)
     \/ pc[t] = "rbReport" /\ MayFail("save")
  /\ Goto(t, pc[t], "finalSave")
  /\ UpdateResult(t, "ERROR", "rollback failed")
  /\ NotSaved
  /\ UNCHANGED <<up, ctx, prepVars, deviceVars, clientVars, auxVars>>

-----------------------------------------------------------------------------
(* After onboard: final save, status, answer, reboot, webhook *)

(* Mutant: setPostOnboardStatus does not look for an error. *)
FinalSaveBlind(t) ==
  /\ Goto(t, "finalSave", "postGet")
  /\ IF ctx[t].resumed THEN sysConfig' = device ELSE SaveConfig(t)
  /\ UNCHANGED <<up, storeVars, ctx, prepVars, device, rebootPending, rebootIssued,
                 diskCommand, servicesBounce, clientVars, auxVars>>

(* The chain of a POST uses saveConfig, the chain of a resumed task calls  *)
(* bigIp.save.  setPostOnboardStatus, called next, reads the status before *)
(* it waits for anything.                                                  *)
FinalSave(t) ==
  /\ Goto(t, "finalSave", IF mem[t].status = "ERROR" THEN "postGetError" ELSE "postGet")
  /\ IF ctx[t].resumed THEN sysConfig' = device ELSE SaveConfig(t)
  /\ UNCHANGED <<up, storeVars, ctx, prepVars, device, rebootPending, rebootIssued,
                 diskCommand, servicesBounce, clientVars, auxVars>>

PostGet(t) ==
  /\ \/ Goto(t, "postGet", "postCheck")
     \/ Goto(t, "postGetError", "respond")
  /\ GetCurrentConfig(t)
  /\ Save
  /\ UNCHANGED <<up, ctx, prepVars, deviceVars, clientVars, auxVars>>

PostStatus(t) ==
  /\ Goto(t, "postCheck", "respond")
  /\ IF RebootRequired(t) THEN UpdateResult(t, "REBOOTING", "reboot required")
                          ELSE UpdateResult(t, "OK", "success")
  /\ Save
  /\ UNCHANGED <<up, ctx, prepVars, deviceVars, clientVars, auxVars>>

(* Only the chain of a POST has a client to answer. *)
Respond(t) ==
  /\ Goto(t, "respond", "rebootCheck")
  /\ response' = IF Async(t) \/ ctx[t].resumed THEN response
                 ELSE [response EXCEPT ![t] = mem[t].status]
  /\ UNCHANGED <<up, storeVars, ctx, prepVars, deviceVars, webhooks, auxVars>>

RebootIfRequired(t) ==
  /\ Goto(t, "rebootCheck", "webhook")
  /\ rebootIssued' = (rebootIssued \/ (ctx[t].bigIp /\ RebootRequired(t)))
  /\ UNCHANGED <<up, storeVars, ctx, prepVars, device, sysConfig, rebootPending,
                 diskCommand, servicesBounce, clientVars, auxVars>>

(* When doUtil.rebootRequired rejects, the promise of rebootIfRequired is  *)
(* never settled and the chain stops there.                                *)
RebootCheckHangs(t) ==
  /\ MayFail("step")
  /\ ctx[t].bigIp /\ ~mem[t].rebootRequired
  /\ Goto(t, "rebootCheck", "hung")
  /\ UNCHANGED <<up, storeVars, ctx, prepVars, deviceVars, clientVars, auxVars>>

(* A rejection after onboard, or before it: status only, not saved, and    *)
(* the client of a synchronous POST is not answered.                       *)
FailTail(t) ==
  /\ \/ pc[t] \in TailPC \cup {"init", "resumeInit"} /\ MayFail("step")
     \/ pc[t] = "postCheck" /\ MayFail("save")
  /\ Goto(t, pc[t], "webhook")
  /\ UpdateResult(t, "ERROR", "failed")
  /\ NotSaved
  /\ UNCHANGED <<up, ctx, prepVars, deviceVars, clientVars, auxVars>>

(* postWebhook ends the chain of a POST; a resumed chain has none. *)
PostWebhook(t) ==
  /\ Goto(t, "webhook", "done")
  /\ webhooks' = IF mem[t].declaration.webhook /\ ~ctx[t].resumed
                   THEN [webhooks EXCEPT ![t] = @ \cup {mem[t].status}] ELSE webhooks
  /\ UNCHANGED <<up, storeVars, ctx, prepVars, deviceVars, response, auxVars>>

-----------------------------------------------------------------------------
(* The listeners: prepForRebootResumeOrRevoke, READY_FOR_REVOKE, the reboot *)

PrepSave(t) ==
  /\ up
  /\ \/ /\ revPrep[t] = "save" /\ revPrep' = [revPrep EXCEPT ![t] = "mark"]
        /\ UNCHANGED rebPrep
     \/ /\ rebPrep[t] = "save" /\ rebPrep' = [rebPrep EXCEPT ![t] = "mark"]
        /\ UNCHANGED revPrep
  /\ sysConfig' = device
  /\ UNCHANGED <<up, storeVars, pc, ctx, waiter, device, rebootPending, rebootIssued,
                 diskCommand, servicesBounce, clientVars, auxVars>>

PrepMark(t) ==
  /\ up
  /\ \/ /\ revPrep[t] = "mark" /\ revPrep' = [revPrep EXCEPT ![t] = "ready"]
        /\ UpdateResult(t, "REVOKING", "revoking license")
        /\ UNCHANGED rebPrep
     \/ /\ rebPrep[t] = "mark" /\ rebPrep' = [rebPrep EXCEPT ![t] = "reboot"]
        /\ UpdateResult(t, "REBOOTING_AND_RESUMING", "rebooting and resuming")
        /\ UNCHANGED revPrep
  /\ Save
  /\ UNCHANGED <<up, pc, ctx, waiter, deviceVars, clientVars, auxVars>>

(* READY_FOR_REVOKE carries no task: whoever listens is released.  A       *)
(* listener whose 30 seconds are over resolves a promise already rejected. *)
EmitReady(t) ==
  /\ up /\ revPrep[t] = "ready"
  /\ revPrep' = [revPrep EXCEPT ![t] = "idle"]
  /\ pc' = IF waiter \in Task /\ pc[waiter] = "waitReady"
             THEN [pc EXCEPT ![waiter] = "revoke"] ELSE pc
  /\ UNCHANGED <<up, storeVars, ctx, waiter, rebPrep, deviceVars, clientVars, auxVars>>

(* The REBOOT_NOW listener ends with rebootIfRequired; the flag is set. *)
RebootNow(t) ==
  /\ up /\ rebPrep[t] = "reboot"
  /\ rebPrep' = [rebPrep EXCEPT ![t] = "idle"]
  /\ rebootIssued' = (rebootIssued \/ RebootRequired(t))
  /\ UNCHANGED <<up, storeVars, pc, ctx, waiter, revPrep, device, sysConfig, rebootPending,
                 diskCommand, servicesBounce, clientVars, auxVars>>

(* A listener that rejects only writes to the log. *)
PrepFails(t) ==
  /\ up
  /\ \/ /\ \/ revPrep[t] = "save" /\ MayFail("step")
           \/ revPrep[t] = "mark" /\ MayFail("save")
        /\ revPrep' = [revPrep EXCEPT ![t] = "idle"]
        /\ IF revPrep[t] = "mark" THEN UpdateResult(t, "REVOKING", "revoking license")
                                  ELSE UNCHANGED mem
        /\ UNCHANGED rebPrep
     \/ /\ \/ rebPrep[t] = "save" /\ MayFail("step")
           \/ rebPrep[t] = "mark" /\ MayFail("save")
        /\ rebPrep' = [rebPrep EXCEPT ![t] = "idle"]
        /\ IF rebPrep[t] = "mark"
             THEN UpdateResult(t, "REBOOTING_AND_RESUMING", "rebooting and resuming")
             ELSE UNCHANGED mem
        /\ UNCHANGED revPrep
  /\ NotSaved
  /\ UNCHANGED <<up, pc, ctx, waiter, deviceVars, clientVars, auxVars>>

-----------------------------------------------------------------------------
(* Restarts and startup *)

(* restnoded goes away: chains, listeners and the table in memory are lost. *)
LoseProcess ==
  /\ up' = FALSE
  /\ mem' = stored
  /\ mostRecent' = storedRecent
  /\ pc' = [t \in Task |-> "idle"]
  /\ ctx' = [t \in Task |-> NoContext]
  /\ waiter' = NoTask
  /\ revPrep' = [t \in Task |-> "idle"]
  /\ rebPrep' = [t \in Task |-> "idle"]
  /\ UNCHANGED <<stored, storedRecent, clientVars, revokes, found>>

Faulty(fault) == MayFail(fault) /\ faults < MaxFaults /\ faults' = faults + 1

ServiceRestart ==
  /\ up
  /\ \/ servicesBounce /\ UNCHANGED faults
     \/ Faulty("crash")
  /\ LoseProcess
  /\ servicesBounce' = FALSE
  /\ UNCHANGED <<device, sysConfig, rebootPending, rebootIssued, diskCommand>>

(* The disk keeps its size; the rest of the configuration is what was saved. *)
DeviceReboot ==
  /\ \/ rebootIssued /\ UNCHANGED faults
     \/ Faulty("power")
  /\ LoseProcess
  /\ device' = [sysConfig EXCEPT !.large = device.large]
  /\ rebootPending' = FALSE
  /\ rebootIssued' = FALSE
  /\ diskCommand' = FALSE
  /\ servicesBounce' = FALSE
  /\ UNCHANGED sysConfig

(* Mutant: a task that was revoking is not taken up again. *)
ResumedWithoutRevoking == {"RUNNING", "REBOOTING_AND_RESUMING"}

ResumedStatus == {"RUNNING", "REVOKING", "REBOOTING_AND_RESUMING"}

(* Mutant: they are left in. *)
WithRevoke(declaration) == declaration

(* revokeFrom and revokeCurrent are deleted from the declaration. *)
WithoutRevoke(declaration) == [declaration EXCEPT !.revoke = FALSE]

(* load and handleStartupState: only the most recent task is looked at.    *)
(* REBOOTING becomes OK, is posted to the webhook and saved; a running     *)
(* task is started again without its revoke.  The save that goes with that *)
(* is not awaited; whether it still wrote the revoke makes no difference,  *)
(* because the next startup takes it out again.                            *)
Startup ==
  /\ ~up
  /\ up' = TRUE
  /\ \/ /\ mostRecent \in Task
        /\ mem[mostRecent].status = "REBOOTING"
        /\ UpdateResult(mostRecent, "OK", "success")
        /\ webhooks' = IF mem[mostRecent].declaration.webhook
                         THEN [webhooks EXCEPT ![mostRecent] = @ \cup {"OK"}] ELSE webhooks
        /\ Save \/ (MayFail("save") /\ NotSaved)
        /\ UNCHANGED <<pc, ctx>>
     \/ /\ mostRecent \in Task
        /\ mem[mostRecent].status \in ResumedStatus
        /\ mem' = [mem EXCEPT ![mostRecent] =
                     [@ EXCEPT !.status = "RUNNING", !.message = "processing",
                               !.declaration = WithoutRevoke(mem[mostRecent].declaration)]]
        /\ pc' = [pc EXCEPT ![mostRecent] = "resumeInit"]
        /\ ctx' = [ctx EXCEPT ![mostRecent].resumed = TRUE]
        /\ Save \/ NotSaved
        /\ UNCHANGED webhooks
     \/ /\ mostRecent \in Task => mem[mostRecent].status \notin ResumedStatus \cup {"REBOOTING"}
        /\ UNCHANGED <<storeVars, pc, ctx, webhooks>>
  /\ UNCHANGED <<prepVars, deviceVars, response, auxVars>>

(* The resize ends, with or without effect. *)
DiskCommandEnds ==
  /\ diskCommand
  /\ diskCommand' = FALSE
  /\ \/ device' = [device EXCEPT !.large = TRUE]
     \/ MayFail("step") /\ UNCHANGED device
  /\ UNCHANGED <<up, storeVars, pc, ctx, prepVars, sysConfig, rebootPending, rebootIssued,
                 servicesBounce, clientVars, auxVars>>

-----------------------------------------------------------------------------
(* The specification *)

FactoryConfig == [system |-> Factory, large |-> FALSE, rest |-> Factory]

Init ==
  /\ up = TRUE
  /\ mem = [t \in Task |-> NoRecord]
  /\ stored = [t \in Task |-> NoRecord]
  /\ mostRecent = NoTask
  /\ storedRecent = NoTask
  /\ pc = [t \in Task |-> "idle"]
  /\ ctx = [t \in Task |-> NoContext]
  /\ waiter = NoTask
  /\ revPrep = [t \in Task |-> "idle"]
  /\ rebPrep = [t \in Task |-> "idle"]
  /\ device = FactoryConfig
  /\ sysConfig = FactoryConfig
  /\ rebootPending \in BOOLEAN      \* somebody else may have left it so
  /\ rebootIssued = FALSE
  /\ diskCommand = FALSE
  /\ servicesBounce = FALSE
  /\ response = [t \in Task |-> "none"]
  /\ webhooks = [t \in Task |-> {}]
  /\ revokes = [t \in Task |-> 0]
  /\ found = [t \in Task |-> NoConfig]
  /\ faults = 0

Accept(t) == ValidateAccepts(t) \/ ValidateRejects(t) \/ ValidateThrows(t)
             \/ ValidateSaveFails(t) \/ RespondBad(t) \/ Platform(t) \/ Account(t)
             \/ FailEarly(t) \/ InitBigIp(t) \/ InitBigIpFails(t)

Onboard(t) == GetConfig(t) \/ Process(t) \/ ApplySystem(t) \/ License(t) \/ Revoke(t)
              \/ Relicense(t) \/ Disk(t) \/ DiskSave(t) \/ ApplyRest(t) \/ SysSave(t)
              \/ CheckReboot(t) \/ FailOnboard(t)

Rollback(t) == RollbackGet(t) \/ RollbackSystem(t) \/ RollbackRest(t) \/ RollbackGet2(t)
               \/ RollbackReport(t) \/ FailRollback(t)

Finish(t) == FinalSave(t) \/ PostGet(t) \/ PostStatus(t) \/ Respond(t) \/ RebootIfRequired(t)
             \/ RebootCheckHangs(t) \/ FailTail(t) \/ PostWebhook(t)

Chain(t) == Accept(t) \/ Onboard(t) \/ Rollback(t) \/ Finish(t)

Listener(t) == PrepSave(t) \/ PrepMark(t) \/ EmitReady(t) \/ RebootNow(t) \/ PrepFails(t)

Environment == ServiceRestart \/ DeviceReboot \/ Startup \/ DiskCommandEnds

Next ==
  \/ \E t \in Task, d \in Declarations : Post(t, d)
  \/ \E t \in Task : PostUnreadable(t) \/ Chain(t) \/ Listener(t)
  \/ Environment

Spec == Init /\ [][Next]_vars

(* What node and the device do of their own accord.  A chain, a listener   *)
(* and a startup go on; a reboot that was asked for comes.  Nobody owes the *)
(* worker a crash, a POST or the end of a resize.                          *)
Fairness ==
  /\ \A t \in Task : WF_vars(Chain(t)) /\ WF_vars(Listener(t))
  /\ WF_vars(Startup)
  /\ WF_vars(rebootIssued /\ DeviceReboot)

FairSpec == Spec /\ Fairness

-----------------------------------------------------------------------------
(* Properties *)

RolledBack == "invalid config - rolled back"

(* A task that reports OK has its configuration in force, in the running   *)
(* and in the saved configuration, whatever failed, was restarted or was   *)
(* rebooted on the way (setPostOnboardStatus, updateStateAfterReboot).     *)
OkIsApplied ==
  \A t \in Task : mem[t].status = "OK" /\ ~Dry(t) =>
    /\ device.system = t /\ device.rest = t
    /\ sysConfig.system = t /\ sysConfig.rest = t
    /\ mem[t].declaration.disk => device.large

(* What a client was told, a restart does not take back: an answered task  *)
(* is in storage, and one that was answered OK or REBOOTING is stored as   *)
(* OK, or as a reboot that startup turns into OK (onPost saves before it   *)
(* answers, with one exception).  The exception is a body that is not      *)
(* JSON: its task is on record only if another chain has saved the table   *)
(* since, and then as an error; it is never worked on.                     *)
AnswerIsDurable ==
  \A t \in Task :
    /\ response[t] \notin {"none", "unreadable"} => stored[t].status \notin {"absent", "none"}
    /\ response[t] = "unreadable" => stored[t].status \in {"absent", "ERROR"}
    /\ response[t] = "OK" => stored[t].status = "OK"
    /\ response[t] = "REBOOTING" => stored[t].status \in {"REBOOTING", "OK"}

(* However often restnoded and the device restart, and however often the   *)
(* task is resumed, its license is revoked at most once (handleStartupState *)
(* removes revokeFrom and revokeCurrent).                                  *)
RevokeAtMostOnce == \A t \in Task : revokes[t] <= 1

(* The license is revoked only when the restart it causes will find the    *)
(* task in storage, to be resumed, and what has been configured so far in  *)
(* the saved configuration (waitForRevokeReady, prepForRebootResumeOrRevoke). *)
(* It is about one task: of several that revoke, one is released by the    *)
(* event of another, and a restart looks at the most recent one only.      *)
RevokeIsPrepared ==
  \A t \in Task : pc[t] = "revoke" =>
    /\ stored[t].status = "REVOKING" /\ storedRecent = t
    /\ sysConfig.system = t

(* When a task says that it was rolled back and nothing restarted, both    *)
(* the running and the saved configuration are what its POST found; only   *)
(* the disk cannot shrink (the catch of onboard, then saveConfig).         *)
RolledBackRestores ==
  \A t \in Task :
    mem[t].message = RolledBack /\ pc[t] \in {"postGetError", "respond", "done"}
      /\ ~ctx[t].resumed =>
    \A config \in {device, sysConfig} :
      config.system = found[t].system /\ config.rest = found[t].rest

(* The promise to the clients: what storage says of a task only goes       *)
(* forward, through restarts, failed saves and the saves of other chains,  *)
(* and each client is answered once, with what storage says; a client      *)
(* whose body could not be read, without any record, and for good.         *)
Promise == INSTANCE TaskPromise WITH
  phase  <- [t \in Task |->
               CASE stored[t].status \in {"absent", "none"} -> "absent"
                 [] stored[t].status = "OK" -> "ok"
                 [] stored[t].status = "ERROR" -> "failed"
                 [] OTHER -> "working"],
  answer <- [t \in Task |->
               CASE response[t] = "none" -> "none"
                 [] response[t] = "unreadable" -> "refused"
                 [] response[t] = "OK" -> "ok"
                 [] response[t] = "ERROR" -> "failed"
                 [] OTHER -> "accepted"]

KeepsPromise == Promise!Spec

(* Every task that was accepted is reported OK or ERROR in the end.        *)
AcceptedSettles ==
  \A t \in Task :
    stored[t].status = "RUNNING" ~> stored[t].status \in {"OK", "ERROR"}

(* setPostOnboardStatus: "Don't overwrite the error state if it's there".  *)
(* A chain that had to roll back does not report success.                  *)
ErrorNotOverwritten ==
  \A t \in Task : ctx[t].rollbackTo # NoConfig => mem[t].status # "OK"
=============================================================================
