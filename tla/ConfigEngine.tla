---------------------------- MODULE ConfigEngine ----------------------------
(***************************************************************************)
(* How Declarative Onboarding turns a declaration into calls to a BIG-IP:  *)
(* the configuration manager reads the device and keeps the original       *)
(* configuration (src/lib/configManager.js), the declaration handler fills *)
(* in what a declaration leaves out, diffs it against what was read and    *)
(* runs the handlers (declarationHandler.js, diffHandler.js), the delete   *)
(* handler removes what the diff says, and the worker rolls back when a    *)
(* handler rejects (restWorker.js, onboard).                               *)
(*                                                                         *)
(* A section of the configuration maps the items of one schema class to    *)
(* values.  An item is a named object, a property of a class without       *)
(* names, or a database variable.  A handler that rejects has made the     *)
(* changes of some classes and not of the others.  Left out: dry runs, the *)
(* fixes and patches of single classes, objects that can never be deleted, *)
(* and the class Disk, whose original value follows the device.            *)
(***************************************************************************)
EXTENDS Naturals, FiniteSets

CONSTANTS
  Task,           \* identifiers of the tasks that may be posted
  NoTask,
  Class,          \* classes of truth, other than Provision
  Kind,           \* what sort of class each is, see ClassKind
  NeedsModule,    \* the classes that exist only while the module is provisioned
  Item,
  Auditing,       \* the variable config.auditing, which every reading includes
  Value,
  None,           \* an item that is not there
  Missing,        \* a class, or Provision, that is not mentioned
  NoConfig,       \* no configuration has been read or recorded
  Factory,        \* the configurations a device may have before the first POST
  Declarations,   \* the declarations a client may post
  MaxActive,      \* how many tasks run at once
  MaxDeletes,     \* how many DELETEs of the original configuration there are
  MaxFaults       \* how many calls reject, or restarts of restnoded there are

ClassKind ==
  { "named",      \* VLAN, SelfIp, ...: in DELETABLE_CLASSES
    "gslb",       \* GSLBServer, ...: deleted by getGSLBClassTransaction
    "nameless",   \* NTP, System, ...: modified as a whole, never deleted
    "db" }        \* DbVariables: nameless, and read only where of interest

Section == [Item -> Value \cup {None}]
Empty   == [i \in Item |-> None]
Config  == [common: [Class -> Section], module: BOOLEAN]
Declaration == [common: [Class -> Section], module: BOOLEAN \cup {Missing}]

(* The field base is history: the whole configuration of the device when   *)
(* the original configuration was recorded.                                *)
Original == [common: [Class -> Section \cup {Missing}], module: BOOLEAN, base: Config]

ASSUME EngineAssumption ==
  /\ NoTask \notin Task
  /\ Class # {}
  /\ Kind \in [Class -> ClassKind]
  /\ NeedsModule \subseteq {c \in Class : Kind[c] # "db"}
  /\ {c \in Class : Kind[c] = "gslb"} \subseteq NeedsModule
  /\ None \notin Value
  /\ Missing \notin Section \cup BOOLEAN
  /\ NoConfig \notin Config \cup Original
  /\ Auditing \in Item
  /\ Factory \subseteq Config
  /\ Declarations \subseteq Declaration
  /\ \A f \in Factory, c \in Class :
       /\ Kind[c] = "db" => f.common[c][Auditing] # None
       /\ c \in NeedsModule /\ ~f.module => f.common[c] = Empty
       /\ Kind[c] \in {"nameless", "db"} =>
            \A d \in Declarations, i \in Item :
              f.common[c][i] = None => d.common[c][i] = None
  /\ MaxActive \in Nat /\ MaxDeletes \in Nat /\ MaxFaults \in Nat

VARIABLES
  device,     \* the configuration of the device
  original,   \* doState.originalConfig of this device
  stage,      \* where each task's promise chain is
  decl,       \* its declaration
  cur,        \* its currentConfig
  taskOrig,   \* its own originalConfig
  target,     \* the declaration its handlers work towards, defaults applied
  rolling,    \* its handlers are rolling back
  result,     \* how it ended
  recent,     \* doState.mostRecentTask
  deletes,    \* DELETEs so far
  faults,     \* faults so far
  found,      \* history: the configuration each POST found
  alone,      \* history: no other task ran while this one did, nor a restart
  prev,       \* history: the task that ended just before this one started
  last,       \* history: the task that ended last
  raced       \* history: a DELETE came while a task was running

taskVars == <<stage, decl, cur, taskOrig, target, rolling, result>>
histVars == <<found, alone, prev, last, raced>>
vars == <<device, original, taskVars, recent, deletes, faults, histVars>>

HandlerStage == {"system", "provision", "create", "delete", "deprovision"}
Stage == HandlerStage \cup {"idle", "read", "rollbackRead", "verify", "post", "done", "lost"}
Result == {"none", "ok", "rolledBack", "failed"}

TypeOK ==
  /\ device \in Config
  /\ original \in Original \cup {NoConfig}
  /\ stage \in [Task -> Stage]
  /\ decl \in [Task -> Declaration \cup {NoConfig}]
  /\ cur \in [Task -> Config \cup {NoConfig}]
  /\ taskOrig \in [Task -> Original \cup {NoConfig}]
  /\ target \in [Task -> Config \cup {NoConfig}]
  /\ rolling \in [Task -> BOOLEAN]
  /\ result \in [Task -> Result]
  /\ recent \in Task \cup {NoTask}
  /\ deletes \in Nat /\ faults \in Nat
  /\ found \in [Task -> Config \cup {NoConfig}]
  /\ alone \in [Task -> BOOLEAN]
  /\ prev \in [Task -> Task \cup {NoTask}]
  /\ last \in Task \cup {NoTask}
  /\ raced \in BOOLEAN

Active == {t \in Task : stage[t] \notin {"idle", "done", "lost"}}

-----------------------------------------------------------------------------
(* ConfigManager.get *)

Present(section) == {i \in Item : section[i] # None}

(* dbVarsOfInterest: what the declaration sets and what the task has read  *)
(* before; a new task has read nothing.                                    *)
OfInterest(t, c) ==
  {Auditing} \cup Present(decl[t].common[c])
             \cup (IF cur[t] = NoConfig THEN {} ELSE Present(cur[t].common[c]))

(* A class whose module is not provisioned is not read, nor has it items. *)
Reading(t) ==
  [device EXCEPT !.common =
     [c \in Class |-> [i \in Item |->
        IF Kind[c] = "db" => i \in OfInterest(t, c) THEN device.common[c][i] ELSE None]]]

Available(c, config) == c \in NeedsModule => config.module

(* Mutant: what was read replaces what is on record. *)
FillInAnew(section, reading) ==
  [i \in Item |-> IF reading[i] = None THEN section[i] ELSE reading[i]]

(* Mutant: only what the first task read is ever on record. *)
FillInNothing(section, reading) == section

(* An original value, once there, is kept; what was never read is filled in. *)
FillIn(section, reading) ==
  [i \in Item |-> IF section[i] = None THEN reading[i] ELSE section[i]]

(* Mutant: a task does not look at the table. *)
KnownAnew(t, reading) ==
  IF taskOrig[t] # NoConfig
    THEN taskOrig[t]
    ELSE [common |-> reading.common, module |-> reading.module, base |-> device]

(* A task that has a copy of the original configuration puts it back when  *)
(* the table has none; without either it is what was read.                 *)
Known(t, reading) ==
  IF original # NoConfig         THEN original
  ELSE IF taskOrig[t] # NoConfig THEN taskOrig[t]
  ELSE [common |-> reading.common, module |-> reading.module, base |-> device]

(* The tail of get: a class is taken up when its module is provisioned and *)
(* forgotten when it is not.                                               *)
Recorded(t, reading) ==
  LET known == Known(t, reading)
  IN [known EXCEPT !.common = [c \in Class |->
        IF ~Available(c, reading)             THEN Missing
        ELSE IF known.common[c] = Missing     THEN reading.common[c]
        ELSE IF Kind[c] = "db"                THEN FillIn(known.common[c], reading.common[c])
        ELSE known.common[c]]]

(* get, followed by the save of the table. *)
Get(t) ==
  LET reading == Reading(t)
      o == Recorded(t, reading)
  IN /\ cur' = [cur EXCEPT ![t] = reading]
     /\ original' = o
     /\ taskOrig' = [taskOrig EXCEPT ![t] = o]

-----------------------------------------------------------------------------
(* DeclarationHandler.process up to the handlers *)

(* Mutant: what the original configuration does not have is not left out. *)
ApplyDefaultsBlindly(d, o) ==
  [common |-> [c \in Class |-> IF d.common[c] # Empty THEN d.common[c] ELSE o.common[c]],
   module |-> IF d.module = Missing THEN o.module ELSE d.module]

(* applyDefaults: a class that is missing or empty gets its original value. *)
ApplyDefaults(d, o) ==
  [common |-> [c \in Class |->
                 IF d.common[c] # Empty THEN d.common[c]
                 ELSE IF o.common[c] = Missing THEN Empty ELSE o.common[c]],
   module |-> IF d.module = Missing THEN o.module ELSE d.module]

(* DiffHandler.process, what it says to update: the named objects that     *)
(* differ, or all of a nameless class that differs somewhere.              *)
ToUpdate(t, c) ==
  IF Kind[c] \in {"named", "gslb"}
    THEN {i \in Present(target[t].common[c]) : target[t].common[c][i] # cur[t].common[c][i]}
    ELSE IF target[t].common[c] = cur[t].common[c] THEN {} ELSE Present(target[t].common[c])

(* Mutant: what is new is removed. *)
RemovedNew(t, c) == Present(target[t].common[c]) \ Present(cur[t].common[c])

Removed(t, c) == Present(cur[t].common[c]) \ Present(target[t].common[c])

(* Mutant: items are deleted only when their whole class goes. *)
ToDeleteWhole(t, c) ==
  IF Kind[c] = "named" /\ target[t].common[c] = Empty THEN Removed(t, c) ELSE {}

(* What it says to delete, as the delete handler reads it.  A class that   *)
(* goes as a whole is an empty object, which means all of its items in     *)
(* deleteClass and none in getGSLBClassTransaction.                        *)
ToDelete(t, c) ==
  CASE Kind[c] = "named" -> Removed(t, c)
    [] Kind[c] = "gslb"  -> IF target[t].common[c] = Empty THEN {} ELSE Removed(t, c)
    [] OTHER             -> {}

-----------------------------------------------------------------------------
(* The handlers, and what they leave on the device *)

SystemClasses == {c \in Class \ NeedsModule : Kind[c] \in {"nameless", "db"}}

Updated(t, classes) ==
  [device EXCEPT !.common =
     [c \in Class |-> [i \in Item |->
        IF c \in classes /\ i \in ToUpdate(t, c) THEN target[t].common[c][i]
                                                 ELSE device.common[c][i]]]]

Deleted(t, classes) ==
  [device EXCEPT !.common =
     [c \in Class |-> [i \in Item |->
        IF c \in classes /\ i \in ToDelete(t, c) THEN None ELSE device.common[c][i]]]]

(* Without its module a class loses its items. *)
Provisioned(on) ==
  [common |-> [c \in Class |-> IF c \in NeedsModule /\ ~on THEN Empty ELSE device.common[c]],
   module |-> on]

(* What each handler may have done by the time it resolves (all of its     *)
(* classes) or rejects (some of them).                                     *)
Effect(t, classes) ==
  LET Set(on) == IF target[t].module = cur[t].module \/ classes = {} THEN device
                                                                     ELSE Provisioned(on)
  IN CASE stage[t] = "system"      -> Updated(t, classes \cap SystemClasses)
       [] stage[t] = "create"      -> Updated(t, classes \ SystemClasses)
       [] stage[t] = "delete"      -> Deleted(t, classes)
       [] stage[t] = "provision"   -> Set(cur[t].module \/ target[t].module)
       [] stage[t] = "deprovision" -> Set(target[t].module)

NextStage(t) ==
  CASE stage[t] = "system"      -> "provision"
    [] stage[t] = "provision"   -> "create"
    [] stage[t] = "create"      -> "delete"
    [] stage[t] = "delete"      -> "deprovision"
    [] stage[t] = "deprovision" -> IF rolling[t] THEN "verify" ELSE "post"

(* The device refuses objects of a module it does not run. *)
Refused(t) ==
  /\ stage[t] = "create"
  /\ \E c \in NeedsModule : ToUpdate(t, c) # {} /\ ~device.module

-----------------------------------------------------------------------------
(* Tasks *)

Post(t, d) ==
  /\ stage[t] = "idle"
  /\ Cardinality(Active) < MaxActive
  /\ stage' = [stage EXCEPT ![t] = "read"]
  /\ decl' = [decl EXCEPT ![t] = d]
  /\ recent' = t
  /\ found' = [found EXCEPT ![t] = device]
  /\ alone' = [u \in Task |-> IF u = t THEN Active = {} ELSE alone[u] /\ u \notin Active]
  /\ prev' = [prev EXCEPT ![t] = IF Active = {} THEN last ELSE NoTask]
  /\ UNCHANGED <<device, original, cur, taskOrig, target, rolling, result, deletes, faults,
                 last, raced>>

(* The first task of a device has one object for what it read and for the  *)
(* original configuration, and removeEmptyObjects removes the empty        *)
(* classes from it; the table has a copy.                                  *)
Unaliased(t, o) ==
  IF original = NoConfig /\ taskOrig[t] = NoConfig
    THEN [o EXCEPT !.common = [c \in Class |->
            IF o.common[c] = Empty THEN Missing ELSE o.common[c]]]
    ELSE o

(* onboard reads the configuration and process computes the diff.  Nothing *)
(* that other tasks do in between reaches the diff.                        *)
Read(t) ==
  LET o == Recorded(t, Reading(t))
  IN /\ stage[t] = "read"
     /\ cur' = [cur EXCEPT ![t] = Reading(t)]
     /\ original' = o
     /\ taskOrig' = [taskOrig EXCEPT ![t] = Unaliased(t, o)]
     /\ target' = [target EXCEPT ![t] = ApplyDefaults(decl[t], o)]
     /\ stage' = [stage EXCEPT ![t] = "system"]
     /\ UNCHANGED <<device, decl, rolling, result, recent, deletes, faults, histVars>>

(* Mutant: the diff is taken against what was read before the failure. *)
RollbackReadStale(t) ==
  /\ stage[t] = "rollbackRead"
  /\ target' = [target EXCEPT ![t] = ApplyDefaults(cur[t], taskOrig[t])]
  /\ stage' = [stage EXCEPT ![t] = "system"]
  /\ rolling' = [rolling EXCEPT ![t] = TRUE]
  /\ UNCHANGED <<device, original, decl, cur, taskOrig, result, recent, deletes, faults,
                 histVars>>

(* The catch of onboard: the target is what the task had read, given to    *)
(* process as a declaration, with defaults applied to it as well.          *)
RollbackRead(t) ==
  /\ stage[t] = "rollbackRead"
  /\ Get(t)
  /\ target' = [target EXCEPT ![t] = ApplyDefaults(cur[t], taskOrig'[t])]
  /\ stage' = [stage EXCEPT ![t] = "system"]
  /\ rolling' = [rolling EXCEPT ![t] = TRUE]
  /\ UNCHANGED <<device, decl, result, recent, deletes, faults, histVars>>

Handle(t) ==
  /\ stage[t] \in HandlerStage
  /\ ~Refused(t)
  /\ device' = Effect(t, Class)
  /\ stage' = [stage EXCEPT ![t] = NextStage(t)]
  /\ UNCHANGED <<original, decl, cur, taskOrig, target, rolling, result, recent, deletes,
                 faults, histVars>>

(* A handler rejects after some of its writes. *)
HandlerFails(t) ==
  /\ stage[t] \in HandlerStage
  /\ IF Refused(t) THEN UNCHANGED faults
                   ELSE faults < MaxFaults /\ faults' = faults + 1
  /\ \E classes \in SUBSET (IF Refused(t) THEN Class \ NeedsModule ELSE Class) :
       device' = Effect(t, classes)
  /\ IF rolling[t]
       THEN /\ stage' = [stage EXCEPT ![t] = "post"]
            /\ result' = [result EXCEPT ![t] = "failed"]
       ELSE /\ stage' = [stage EXCEPT ![t] = "rollbackRead"]
            /\ UNCHANGED result
  /\ UNCHANGED <<original, decl, cur, taskOrig, target, rolling, recent, deletes,
                 histVars>>

(* Reading the device rejects: before there is a handler, a rollback is    *)
(* impossible; afterwards it has failed.                                   *)
ReadFails(t) ==
  /\ faults < MaxFaults
  /\ faults' = faults + 1
  /\ stage[t] \in {"read", "rollbackRead", "verify", "post"}
  /\ stage' = [stage EXCEPT ![t] = IF stage[t] = "post" THEN "done" ELSE "post"]
  /\ result' = [result EXCEPT ![t] = "failed"]
  /\ last' = IF stage[t] = "post" THEN t ELSE last
  /\ UNCHANGED <<device, original, decl, cur, taskOrig, target, rolling, recent, deletes,
                 found, alone, prev, raced>>

Verify(t) ==
  /\ stage[t] = "verify"
  /\ Get(t)
  /\ stage' = [stage EXCEPT ![t] = "post"]
  /\ result' = [result EXCEPT ![t] = "rolledBack"]
  /\ UNCHANGED <<device, decl, target, rolling, recent, deletes, faults, histVars>>

(* setPostOnboardStatus reads the configuration once more. *)
Finish(t) ==
  /\ stage[t] = "post"
  /\ Get(t)
  /\ stage' = [stage EXCEPT ![t] = "done"]
  /\ result' = [result EXCEPT ![t] = IF @ = "none" THEN "ok" ELSE @]
  /\ last' = t
  /\ UNCHANGED <<device, decl, target, rolling, recent, deletes, faults, found, alone, prev,
                 raced>>

(* onDelete *)
Delete ==
  /\ original # NoConfig
  /\ deletes < MaxDeletes
  /\ deletes' = deletes + 1
  /\ original' = NoConfig
  /\ raced' = (raced \/ Active # {})
  /\ UNCHANGED <<device, taskVars, recent, faults, found, alone, prev, last>>

(* restnoded restarts.  Every get is followed by a save, so that the table *)
(* is as it was; handleStartupState takes up the most recent task, unless  *)
(* it was rolling back or had failed.                                      *)
Resumes(t) == t = recent /\ stage[t] # "rollbackRead" /\ ~rolling[t] /\ result[t] = "none"

Restart ==
  /\ Active # {}
  /\ faults < MaxFaults
  /\ faults' = faults + 1
  /\ stage' = [t \in Task |-> IF t \notin Active THEN stage[t]
                              ELSE IF Resumes(t) THEN "read" ELSE "lost"]
  /\ alone' = [t \in Task |-> alone[t] /\ t \notin Active]
  /\ last' = NoTask
  /\ UNCHANGED <<device, original, decl, cur, taskOrig, target, rolling, result, recent,
                 deletes, found, prev, raced>>

-----------------------------------------------------------------------------
(* The specification *)

Init ==
  /\ device \in Factory
  /\ original = NoConfig
  /\ stage = [t \in Task |-> "idle"]
  /\ decl = [t \in Task |-> NoConfig]
  /\ cur = [t \in Task |-> NoConfig]
  /\ taskOrig = [t \in Task |-> NoConfig]
  /\ target = [t \in Task |-> NoConfig]
  /\ rolling = [t \in Task |-> FALSE]
  /\ result = [t \in Task |-> "none"]
  /\ recent = NoTask
  /\ deletes = 0
  /\ faults = 0
  /\ found = [t \in Task |-> NoConfig]
  /\ alone = [t \in Task |-> FALSE]
  /\ prev = [t \in Task |-> NoTask]
  /\ last = NoTask
  /\ raced = FALSE

Next ==
  \/ \E t \in Task, d \in Declarations : Post(t, d)
  \/ \E t \in Task : \/ Read(t) \/ RollbackRead(t) \/ Handle(t) \/ HandlerFails(t)
                     \/ ReadFails(t) \/ Verify(t) \/ Finish(t)
  \/ Delete
  \/ Restart

Spec == Init /\ [][Next]_vars

-----------------------------------------------------------------------------
(* Properties *)

(* Task t is the last that ran, it succeeded, and no other ran with it. *)
Succeeded(t) == last = t /\ Active = {} /\ alone[t] /\ result[t] = "ok"

(* What a successful declaration mentions is on the device: the named      *)
(* classes exactly, with everything else deleted (DiffHandler.process,     *)
(* deleteClass), and every property of the others, in spite of tasks that  *)
(* failed, were lost in a restart or ran at once before.                   *)
MentionedIsApplied ==
  \A t \in Task : Succeeded(t) =>
    /\ decl[t].module # Missing => device.module = decl[t].module
    /\ \A c \in Class : decl[t].common[c] # Empty /\ Available(c, device) =>
         IF Kind[c] \in {"named", "gslb"}
           THEN device.common[c] = decl[t].common[c]
           ELSE \A i \in Present(decl[t].common[c]) :
                  device.common[c][i] = decl[t].common[c][i]

(* A class that a successful declaration does not mention is as it was     *)
(* before the first declaration (applyDefaults, "will be set back to its   *)
(* original state"), whatever the declarations in between did to it.  Not  *)
(* so after a DELETE during a task, nor for classes that come and go with  *)
(* a module.                                                               *)
OmittedIsOriginal ==
  \A t \in Task : Succeeded(t) /\ ~raced /\ original # NoConfig =>
    /\ decl[t].module = Missing => device.module = original.base.module
    /\ \A c \in Class \ NeedsModule : decl[t].common[c] = Empty =>
         device.common[c] = original.base.common[c]

(* The original configuration holds nothing that a declaration brought     *)
(* about: every value in it is the one the device had when it was first    *)
(* recorded, although get adds database variables later and runs in the    *)
(* middle of other tasks, after failures and after restarts.               *)
OriginalIsNotOurs ==
  original # NoConfig /\ ~raced =>
    \A c \in Class \ NeedsModule :
      /\ original.common[c] # Missing
      /\ \A i \in Present(original.common[c]) :
           original.common[c][i] = original.base.common[c][i]

(* The original configuration is recorded once: until a DELETE no task,    *)
(* running alone, beside others or after a restart, puts another one in    *)
(* its place, and no value that is on record changes.                      *)
OriginalIsKept ==
  [][original # NoConfig /\ original' # NoConfig =>
       /\ original'.base = original.base
       /\ \A c \in Class \ NeedsModule : original.common[c] # Missing =>
            /\ original'.common[c] # Missing
            /\ \A i \in Present(original.common[c]) :
                 original'.common[c][i] = original.common[c][i]]_vars

(* A task that says it was rolled back, and ran alone, leaves the device   *)
(* as it found it, wherever its handlers failed.  Excepted are database    *)
(* variables it does not mention, which it may not have read, the first    *)
(* objects of a GSLB class, and tasks that a DELETE of the original        *)
(* configuration came upon.                                                *)
RollbackRestores ==
  \A t \in Task :
    last = t /\ Active = {} /\ alone[t] /\ ~raced /\ result[t] = "rolledBack" =>
    /\ device.module = found[t].module
    /\ \A c \in Class, i \in Item :
         /\ Kind[c] = "db" => decl[t].common[c][i] # None
         /\ Kind[c] = "gslb" => found[t].common[c] # Empty
         => device.common[c][i] = found[t].common[c][i]

(* Task t repeats the declaration of the task before it, which succeeded. *)
Repeats(t) ==
  /\ alone[t]
  /\ prev[t] # NoTask
  /\ alone[prev[t]] /\ result[prev[t]] = "ok"
  /\ decl[t] = decl[prev[t]]

(* Idempotence: the same declaration again changes nothing on the device,  *)
(* not even when it fails this time and is rolled back.                    *)
SecondPostIsQuiet ==
  [][\A t \in Task : stage[t] \in HandlerStage /\ Repeats(t) /\ stage'[t] # stage[t]
                      => device' = device]_vars
=============================================================================
