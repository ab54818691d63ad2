---------------------- MODULE ConfigEngineDeviceProofs ----------------------
(* Theorems about what the tasks of ConfigEngine do to the device: a        *)
(* declaration that succeeds is on it, with what it leaves out as it was at *)
(* first, a repeated one changes nothing, and one that is rolled back has   *)
(* changed nothing.                                                         *)
EXTENDS ConfigEngineProofs, FiniteSetTheorems

-----------------------------------------------------------------------------
(* What an action does to the variables, one task at a time *)

LEMMA PostDoes ==
  ASSUME TypeInv, NEW t \in Task, NEW d \in Declarations, Post(t, d)
  PROVE  /\ stage[t] = "idle" /\ stage'[t] = "read" /\ decl'[t] = d /\ found'[t] = device
         /\ alone'[t] => Active = {}
         /\ prev'[t] \in {last, NoTask}
         /\ Active' = Active \cup {t} /\ t \notin Active
         /\ \A u \in Task \ {t} : /\ stage'[u] = stage[u] /\ decl'[u] = decl[u]
                                  /\ found'[u] = found[u] /\ prev'[u] = prev[u]
                                  /\ alone'[u] => alone[u] /\ u \notin Active
         /\ UNCHANGED <<device, original, cur, taskOrig, target, rolling, result, last, raced>>
<1>1. /\ stage[t] = "idle"
      /\ stage' = [stage EXCEPT ![t] = "read"]
      /\ decl' = [decl EXCEPT ![t] = d]
      /\ found' = [found EXCEPT ![t] = device]
      /\ alone' = [u \in Task |-> IF u = t THEN Active = {} ELSE alone[u] /\ u \notin Active]
      /\ prev' = [prev EXCEPT ![t] = IF Active = {} THEN last ELSE NoTask]
      /\ UNCHANGED <<device, original, cur, taskOrig, target, rolling, result, last, raced>>
  BY DEF Post
<1>2. /\ stage'[t] = "read" /\ decl'[t] = d /\ found'[t] = device
      /\ prev'[t] \in {last, NoTask}
      /\ \A u \in Task \ {t} : /\ stage'[u] = stage[u] /\ decl'[u] = decl[u]
                               /\ found'[u] = found[u] /\ prev'[u] = prev[u]
  BY <1>1 DEF TypeInv, TypeOK
<1>3. alone'[t] => Active = {}
  BY <1>1, Zenon
<1>4. \A u \in Task \ {t} : alone'[u] => alone[u] /\ u \notin Active
  BY <1>1, Zenon
<1>5. Active' = Active \cup {t} /\ t \notin Active
  BY <1>1, <1>2 DEF Active
<1> QED BY <1>1, <1>2, <1>3, <1>4, <1>5

LEMMA ReadDoes ==
  ASSUME TypeInv, NEW t \in Task, Read(t)
  PROVE  /\ stage[t] = "read" /\ stage'[t] = "system"
         /\ cur'[t] = Reading(t) /\ original' = Recorded(t, Reading(t))
         /\ taskOrig'[t] = Unaliased(t, original')
         /\ target'[t] = ApplyDefaults(decl[t], original')
         /\ decl[t] \in Declarations
         /\ Active' = Active /\ t \in Active
         /\ \A u \in Task \ {t} : /\ stage'[u] = stage[u] /\ cur'[u] = cur[u]
                                  /\ taskOrig'[u] = taskOrig[u] /\ target'[u] = target[u]
         /\ UNCHANGED <<device, decl, rolling, result, recent, found, alone, prev, last, raced>>
<1>1. /\ stage[t] = "read"
      /\ cur' = [cur EXCEPT ![t] = Reading(t)]
      /\ original' = Recorded(t, Reading(t))
      /\ taskOrig' = [taskOrig EXCEPT ![t] = Unaliased(t, original')]
      /\ target' = [target EXCEPT ![t] = ApplyDefaults(decl[t], original')]
      /\ stage' = [stage EXCEPT ![t] = "system"]
      /\ UNCHANGED <<device, decl, rolling, result, recent, found, alone, prev, last, raced>>
  BY DEF Read, histVars
<1>2. decl[t] \in Declarations
  BY <1>1 DEF TypeInv, Shape
<1>3. /\ stage'[t] = "system" /\ cur'[t] = Reading(t) /\ taskOrig'[t] = Unaliased(t, original')
      /\ target'[t] = ApplyDefaults(decl[t], original')
      /\ \A u \in Task \ {t} : /\ stage'[u] = stage[u] /\ cur'[u] = cur[u]
                               /\ taskOrig'[u] = taskOrig[u] /\ target'[u] = target[u]
  BY <1>1 DEF TypeInv, TypeOK
<1>4. Active' = Active /\ t \in Active
  BY <1>1, <1>3 DEF Active
<1> QED BY <1>1, <1>2, <1>3, <1>4

LEMMA RollbackReadDoes ==
  ASSUME TypeInv, NEW t \in Task, RollbackRead(t)
  PROVE  /\ stage[t] = "rollbackRead" /\ stage'[t] = "system" /\ rolling'[t]
         /\ cur'[t] = Reading(t) /\ original' = Recorded(t, Reading(t))
         /\ taskOrig'[t] = original'
         /\ target'[t] = ApplyDefaults(cur[t], original')
         /\ cur[t] \in Config
         /\ Active' = Active /\ t \in Active
         /\ \A u \in Task \ {t} : /\ stage'[u] = stage[u] /\ cur'[u] = cur[u]
                                  /\ taskOrig'[u] = taskOrig[u] /\ target'[u] = target[u]
                                  /\ rolling'[u] = rolling[u]
         /\ UNCHANGED <<device, decl, result, recent, found, alone, prev, last, raced>>
<1>1. /\ stage[t] = "rollbackRead"
      /\ cur' = [cur EXCEPT ![t] = Reading(t)]
      /\ original' = Recorded(t, Reading(t))
      /\ taskOrig' = [taskOrig EXCEPT ![t] = Recorded(t, Reading(t))]
      /\ target' = [target EXCEPT ![t] = ApplyDefaults(cur[t], taskOrig'[t])]
      /\ stage' = [stage EXCEPT ![t] = "system"]
      /\ rolling' = [rolling EXCEPT ![t] = TRUE]
      /\ UNCHANGED <<device, decl, result, recent, found, alone, prev, last, raced>>
  BY DEF RollbackRead, Get, histVars
<1>2. cur[t] \in Config
  BY <1>1 DEF TypeInv, Shape
<1>3. /\ stage'[t] = "system" /\ cur'[t] = Reading(t)
      /\ taskOrig'[t] = original'
      /\ target'[t] = ApplyDefaults(cur[t], original')
      /\ \A u \in Task \ {t} : /\ stage'[u] = stage[u] /\ cur'[u] = cur[u]
                               /\ taskOrig'[u] = taskOrig[u] /\ target'[u] = target[u]
  BY <1>1 DEF TypeInv, TypeOK
<1>4. rolling'[t] /\ \A u \in Task \ {t} : rolling'[u] = rolling[u]
  BY <1>1 DEF TypeInv, TypeOK
<1>5. Active' = Active /\ t \in Active
  BY <1>1, <1>3 DEF Active
<1> QED BY <1>1, <1>2, <1>3, <1>4, <1>5

(* A refused call leaves the classes of the module alone. *)
LEMMA HandlerDoes ==
  ASSUME TypeInv, NEW t \in Task, Handle(t) \/ HandlerFails(t)
  PROVE  /\ stage[t] \in HandlerStage /\ t \in Active /\ Active' = Active
         /\ cur[t] \in Config /\ target[t] \in Config /\ decl[t] \in Declarations
         /\ \E K : /\ device' = Effect(t, K)
                   /\ Refused(t) => \A c \in K : c \in Class \ NeedsModule
         /\ \A u \in Task \ {t} : stage'[u] = stage[u] /\ result'[u] = result[u]
         /\ UNCHANGED <<original, decl, cur, taskOrig, target, rolling, recent, found, alone,
                        prev, last, raced>>
<1>1. stage[t] \in HandlerStage
  BY DEF Handle, HandlerFails
<1>2. t \in Active
  BY <1>1 DEF Active, HandlerStage
<1>3. cur[t] \in Config /\ target[t] \in Config /\ decl[t] \in Declarations
  BY <1>1 DEF TypeInv, Shape, HandlerStage
<1>4. /\ \E K : device' = Effect(t, K) /\ (Refused(t) => \A c \in K : c \in Class \ NeedsModule)
      /\ stage'[t] \in HandlerStage \cup {"verify", "post", "rollbackRead"}
      /\ \A u \in Task \ {t} : stage'[u] = stage[u] /\ result'[u] = result[u]
      /\ UNCHANGED <<original, decl, cur, taskOrig, target, rolling, recent, found, alone,
                     prev, last, raced>>
  <2>1. CASE Handle(t)
    <3>1. device' = Effect(t, Class) /\ ~Refused(t)
      BY <2>1 DEF Handle
    <3>2. NextStage(t) \in HandlerStage \cup {"verify", "post"}
      BY <1>1, NextStageType
    <3>3. stage' = [stage EXCEPT ![t] = NextStage(t)] /\ result' = result
          /\ UNCHANGED <<original, decl, cur, taskOrig, target, rolling, recent, found, alone,
                         prev, last, raced>>
      BY <2>1 DEF Handle, histVars
    <3>4. stage'[t] = NextStage(t) /\ \A u \in Task \ {t} : stage'[u] = stage[u]
      BY <3>3 DEF TypeInv, TypeOK
    <3> QED BY <3>1, <3>2, <3>3, <3>4
  <2>2. CASE HandlerFails(t)
    <3>1. \E classes \in SUBSET (IF Refused(t) THEN Class \ NeedsModule ELSE Class) :
            device' = Effect(t, classes)
      BY <2>2 DEF HandlerFails
    <3>2. \E K : device' = Effect(t, K) /\ (Refused(t) => \A c \in K : c \in Class \ NeedsModule)
      <4>1. PICK K \in SUBSET (IF Refused(t) THEN Class \ NeedsModule ELSE Class) :
              device' = Effect(t, K)
        BY <3>1
      <4>2. Refused(t) => K \in SUBSET (Class \ NeedsModule)
        BY <4>1
      <4>3. Refused(t) => \A c \in K : c \in Class \ NeedsModule
        BY <4>2
      <4> QED BY <4>1, <4>3
    <3>3. /\ stage'[t] \in {"post", "rollbackRead"}
          /\ \A u \in Task \ {t} : stage'[u] = stage[u]
          /\ \A u \in Task \ {t} : result'[u] = result[u]
      BY <2>2 DEF HandlerFails, TypeInv, TypeOK
    <3>4. UNCHANGED <<original, decl, cur, taskOrig, target, rolling, recent, found, alone,
                      prev, last, raced>>
      BY <2>2 DEF HandlerFails, histVars
    <3> QED BY <3>2, <3>3, <3>4
  <2> QED BY <2>1, <2>2
<1>5. Active' = Active
  <2>1. stage'[t] \notin {"idle", "done", "lost"}
    BY <1>4 DEF HandlerStage
  <2> QED BY <1>2, <1>4, <2>1 DEF Active
<1> QED BY <1>1, <1>2, <1>3, <1>4, <1>5

LEMMA HandleDoes ==
  ASSUME TypeInv, NEW t \in Task, Handle(t)
  PROVE  /\ device' = Effect(t, Class) /\ ~Refused(t)
         /\ stage'[t] = NextStage(t) /\ result'[t] = result[t]
BY DEF Handle, TypeInv, TypeOK

LEMMA HandlerFailsDoes ==
  ASSUME TypeInv, NEW t \in Task, HandlerFails(t)
  PROVE  /\ rolling[t] => stage'[t] = "post" /\ result'[t] = "failed"
         /\ ~rolling[t] => stage'[t] = "rollbackRead" /\ result'[t] = result[t]
BY DEF HandlerFails, TypeInv, TypeOK

LEMMA ReadFailsDoes ==
  ASSUME TypeInv, NEW t \in Task, ReadFails(t)
  PROVE  /\ stage[t] \in {"read", "rollbackRead", "verify", "post"} /\ t \in Active
         /\ stage'[t] = IF stage[t] = "post" THEN "done" ELSE "post"
         /\ result'[t] = "failed"
         /\ last' = IF stage[t] = "post" THEN t ELSE last
         /\ \A u \in Task \ {t} : stage'[u] = stage[u] /\ result'[u] = result[u]
         /\ UNCHANGED <<device, original, decl, cur, taskOrig, target, rolling, recent, found,
                        alone, prev, raced>>
BY DEF ReadFails, TypeInv, TypeOK, Active

(* Verify and Finish read the configuration once more. *)
LEMMA EndsDoes ==
  ASSUME TypeInv, NEW t \in Task, Verify(t) \/ Finish(t)
  PROVE  /\ t \in Active
         /\ cur'[t] = Reading(t) /\ original' = Recorded(t, Reading(t))
         /\ taskOrig'[t] = original'
         /\ Verify(t) => /\ stage[t] = "verify" /\ stage'[t] = "post"
                         /\ result'[t] = "rolledBack" /\ last' = last
         /\ Finish(t) => /\ stage[t] = "post" /\ stage'[t] = "done" /\ last' = t
                         /\ result'[t] = IF result[t] = "none" THEN "ok" ELSE result[t]
         /\ \A u \in Task \ {t} : /\ stage'[u] = stage[u] /\ cur'[u] = cur[u]
                                  /\ taskOrig'[u] = taskOrig[u] /\ result'[u] = result[u]
         /\ UNCHANGED <<device, decl, target, rolling, recent, found, alone, prev, raced>>
<1>1. /\ cur' = [cur EXCEPT ![t] = Reading(t)]
      /\ original' = Recorded(t, Reading(t))
      /\ taskOrig' = [taskOrig EXCEPT ![t] = Recorded(t, Reading(t))]
      /\ UNCHANGED <<device, decl, target, rolling, recent, found, alone, prev, raced>>
  BY DEF Verify, Finish, Get, histVars
<1>2. /\ cur'[t] = Reading(t) /\ taskOrig'[t] = original'
      /\ \A u \in Task \ {t} : cur'[u] = cur[u] /\ taskOrig'[u] = taskOrig[u]
  BY <1>1 DEF TypeInv, TypeOK
<1>3. Verify(t) => /\ stage[t] = "verify" /\ stage'[t] = "post"
                   /\ result'[t] = "rolledBack" /\ last' = last
  BY DEF Verify, histVars, TypeInv, TypeOK
<1>4. Finish(t) => /\ stage[t] = "post" /\ stage'[t] = "done" /\ last' = t
                   /\ result'[t] = IF result[t] = "none" THEN "ok" ELSE result[t]
  BY DEF Finish, TypeInv, TypeOK
<1>5. \A u \in Task \ {t} : stage'[u] = stage[u] /\ result'[u] = result[u]
  BY DEF Verify, Finish, TypeInv, TypeOK
<1>6. t \in Active
  BY <1>3, <1>4 DEF Active
<1> QED BY <1>1, <1>2, <1>3, <1>4, <1>5, <1>6

LEMMA DeleteDoes ==
  ASSUME Delete
  PROVE  /\ original' = NoConfig /\ Active' = Active
         /\ raced' = (raced \/ Active # {})
         /\ UNCHANGED <<device, taskVars, recent, found, alone, prev, last>>
BY DEF Delete, taskVars, Active

LEMMA RestartDoes ==
  ASSUME TypeInv, Restart
  PROVE  /\ last' = NoTask /\ Active' \subseteq Active
         /\ \A t \in Task : alone'[t] => alone[t] /\ t \notin Active
         /\ \A t \in Task : \/ t \notin Active /\ stage'[t] = stage[t]
                            \/ t \in Active /\ Resumes(t) /\ stage'[t] = "read"
                            \/ t \in Active /\ stage'[t] = "lost"
         /\ UNCHANGED <<device, original, decl, cur, taskOrig, target, rolling, result, found,
                        prev, raced>>
<1>1. /\ stage' = [t \in Task |-> IF t \notin Active THEN stage[t]
                                  ELSE IF Resumes(t) THEN "read" ELSE "lost"]
      /\ alone' = [t \in Task |-> alone[t] /\ t \notin Active]
      /\ last' = NoTask
      /\ UNCHANGED <<device, original, decl, cur, taskOrig, target, rolling, result, found,
                     prev, raced>>
  BY DEF Restart
<1>2. \A t \in Task : \/ t \notin Active /\ stage'[t] = stage[t]
                      \/ t \in Active /\ Resumes(t) /\ stage'[t] = "read"
                      \/ t \in Active /\ stage'[t] = "lost"
  BY <1>1, Zenon
<1>3. \A t \in Task : alone'[t] => alone[t] /\ t \notin Active
  BY <1>1, Zenon
<1>4. Active' \subseteq Active
  BY <1>2 DEF Active
<1> QED BY <1>1, <1>2, <1>3, <1>4

-----------------------------------------------------------------------------
(* The modules of configurations, and what provisioning does *)

LEMMA ReadingModule ==
  ASSUME NEW t \in Task, device \in Config
  PROVE  Reading(t).module = device.module
  <1> DEFINE f == [c \in Class |-> [i \in Item |->
                     IF Kind[c] = "db" => i \in OfInterest(t, c)
                       THEN device.common[c][i] ELSE None]]
  <1>1. f \in [Class -> Section]
    BY Fields DEF Section
  <1> HIDE DEF f
  <1>2. Reading(t) = [device EXCEPT !.common = f]
    BY DEF Reading, f
  <1> QED BY <1>1, <1>2, SetCommon

LEMMA RecordedModule ==
  ASSUME TypeOK, NEW t \in Task, NEW r \in Config
  PROVE  /\ Recorded(t, r).module = Known(t, r).module
         /\ original # NoConfig => Known(t, r) = original
         /\ original = NoConfig /\ taskOrig[t] # NoConfig => Known(t, r) = taskOrig[t]
         /\ original = NoConfig /\ taskOrig[t] = NoConfig =>
              /\ Known(t, r).module = r.module
              /\ Known(t, r).common = r.common
              /\ Known(t, r).base = device
  <1>1. Known(t, r) \in Original
    BY KnownType
  <1>2. Recorded(t, r).module = Known(t, r).module
    BY <1>1 DEF Recorded, Original
  <1>3. original = NoConfig /\ taskOrig[t] = NoConfig =>
          Known(t, r) = [common |-> r.common, module |-> r.module, base |-> device]
    BY DEF Known
  <1> QED BY <1>2, <1>3 DEF Known

LEMMA DefaultsModule ==
  ASSUME NEW d, NEW o
  PROVE  ApplyDefaults(d, o).module = IF d.module = Missing THEN o.module ELSE d.module
BY DEF ApplyDefaults

LEMMA UnaliasedDoes ==
  ASSUME NEW t \in Task, NEW o \in Original
  PROVE  /\ Unaliased(t, o).module = o.module /\ Unaliased(t, o).base = o.base
         /\ \A c \in Class : \/ Unaliased(t, o).common[c] = o.common[c]
                             \/ o.common[c] = Empty /\ Unaliased(t, o).common[c] = Missing
  <1> DEFINE f == [c \in Class |-> IF o.common[c] = Empty THEN Missing ELSE o.common[c]]
  <1>1. f \in [Class -> Section \cup {Missing}]
    BY Fields
  <1>2. \A c \in Class : f[c] = o.common[c] \/ (o.common[c] = Empty /\ f[c] = Missing)
    OBVIOUS
  <1> HIDE DEF f
  <1>3. [o EXCEPT !.common = f].module = o.module
    BY <1>1 DEF Original
  <1>4. /\ [o EXCEPT !.common = f].base = o.base
        /\ [o EXCEPT !.common = f].common = f
    BY <1>1, SetOriginal
  <1>5. Unaliased(t, o) \in {o, [o EXCEPT !.common = f]}
    BY DEF Unaliased, f
  <1> QED BY <1>2, <1>3, <1>4, <1>5

LEMMA ProvisionedDoes ==
  ASSUME device \in Config, NEW on \in BOOLEAN
  PROVE  /\ Provisioned(on).module = on
         /\ \A c \in Class : on \/ c \notin NeedsModule =>
              Provisioned(on).common[c] = device.common[c]
         /\ \A c \in NeedsModule : ~on => Provisioned(on).common[c] = Empty
  <1> DEFINE f == [c \in Class |-> IF c \in NeedsModule /\ ~on THEN Empty ELSE device.common[c]]
  <1>1. Provisioned(on) = [common |-> f, module |-> on]
    BY DEF Provisioned
  <1>2. \A c \in Class : on \/ c \notin NeedsModule => f[c] = device.common[c]
    OBVIOUS
  <1>3. \A c \in NeedsModule : ~on => f[c] = Empty
    BY EngineAssumption DEF EngineAssumption
  <1> HIDE DEF f
  <1> QED BY <1>1, <1>2, <1>3

(* What each handler does, and to which classes. *)
Either(t) == cur[t].module \/ target[t].module

LEMMA EitherType ==
  ASSUME NEW t \in Task, cur[t] \in Config, target[t] \in Config
  PROVE  /\ cur[t].module \in BOOLEAN /\ target[t].module \in BOOLEAN /\ Either(t) \in BOOLEAN
         /\ cur[t].module = target[t].module => Either(t) = cur[t].module
         /\ cur[t].module # target[t].module => Either(t) = TRUE
         /\ target[t].module => Either(t)
         /\ cur[t].module => Either(t)
<1>1. cur[t].module \in BOOLEAN /\ target[t].module \in BOOLEAN
  BY Fields
<1> QED BY <1>1 DEF Either

LEMMA EffectDoes ==
  ASSUME NEW t \in Task, device \in Config, cur[t] \in Config, target[t] \in Config, NEW K
  PROVE  LET e == Effect(t, K) IN
         /\ stage[t] = "system" => e = Updated(t, K \cap SystemClasses)
         /\ stage[t] = "create" => e = Updated(t, K \ SystemClasses)
         /\ stage[t] = "delete" => e = Deleted(t, K)
         /\ stage[t] = "provision" => \/ e = device
                                      \/ cur[t].module # target[t].module /\ e = Provisioned(TRUE)
         /\ stage[t] = "deprovision" =>
              \/ e = device
              \/ cur[t].module # target[t].module /\ e = Provisioned(target[t].module)
         /\ K = Class /\ cur[t].module # target[t].module =>
              /\ stage[t] = "provision" => e = Provisioned(TRUE)
              /\ stage[t] = "deprovision" => e = Provisioned(target[t].module)
  <1> DEFINE Set(on) == IF target[t].module = cur[t].module \/ K = {} THEN device
                                                                     ELSE Provisioned(on)
             e == Effect(t, K)
  <1>0. Class # {}
    BY EngineAssumption DEF EngineAssumption
  <1>1. CASE stage[t] = "system"
    BY <1>1, Zenon DEF Effect
  <1>2. CASE stage[t] = "create"
    BY <1>2, Zenon DEF Effect
  <1>3. CASE stage[t] = "delete"
    BY <1>3, Zenon DEF Effect
  <1>4. CASE stage[t] = "provision"
    <2>1. e = Set(Either(t))
      BY <1>4, Zenon DEF Effect, Either
    <2>2. cur[t].module # target[t].module => Either(t) = TRUE
      BY EitherType
    <2>3. e = device \/ (cur[t].module # target[t].module /\ e = Provisioned(TRUE))
      BY <2>1, <2>2, Zenon
    <2>4. K = Class /\ cur[t].module # target[t].module => e = Provisioned(TRUE)
      BY <1>0, <2>1, <2>2, Zenon
    <2> QED BY <1>4, <2>3, <2>4
  <1>5. CASE stage[t] = "deprovision"
    <2>1. e = Set(target[t].module)
      BY <1>5, Zenon DEF Effect
    <2>2. e = device \/ (cur[t].module # target[t].module /\ e = Provisioned(target[t].module))
      BY <2>1, Zenon
    <2>3. K = Class /\ cur[t].module # target[t].module => e = Provisioned(target[t].module)
      BY <1>0, <2>1, Zenon
    <2> QED BY <1>5, <2>2, <2>3
  <1> QED BY <1>1, <1>2, <1>3, <1>4, <1>5

-----------------------------------------------------------------------------
(* Tasks that run alone *)

(* Nobody else is at work, nor was since the task has read the device.      *)
Undisturbed(t) == t \in Active /\ (alone[t] \/ MaxActive <= 1)

(* Where a task has a diff that its handlers follow, and has not failed.    *)
InWork(t) ==
  \/ stage[t] \in HandlerStage \cup {"verify"}
  \/ stage[t] = "post" /\ result[t] = "none"

Forward(t) == ~rolling[t] /\ (InWork(t) \/ stage[t] = "rollbackRead")

(* How a task has come to its stage.                                        *)
Outcome(t) ==
  /\ stage[t] \in HandlerStage \cup {"idle", "read", "rollbackRead", "verify"} => result[t] = "none"
  /\ stage[t] \in {"idle", "read", "rollbackRead"} => ~rolling[t]
  /\ stage[t] = "verify" => rolling[t]
  /\ stage[t] = "post" /\ result[t] = "none" => ~rolling[t]
  /\ stage[t] = "post" => result[t] # "ok"
  /\ stage[t] \in {"verify", "post"} /\ InWork(t) => target[t] \in Config

History ==
  /\ \A t \in Task : Undisturbed(t) => Active = {t}
  /\ last # NoTask => stage[last] = "done"
  /\ \A t \in Task : prev[t] # NoTask => stage[prev[t]] = "done"
  /\ \A t \in Task : Outcome(t)

LEMMA InitHistory == Init => History
BY DEF Init, History, Undisturbed, Active, Outcome, InWork, HandlerStage

LEMMA NextHistory ==
  ASSUME TypeInv, History, [Next]_vars
  PROVE  History'
<1>1. ASSUME NEW t \in Task, NEW d \in Declarations, Post(t, d)
      PROVE  History'
  <2>1. MaxActive <= 1 => Active = {}
    <3>1. Cardinality(Active) < MaxActive
      BY <1>1 DEF Post
    <3>2. ASSUME MaxActive <= 1, NEW u \in Active
          PROVE  FALSE
      <4>1. Active = {u}
        BY <3>2 DEF History, Undisturbed, Active
      <4>2. Cardinality(Active) = 1
        BY <4>1, FS_Singleton
      <4> QED BY <3>1, <3>2, <4>2, EngineAssumption DEF EngineAssumption
    <3> QED BY <3>2
  <2>2. \A u \in Task : Undisturbed(u)' => Active' = {u}
    BY <1>1, <2>1, PostDoes DEF History, Undisturbed
  <2>3. last' # NoTask => stage'[last'] = "done"
    BY <1>1, PostDoes DEF History, TypeInv, TypeOK
  <2>4. \A u \in Task : prev'[u] # NoTask => stage'[prev'[u]] = "done"
    BY <1>1, PostDoes DEF History, TypeInv, TypeOK
  <2>5. \A u \in Task : Outcome(u)'
    BY <1>1, PostDoes DEF History, Outcome, InWork, HandlerStage
  <2> QED BY <2>2, <2>3, <2>4, <2>5 DEF History
<1>2. ASSUME NEW t \in Task, Read(t) \/ RollbackRead(t)
      PROVE  History'
  <2>1. \A u \in Task : Outcome(u)'
    BY <1>2, ReadDoes, RollbackReadDoes DEF History, Outcome, InWork, HandlerStage
  <2>2. /\ Active' = Active /\ UNCHANGED <<alone, last, prev>>
        /\ \A u \in Task : stage'[u] = stage[u] \/ stage[u] # "done"
    BY <1>2, ReadDoes, RollbackReadDoes
  <2> QED BY <2>1, <2>2 DEF History, Undisturbed, TypeInv, TypeOK
<1>3. ASSUME NEW t \in Task, Handle(t) \/ HandlerFails(t)
      PROVE  History'
  <2>1. \A u \in Task : Outcome(u)'
    <3>1. CASE Handle(t)
      <4>1. NextStage(t) \in HandlerStage \cup {"verify", "post"}
            /\ (NextStage(t) = "verify" => rolling[t]) /\ (NextStage(t) = "post" => ~rolling[t])
        BY <3>1, HandlerDoes, NextStageType, Zenon DEF NextStage, HandlerStage
      <4> QED BY <3>1, <4>1, HandlerDoes, HandleDoes DEF History, Outcome, InWork, HandlerStage
    <3>2. CASE HandlerFails(t)
      BY <3>2, HandlerDoes, HandlerFailsDoes
      DEF History, Outcome, InWork, HandlerStage, TypeInv, TypeOK
    <3> QED BY <1>3, <3>1, <3>2
  <2>2. /\ Active' = Active /\ UNCHANGED <<alone, last, prev>>
        /\ \A u \in Task : stage'[u] = stage[u] \/ stage[u] # "done"
    BY <1>3, HandlerDoes DEF HandlerStage
  <2> QED BY <2>1, <2>2 DEF History, Undisturbed, TypeInv, TypeOK
<1>4. ASSUME NEW t \in Task, ReadFails(t)
      PROVE  History'
  <2>1. \A u \in Task : Outcome(u)'
    BY <1>4, ReadFailsDoes DEF History, Outcome, InWork, HandlerStage
  <2>2. Active' \subseteq Active /\ t \in Active /\ (t \notin Active' => Active' = Active \ {t})
    BY <1>4, ReadFailsDoes DEF Active
  <2>3. \A u \in Task : Undisturbed(u)' => Active' = {u}
    BY <1>4, <2>2, ReadFailsDoes DEF History, Undisturbed
  <2>4. \A u \in Task : stage[u] = "done" => stage'[u] = "done"
    BY <1>4, ReadFailsDoes
  <2> QED BY <1>4, <2>1, <2>3, <2>4, ReadFailsDoes DEF History, TypeInv, TypeOK
<1>5. ASSUME NEW t \in Task, Verify(t) \/ Finish(t)
      PROVE  History'
  <2>1. \A u \in Task : Outcome(u)'
    BY <1>5, EndsDoes DEF History, Outcome, InWork, HandlerStage
  <2>2. Active' \subseteq Active /\ t \in Active
    BY <1>5, EndsDoes DEF Active
  <2>3. \A u \in Task : Undisturbed(u)' => Active' = {u}
    BY <1>5, <2>2, EndsDoes DEF History, Undisturbed
  <2>4. \A u \in Task : stage[u] = "done" => stage'[u] = "done"
    BY <1>5, EndsDoes
  <2> QED BY <1>5, <2>1, <2>3, <2>4, EndsDoes DEF History, TypeInv, TypeOK
<1>6. CASE Delete
  <2>1. UNCHANGED <<Active, stage, alone, last, prev, result, rolling, target>>
    BY <1>6, DeleteDoes DEF taskVars
  <2> QED BY <2>1 DEF History, Undisturbed, Outcome, InWork
<1>7. CASE Restart
  <2>1. \A u \in Task : Outcome(u)'
    BY <1>7, RestartDoes DEF History, Outcome, InWork, HandlerStage, Resumes
  <2>2. ASSUME NEW u \in Task, Undisturbed(u)'
        PROVE  Active' = {u}
    <3>1. u \in Active /\ MaxActive <= 1
      BY <1>7, <2>2, RestartDoes DEF Undisturbed
    <3>2. Active = {u}
      BY <3>1 DEF History, Undisturbed
    <3> QED BY <1>7, <2>2, <3>2, RestartDoes DEF Undisturbed
  <2>3. \A u \in Task : stage[u] = "done" => stage'[u] = "done"
    BY <1>7, RestartDoes DEF Active
  <2> QED BY <1>7, <2>1, <2>2, <2>3, RestartDoes DEF History, TypeInv, TypeOK
<1>8. CASE UNCHANGED vars
  BY <1>8 DEF vars, taskVars, histVars, History, Undisturbed, Outcome, InWork, Active
<1> QED BY <1>1, <1>2, <1>3, <1>4, <1>5, <1>6, <1>7, <1>8 DEF Next

-----------------------------------------------------------------------------
(* What never comes or goes *)

(* The properties and variables of the classes without names are the same   *)
(* on the device in all states; nobody asks for others.                     *)
Within(config) ==
  \A c \in SystemClasses, i \in Item :
    device.common[c][i] = None => config.common[c] = Missing \/ config.common[c][i] = None

SameItems(config) ==
  \A c \in SystemClasses, i \in Item : config.common[c][i] = None <=> device.common[c][i] = None

ItemsStay ==
  /\ \A d \in Declarations : Within(d)
  /\ original # NoConfig => Within(original) /\ SameItems(original.base)
  /\ \A t \in Task :
       /\ cur[t] # NoConfig => Within(cur[t])
       /\ target[t] # NoConfig => Within(target[t])
       /\ found[t] # NoConfig => SameItems(found[t])
       /\ taskOrig[t] # NoConfig => Within(taskOrig[t]) /\ SameItems(taskOrig[t].base)

(* A class has nothing while its module is not provisioned.                 *)
ModuleRuns == \A c \in NeedsModule : ~device.module => device.common[c] = Empty

LEMMA Systems ==
  \A c \in SystemClasses : c \in Class /\ c \notin NeedsModule /\ Kind[c] \in {"nameless", "db"}
BY DEF SystemClasses

LEMMA InitItems == Init => ItemsStay /\ ModuleRuns
<1> SUFFICES ASSUME Init PROVE ItemsStay /\ ModuleRuns
  OBVIOUS
<1>1. device \in Factory
  BY DEF Init
<1>2. \A d \in Declarations : Within(d)
  BY <1>1, Systems, EngineAssumption DEF EngineAssumption, Within
<1>3. ItemsStay
  BY <1>2 DEF Init, ItemsStay
<1>4. ModuleRuns
  BY <1>1, EngineAssumption DEF EngineAssumption, ModuleRuns
<1> QED BY <1>3, <1>4

(* What was within stays so while the device keeps its items.               *)
LEMMA KeepItems ==
  ASSUME \A c \in SystemClasses, i \in Item :
           device'.common[c][i] = None <=> device.common[c][i] = None
  PROVE  /\ \A config : Within(config) => Within(config)'
         /\ \A config : SameItems(config) => SameItems(config)'
BY DEF Within, SameItems

LEMMA EffectItems ==
  ASSUME NEW t \in Task, device \in Config, cur[t] \in Config, target[t] \in Config,
         stage[t] \in HandlerStage, NEW K, Within(target[t])
  PROVE  \A c \in SystemClasses, i \in Item :
           Effect(t, K).common[c][i] = None <=> device.common[c][i] = None
<1> SUFFICES ASSUME NEW c \in SystemClasses, NEW i \in Item
             PROVE  Effect(t, K).common[c][i] = None <=> device.common[c][i] = None
  OBVIOUS
<1>1. c \in Class /\ c \notin NeedsModule /\ Kind[c] \in {"nameless", "db"}
  BY Systems
<1>2. target[t].common[c] \in Section
  BY <1>1, Fields
<1>3. \A L : Updated(t, L).common[c][i] = None <=> device.common[c][i] = None
  <2>1. \A L : Updated(t, L).common[c][i] =
                 IF c \in L /\ i \in ToUpdate(t, c) THEN target[t].common[c][i]
                                                    ELSE device.common[c][i]
    BY <1>1, UpdatedType
  <2>2. i \in ToUpdate(t, c) => target[t].common[c][i] # None
    BY <1>1 DEF ToUpdate, Present
  <2>3. target[t].common[c][i] # None => device.common[c][i] # None
    BY <1>2, Constants DEF Within
  <2> QED BY <2>1, <2>2, <2>3
<1>4. \A L : Deleted(t, L).common[c][i] = device.common[c][i]
  <2>1. ToDelete(t, c) = {}
    BY <1>1, Zenon DEF ToDelete
  <2> QED BY <1>1, <2>1, DeletedType
<1>5. \A on \in BOOLEAN : Provisioned(on).common[c] = device.common[c]
  BY <1>1, ProvisionedDoes
<1>6. target[t].module \in BOOLEAN
  BY Fields
<1>7. CASE stage[t] \in {"system", "create"}
  <2>1. \E L : Effect(t, K) = Updated(t, L)
    BY <1>7, EffectDoes
  <2> QED BY <1>3, <2>1
<1>8. CASE stage[t] = "delete"
  <2>1. Effect(t, K) = Deleted(t, K)
    BY <1>8, EffectDoes
  <2> QED BY <1>4, <2>1
<1>9. CASE stage[t] \in {"provision", "deprovision"}
  <2>1. \/ Effect(t, K) = device
        \/ \E on \in BOOLEAN : Effect(t, K) = Provisioned(on)
    BY <1>6, <1>9, EffectDoes
  <2> QED BY <1>5, <2>1
<1> QED BY <1>7, <1>8, <1>9 DEF HandlerStage

LEMMA EffectModule ==
  ASSUME NEW t \in Task, device \in Config, cur[t] \in Config, target[t] \in Config,
         stage[t] \in HandlerStage, NEW K, ModuleRuns,
         Refused(t) => \A c \in K : c \in Class \ NeedsModule
  PROVE  \A c \in NeedsModule : ~Effect(t, K).module => Effect(t, K).common[c] = Empty
<1> SUFFICES ASSUME NEW c \in NeedsModule, ~Effect(t, K).module
             PROVE  Effect(t, K).common[c] = Empty
  OBVIOUS
<1>1. c \in Class
  BY EngineAssumption DEF EngineAssumption
<1>2. target[t].module \in BOOLEAN
  BY Fields
<1>3. \A L : Updated(t, L).module = device.module /\ Deleted(t, L).module = device.module
  <2>1. device.common \in [Class -> Section]
    BY Fields
  <2> QED BY DEF Updated, Deleted, Config
<1>4. ~device.module => device.common[c] = Empty
  BY DEF ModuleRuns
<1>5. \A s \in Section : (\A i \in Item : s[i] = None) => s = Empty
  BY DEF Section, Empty
<1>6. Effect(t, K).common[c] \in Section
  BY <1>1, EffectType, Fields
<1>7. CASE stage[t] \in {"system", "create"}
  <2>1. PICK L : /\ Effect(t, K) = Updated(t, L) /\ \A k \in L : k \in K
                 /\ c \in L => stage[t] = "create"
    <3>1. CASE stage[t] = "system"
      <4>1. Effect(t, K) = Updated(t, K \cap SystemClasses)
        BY <3>1, EffectDoes
      <4> QED BY <4>1, Systems
    <3>2. CASE stage[t] = "create"
      <4>1. Effect(t, K) = Updated(t, K \ SystemClasses)
        BY <3>2, EffectDoes
      <4> QED BY <3>2, <4>1
    <3> QED BY <1>7, <3>1, <3>2
  <2>2. ~device.module
    BY <1>3, <2>1
  <2>3. c \in L => ToUpdate(t, c) = {}
    <3> SUFFICES ASSUME c \in L, ToUpdate(t, c) # {} PROVE FALSE
      OBVIOUS
    <3>1. Refused(t)
      BY <2>1, <2>2 DEF Refused
    <3> QED BY <2>1, <3>1
  <2>4. \A i \in Item : Effect(t, K).common[c][i] = device.common[c][i]
    BY <1>1, <2>1, <2>3, UpdatedType
  <2>5. \A i \in Item : Effect(t, K).common[c][i] = None
    BY <1>4, <2>2, <2>4 DEF Empty
  <2> QED BY <1>5, <1>6, <2>5
<1>8. CASE stage[t] = "delete"
  <2>1. Effect(t, K) = Deleted(t, K) /\ ~device.module
    BY <1>3, <1>8, EffectDoes
  <2>2. \A i \in Item : Effect(t, K).common[c][i] = None
    BY <1>1, <1>4, <2>1, DeletedType DEF Empty
  <2> QED BY <1>5, <1>6, <2>2
<1>9. CASE stage[t] \in {"provision", "deprovision"}
  <2>1. \/ Effect(t, K) = device
        \/ \E on \in BOOLEAN : Effect(t, K) = Provisioned(on)
    BY <1>2, <1>9, EffectDoes
  <2> QED BY <1>4, <2>1, ProvisionedDoes
<1> QED BY <1>7, <1>8, <1>9 DEF HandlerStage

(* What get reads and records, and what defaults are filled in, is within. *)
LEMMA GetItems ==
  ASSUME TypeInv, ItemsStay, NEW t \in Task
  PROVE  LET o == Recorded(t, Reading(t)) IN
         /\ Reading(t) \in Config /\ o \in Original
         /\ Within(Reading(t)) /\ Within(o) /\ SameItems(o.base)
<1> DEFINE r == Reading(t)
           o == Recorded(t, r)
           known == Known(t, r)
<1>1. /\ r \in Config
      /\ \A c \in Class, i \in Item : r.common[c][i] \in {device.common[c][i], None}
  BY ReadingType DEF TypeInv, TypeOK
<1>2. Within(r)
  BY <1>1, Systems DEF Within
<1> HIDE DEF r
<1>3. Within(known) /\ SameItems(known.base) /\ known \in Original
  <2>1. known \in Original
    BY <1>1, KnownType DEF TypeInv
  <2>2. CASE original # NoConfig
    BY <1>1, <2>1, <2>2, RecordedModule DEF TypeInv, ItemsStay
  <2>3. CASE original = NoConfig /\ taskOrig[t] # NoConfig
    BY <1>1, <2>1, <2>3, RecordedModule DEF TypeInv, ItemsStay
  <2>4. CASE original = NoConfig /\ taskOrig[t] = NoConfig
    <3>1. known.common = r.common /\ known.base = device
      BY <1>1, <2>4, RecordedModule DEF TypeInv
    <3> QED BY <1>2, <2>1, <3>1 DEF Within, SameItems
  <2> QED BY <2>2, <2>3, <2>4
<1> HIDE DEF known
<1>4. /\ o \in Original /\ o.base = known.base
      /\ \A c \in Class : Available(c, r) =>
           /\ known.common[c] = Missing => o.common[c] = r.common[c]
           /\ known.common[c] # Missing /\ Kind[c] = "db" =>
                o.common[c] = FillIn(known.common[c], r.common[c])
           /\ known.common[c] # Missing /\ Kind[c] # "db" => o.common[c] = known.common[c]
  BY <1>1, RecordedType DEF TypeInv, known
<1> HIDE DEF o
<1>5. Within(o)
  <2> SUFFICES ASSUME NEW c \in SystemClasses, NEW i \in Item, device.common[c][i] = None,
                      o.common[c] # Missing
               PROVE  o.common[c][i] = None
    BY DEF Within
  <2>1. c \in Class /\ Available(c, r)
    BY Systems DEF Available
  <2>2. r.common[c][i] = None /\ (known.common[c] # Missing => known.common[c][i] = None)
    BY <1>2, <1>3, <2>1, <1>1, Fields, Constants DEF Within
  <2>3. CASE known.common[c] # Missing /\ Kind[c] = "db"
    <3>1. known.common[c] \in Section /\ r.common[c] \in Section
      BY <1>1, <1>3, <2>1, <2>3, Fields
    <3> QED BY <1>4, <2>1, <2>2, <2>3, <3>1, FillInType
  <2>4. CASE known.common[c] = Missing \/ Kind[c] # "db"
    BY <1>4, <2>1, <2>2, <2>4
  <2> QED BY <2>3, <2>4
<1> QED BY <1>1, <1>2, <1>3, <1>4, <1>5 DEF r, o, SameItems

LEMMA DefaultsItems ==
  ASSUME NEW d \in Declaration \cup Config, NEW o \in Original, Within(d), Within(o)
  PROVE  Within(ApplyDefaults(d, o))
<1> SUFFICES ASSUME NEW c \in SystemClasses, NEW i \in Item, device.common[c][i] = None
             PROVE  ApplyDefaults(d, o).common[c][i] = None
  BY DEF Within
<1>1. c \in Class
  BY Systems
<1>2. d.common[c] \in Section /\ d.common[c] # Missing
  BY <1>1, Fields, Constants
<1>3. d.common[c][i] = None /\ (o.common[c] # Missing => o.common[c][i] = None)
  BY <1>2 DEF Within
<1>4. ApplyDefaults(d, o).common[c] = IF d.common[c] # Empty THEN d.common[c]
                                      ELSE IF o.common[c] = Missing THEN Empty ELSE o.common[c]
  BY <1>1, DefaultsType
<1> QED BY <1>3, <1>4 DEF Empty

LEMMA UnaliasedItems ==
  ASSUME NEW t \in Task, NEW o \in Original, Within(o), SameItems(o.base)
  PROVE  Within(Unaliased(t, o)) /\ SameItems(Unaliased(t, o).base)
<1>1. Within(Unaliased(t, o))
  BY UnaliasedDoes, Systems DEF Within
<1>2. Unaliased(t, o).base = o.base
  BY UnaliasedDoes
<1> QED BY <1>1, <1>2

(* Only get and the handlers could bring items, and neither does.          *)
LEMMA NextItems ==
  ASSUME TypeInv, ItemsStay, ModuleRuns, [Next]_vars
  PROVE  ItemsStay' /\ ModuleRuns'
<1>1. ASSUME NEW t \in Task, NEW d \in Declarations, Post(t, d)
      PROVE  ItemsStay' /\ ModuleRuns'
  <2>1. SameItems(device)
    BY DEF SameItems
  <2>2. device' = device /\ found'[t] = device /\ \A u \in Task \ {t} : found'[u] = found[u]
    BY <1>1, PostDoes
  <2>9. UNCHANGED <<original, cur, taskOrig, target>>
    BY <1>1, PostDoes
  <2>3. /\ \A config : Within(config) => Within(config)'
        /\ \A config : SameItems(config) => SameItems(config)'
    BY <2>2, KeepItems
  <2>4. \A u \in Task : found'[u] # NoConfig => SameItems(found[u])'
    BY <2>1, <2>2, <2>3 DEF ItemsStay
  <2>5. \A e \in Declarations : Within(e)'
    BY <2>3 DEF ItemsStay
  <2>6. original' # NoConfig => Within(original)' /\ SameItems(original.base)'
    BY <2>3, <2>9 DEF ItemsStay
  <2>7. \A u \in Task : /\ cur'[u] # NoConfig => Within(cur[u])'
                        /\ target'[u] # NoConfig => Within(target[u])'
    BY <2>3, <2>9 DEF ItemsStay
  <2>8. \A u \in Task : taskOrig'[u] # NoConfig =>
                           Within(taskOrig[u])' /\ SameItems(taskOrig[u].base)'
    BY <2>3, <2>9 DEF ItemsStay
  <2> QED BY <2>2, <2>9, <2>4, <2>5, <2>6, <2>7, <2>8 DEF ItemsStay, ModuleRuns
<1>2. ASSUME NEW t \in Task, Read(t) \/ RollbackRead(t) \/ Verify(t) \/ Finish(t)
      PROVE  ItemsStay' /\ ModuleRuns'
  <2> DEFINE o == Recorded(t, Reading(t))
  <2>1. /\ Reading(t) \in Config /\ o \in Original
        /\ Within(Reading(t)) /\ Within(o) /\ SameItems(o.base)
    BY GetItems
  <2>2. Within(Unaliased(t, o)) /\ SameItems(Unaliased(t, o).base)
    BY <2>1, UnaliasedItems
  <2>3. /\ device' = device /\ found' = found /\ original' = o
        /\ cur'[t] = Reading(t) /\ taskOrig'[t] \in {o, Unaliased(t, o)}
        /\ \A u \in Task \ {t} : /\ cur'[u] = cur[u] /\ taskOrig'[u] = taskOrig[u]
                                 /\ target'[u] = target[u]
    BY <1>2, ReadDoes, RollbackReadDoes, EndsDoes
  <2>4. target'[t] = target[t] \/ Within(target'[t])
    <3>1. CASE Read(t)
      <4>1. decl[t] \in Declaration /\ Within(decl[t])
        BY <3>1, ReadDoes, EngineAssumption DEF EngineAssumption, ItemsStay
      <4> QED BY <2>1, <3>1, <4>1, ReadDoes, DefaultsItems
    <3>2. CASE RollbackRead(t)
      <4>1. cur[t] \in Config /\ Within(cur[t])
        BY <3>2, RollbackReadDoes, Constants DEF ItemsStay
      <4> QED BY <2>1, <3>2, <4>1, RollbackReadDoes, DefaultsItems
    <3>3. CASE Verify(t) \/ Finish(t)
      BY <3>3, EndsDoes
    <3> QED BY <1>2, <3>1, <3>2, <3>3
  <2> HIDE DEF o
  <2>5. /\ \A config : Within(config) => Within(config)'
        /\ \A config : SameItems(config) => SameItems(config)'
    BY <2>3, KeepItems
  <2>6. Within(original)' /\ SameItems(original.base)'
    BY <2>1, <2>3, <2>5
  <2>7. \A u \in Task : cur'[u] # NoConfig => Within(cur[u])'
    BY <2>1, <2>3, <2>5 DEF ItemsStay
  <2>8. \A u \in Task : target'[u] # NoConfig => Within(target[u])'
    BY <2>3, <2>4, <2>5 DEF ItemsStay
  <2>9. \A u \in Task : found'[u] # NoConfig => SameItems(found[u])'
    BY <2>3, <2>5 DEF ItemsStay
  <2>10. \A u \in Task : taskOrig'[u] # NoConfig =>
                           Within(taskOrig[u])' /\ SameItems(taskOrig[u].base)'
    BY <2>1, <2>2, <2>3, <2>5 DEF ItemsStay
  <2>11. \A d \in Declarations : Within(d)'
    BY <2>5 DEF ItemsStay
  <2> QED BY <2>3, <2>6, <2>7, <2>8, <2>9, <2>10, <2>11 DEF ItemsStay, ModuleRuns
<1>3. ASSUME NEW t \in Task, Handle(t) \/ HandlerFails(t)
      PROVE  ItemsStay' /\ ModuleRuns'
  <2>1. /\ device \in Config /\ cur[t] \in Config /\ target[t] \in Config
        /\ stage[t] \in HandlerStage
        /\ UNCHANGED <<original, cur, taskOrig, target, found>>
    BY <1>3, HandlerDoes DEF TypeInv, TypeOK
  <2>2. PICK K : device' = Effect(t, K) /\ (Refused(t) => \A c \in K : c \in Class \ NeedsModule)
    BY <1>3, HandlerDoes
  <2>3. Within(target[t])
    BY <2>1, Constants DEF ItemsStay
  <2>4. \A c \in SystemClasses, i \in Item :
          device'.common[c][i] = None <=> device.common[c][i] = None
    BY <2>1, <2>2, <2>3, EffectItems
  <2>5. /\ \A config : Within(config) => Within(config)'
        /\ \A config : SameItems(config) => SameItems(config)'
    BY <2>4, KeepItems
  <2>6. ItemsStay'
    BY <2>1, <2>5 DEF ItemsStay
  <2>7. ModuleRuns'
    BY <2>1, <2>2, EffectModule DEF ModuleRuns
  <2> QED BY <2>6, <2>7
<1>4. ASSUME \/ \E t \in Task : ReadFails(t)
             \/ Delete \/ Restart \/ UNCHANGED vars
      PROVE  ItemsStay' /\ ModuleRuns'
  <2>1. /\ UNCHANGED <<device, cur, taskOrig, target, found>>
        /\ original' = original \/ original' = NoConfig
    BY <1>4, ReadFailsDoes, DeleteDoes, RestartDoes DEF taskVars, histVars, vars
  <2> QED BY <2>1 DEF ItemsStay, ModuleRuns, Within, SameItems
<1> QED BY <1>1, <1>2, <1>3, <1>4 DEF Next

-----------------------------------------------------------------------------
(* What is on record is whole *)

(* Variables are added to the record later; everything else is the device   *)
(* as it was when the record was made.                                      *)
RecordIsWhole ==
  ~raced /\ original # NoConfig =>
    /\ original.module = original.base.module
    /\ \A c \in Class \ NeedsModule :
         Kind[c] # "db" => original.common[c] = original.base.common[c]

LEMMA InitWhole == Init => RecordIsWhole
BY DEF Init, RecordIsWhole

LEMMA GetWhole ==
  ASSUME TypeInv, RecordInv, RecordIsWhole, ~raced, NEW t \in Active
  PROVE  LET o == Recorded(t, Reading(t)) IN
         /\ o.module = o.base.module
         /\ \A c \in Class \ NeedsModule : Kind[c] # "db" => o.common[c] = o.base.common[c]
<1> DEFINE r == Reading(t)
           o == Recorded(t, r)
           known == Known(t, r)
<1> SUFFICES /\ o.module = o.base.module
             /\ \A c \in Class \ NeedsModule : Kind[c] # "db" => o.common[c] = o.base.common[c]
  OBVIOUS
<1>1. /\ t \in Task /\ r \in Config /\ device \in Config
      /\ \A c \in Class, i \in Item :
           Kind[c] # "db" => r.common[c][i] = device.common[c][i]
      /\ r.module = device.module
  BY ReadingType, ReadingModule DEF TypeInv, TypeOK, Active
<1> HIDE DEF r
<1>2. /\ o.module = known.module /\ o.base = known.base
      /\ \A c \in Class \ NeedsModule :
           /\ known.common[c] = Missing => o.common[c] = r.common[c]
           /\ known.common[c] # Missing /\ Kind[c] # "db" => o.common[c] = known.common[c]
  BY <1>1, RecordedType, RecordedModule DEF TypeInv, Available
<1> HIDE DEF o
<1>3. CASE original # NoConfig
  <2>1. known = original
    BY <1>1, <1>3, RecordedModule DEF TypeInv
  <2>2. Faithful(original)
    BY <1>3 DEF RecordInv
  <2> QED BY <1>2, <1>3, <2>1, <2>2 DEF RecordIsWhole, Faithful
<1>4. CASE original = NoConfig
  <2>1. taskOrig[t] = NoConfig
    BY <1>4 DEF RecordInv, TaskOnRecord
  <2>2. known.module = r.module /\ known.common = r.common /\ known.base = device
    BY <1>1, <1>4, <2>1, RecordedModule DEF TypeInv
  <2>3. ASSUME NEW c \in Class \ NeedsModule, Kind[c] # "db"
        PROVE  r.common[c] = device.common[c]
    <3>1. r.common[c] \in Section /\ device.common[c] \in Section
      BY <1>1, Fields
    <3> QED BY <1>1, <2>3, <3>1 DEF Section
  <2>4. \A c \in Class : r.common[c] # Missing
    BY <1>1, Fields, Constants
  <2> QED BY <1>1, <1>2, <2>2, <2>3, <2>4
<1> QED BY <1>3, <1>4

LEMMA NextWhole ==
  ASSUME TypeInv, RecordInv, RecordIsWhole, [Next]_vars
  PROVE  RecordIsWhole'
<1>1. \/ original' = original /\ raced' = raced
      \/ original' = NoConfig
      \/ \E t \in Active : original' = Recorded(t, Reading(t)) /\ raced' = raced
  <2>1. ASSUME NEW t \in Task, NEW d \in Declarations, Post(t, d)
        PROVE  original' = original /\ raced' = raced
    BY <2>1, PostDoes
  <2>2. ASSUME NEW t \in Task, Read(t) \/ RollbackRead(t) \/ Verify(t) \/ Finish(t)
        PROVE  t \in Active /\ original' = Recorded(t, Reading(t)) /\ raced' = raced
    BY <2>2, ReadDoes, RollbackReadDoes, EndsDoes
  <2>3. ASSUME NEW t \in Task, Handle(t) \/ HandlerFails(t) \/ ReadFails(t)
        PROVE  original' = original /\ raced' = raced
    BY <2>3, HandlerDoes, ReadFailsDoes
  <2>4. Restart \/ UNCHANGED vars => original' = original /\ raced' = raced
    BY RestartDoes DEF vars, histVars
  <2> QED BY <2>1, <2>2, <2>3, <2>4, DeleteDoes DEF Next
<1>2. CASE original' = original /\ raced' = raced
  BY <1>2 DEF RecordIsWhole
<1>3. ASSUME NEW t \in Active, original' = Recorded(t, Reading(t)), raced' = raced
      PROVE  RecordIsWhole'
  BY <1>3, GetWhole DEF RecordIsWhole
<1> QED BY <1>1, <1>2, <1>3 DEF RecordIsWhole

-----------------------------------------------------------------------------
(* The device follows the diff *)

(* Which classes a task has brought to their targets, and whether it has    *)
(* deleted what is not in them.                                             *)
IsUpdated(t, c) ==
  \/ stage[t] \in {"delete", "deprovision", "verify", "post"}
  \/ c \in SystemClasses /\ stage[t] # "system"

IsDeleted(t) == stage[t] \in {"deprovision", "verify", "post"}

ModuleFollows(t) ==
  /\ stage[t] \in {"system", "provision"} => device.module = cur[t].module
  /\ stage[t] \in {"create", "delete", "deprovision"} => device.module = Either(t)
  /\ stage[t] \in {"verify", "post"} => device.module = target[t].module

ItemFollows(t, c, i) ==
  LET now  == device.common[c][i]
      read == cur[t].common[c][i]
      wish == target[t].common[c][i]
  IN /\ ~IsUpdated(t, c) => now = read \/ (Kind[c] = "db" /\ read = None)
     /\ IsUpdated(t, c) /\ wish # None /\ Available(c, device) => now = wish
     /\ IsUpdated(t, c) /\ ~IsDeleted(t) /\ wish = None /\ Kind[c] # "db" => now = read
     /\ IsDeleted(t) /\ wish = None
          /\ (Kind[c] = "named" \/ (Kind[c] = "gslb" /\ target[t].common[c] # Empty)) => now = None

Follows(t) ==
  Undisturbed(t) /\ InWork(t) =>
    ModuleFollows(t) /\ \A c \in Class, i \in Item : ItemFollows(t, c, i)

LEMMA InitFollows == Init => \A t \in Task : Follows(t)
BY DEF Init, Follows, InWork, HandlerStage

LEMMA ReadFollows ==
  ASSUME TypeInv, NEW t \in Task, stage'[t] = "system", cur'[t] = Reading(t), device' = device
  PROVE  Follows(t)'
<1>1. device \in Config
  BY DEF TypeInv, TypeOK
<1>2. ModuleFollows(t)'
  BY <1>1, ReadingModule DEF ModuleFollows
<1>3. ASSUME NEW c \in Class, NEW i \in Item
      PROVE  ItemFollows(t, c, i)'
  <2>1. cur'[t].common[c][i] \in {device'.common[c][i], None}
        /\ (Kind[c] # "db" => cur'[t].common[c][i] = device'.common[c][i])
    BY <1>1, ReadingType
  <2> QED BY <2>1 DEF ItemFollows, IsUpdated, IsDeleted
<1> QED BY <1>2, <1>3 DEF Follows

(* What diffHandler says to update brings an item to its target. *)
LEMMA UpdateFollows ==
  ASSUME NEW t \in Task, NEW c \in Class, NEW i \in Item,
         LET now  == device.common[c][i]
             new  == device'.common[c][i]
             read == cur[t].common[c][i]
         IN /\ now = read \/ (Kind[c] = "db" /\ read = None)
            /\ new = IF i \in ToUpdate(t, c) THEN target[t].common[c][i] ELSE now
  PROVE  LET new  == device'.common[c][i]
             wish == target[t].common[c][i]
         IN /\ wish # None => new = wish
            /\ wish = None => new = device.common[c][i]
<1>1. CASE Kind[c] \in {"named", "gslb"}
  BY <1>1 DEF ToUpdate, Present
<1>2. CASE Kind[c] \notin {"named", "gslb"} /\ target[t].common[c] = cur[t].common[c]
  BY <1>2 DEF ToUpdate, Present
<1>3. CASE Kind[c] \notin {"named", "gslb"} /\ target[t].common[c] # cur[t].common[c]
  BY <1>3 DEF ToUpdate, Present
<1> QED BY <1>1, <1>2, <1>3

LEMMA DeleteFollows ==
  ASSUME NEW t \in Task, NEW c \in Class, NEW i \in Item
  PROVE  LET read == cur[t].common[c][i]
             wish == target[t].common[c][i]
         IN /\ wish # None => i \notin ToDelete(t, c)
            /\ i \in ToDelete(t, c) => Kind[c] \in {"named", "gslb"}
            /\ wish = None /\ read # None
               /\ (Kind[c] = "named" \/ (Kind[c] = "gslb" /\ target[t].common[c] # Empty))
               => i \in ToDelete(t, c)
<1>1. CASE Kind[c] = "named"
  <2>1. ToDelete(t, c) = Removed(t, c)
    BY <1>1, Zenon DEF ToDelete
  <2> QED BY <1>1, <2>1 DEF Removed, Present
<1>2. CASE Kind[c] = "gslb"
  <2>1. ToDelete(t, c) = IF target[t].common[c] = Empty THEN {} ELSE Removed(t, c)
    BY <1>2, Zenon DEF ToDelete
  <2> QED BY <1>2, <2>1 DEF Removed, Present
<1>3. CASE Kind[c] \notin {"named", "gslb"}
  <2>1. ToDelete(t, c) = {}
    BY <1>3, Zenon DEF ToDelete
  <2> QED BY <1>3, <2>1
<1> QED BY <1>1, <1>2, <1>3

LEMMA HandleFollows ==
  ASSUME TypeInv, NEW t \in Task, Handle(t),
         ModuleFollows(t), \A c \in Class, i \in Item : ItemFollows(t, c, i)
  PROVE  ModuleFollows(t)' /\ \A c \in Class, i \in Item : ItemFollows(t, c, i)'
<1>1. /\ device \in Config /\ cur[t] \in Config /\ target[t] \in Config
      /\ stage[t] \in HandlerStage /\ UNCHANGED <<cur, target>>
  BY HandlerDoes DEF TypeInv, TypeOK
<1>2. device' = Effect(t, Class) /\ stage'[t] = NextStage(t)
  BY HandleDoes
<1>3. \A c \in SystemClasses :
        c \in Class /\ c \notin NeedsModule /\ Kind[c] \notin {"named", "gslb"}
  BY Systems
<1>4. \A L : /\ Updated(t, L).module = device.module
             /\ Deleted(t, L).module = device.module
  BY <1>1 DEF Updated, Deleted, Config
<1>5. UNCHANGED Either(t)
  BY <1>1 DEF Either
<1>6. \A L : \A c \in Class, i \in Item :
        c \in L => Updated(t, L).common[c][i] = IF i \in ToUpdate(t, c) THEN target[t].common[c][i]
                                                ELSE device.common[c][i]
  BY <1>1, UpdatedType
<1>7. \A L : \A c \in Class, i \in Item :
        c \notin L => Updated(t, L).common[c][i] = device.common[c][i]
  BY <1>1, UpdatedType
<1>8. CASE stage[t] = "system"
  <2>1. stage'[t] = "provision"
    BY <1>2, <1>8, Zenon DEF NextStage
  <2>2. device' = Updated(t, Class \cap SystemClasses)
    BY <1>1, <1>2, <1>8, EffectDoes
  <2>3. ModuleFollows(t)'
    BY <1>1, <1>4, <1>8, <2>1, <2>2 DEF ModuleFollows
  <2>4. ASSUME NEW c \in Class, NEW i \in Item, c \in SystemClasses
        PROVE  ItemFollows(t, c, i)'
    <3> DEFINE now == device.common[c][i]
               new == device'.common[c][i]
    <3>1. new = IF i \in ToUpdate(t, c) THEN target[t].common[c][i] ELSE now
      BY <1>6, <2>2, <2>4
    <3>2. now = cur[t].common[c][i] \/ (Kind[c] = "db" /\ cur[t].common[c][i] = None)
      BY <1>8 DEF ItemFollows, IsUpdated
    <3>3. /\ target[t].common[c][i] # None => new = target[t].common[c][i]
          /\ target[t].common[c][i] = None => new = now
      BY <3>1, <3>2, UpdateFollows
    <3> QED BY <1>1, <1>3, <2>1, <2>4, <3>2, <3>3 DEF ItemFollows, IsUpdated, IsDeleted
  <2>5. ASSUME NEW c \in Class, NEW i \in Item, c \notin SystemClasses
        PROVE  ItemFollows(t, c, i)'
    <3>1. device'.common[c][i] = device.common[c][i]
      BY <1>7, <2>2, <2>5
    <3> QED BY <1>1, <1>8, <2>1, <2>5, <3>1 DEF ItemFollows, IsUpdated, IsDeleted
  <2> QED BY <2>3, <2>4, <2>5
<1>9. CASE stage[t] = "provision"
  <2>1. stage'[t] = "create"
    BY <1>2, <1>9, Zenon DEF NextStage
  <2>2. device.module = cur[t].module
    BY <1>9 DEF ModuleFollows
  <2>3. device'.module = Either(t) /\ \A c \in Class : device'.common[c] = device.common[c]
    <3>1. CASE cur[t].module = target[t].module
      BY <1>1, <1>2, <1>9, <2>2, <3>1, EffectDoes, EitherType
    <3>2. CASE cur[t].module # target[t].module
      <4>1. device' = Provisioned(TRUE) /\ Either(t) = TRUE
        BY <1>1, <1>2, <1>9, <3>2, EffectDoes, EitherType
      <4>2. /\ Provisioned(TRUE).module = TRUE
            /\ \A c \in Class : Provisioned(TRUE).common[c] = device.common[c]
        BY <1>1, ProvisionedDoes
      <4> QED BY <4>1, <4>2
    <3> QED BY <3>1, <3>2
  <2>4. ModuleFollows(t)'
    BY <1>5, <2>1, <2>3 DEF ModuleFollows
  <2>5. ASSUME NEW c \in Class, NEW i \in Item
        PROVE  ItemFollows(t, c, i)'
    BY <1>1, <1>3, <1>9, <2>1, <2>3 DEF ItemFollows, IsUpdated, IsDeleted, Available
  <2> QED BY <2>4, <2>5
<1>10. CASE stage[t] = "create"
  <2>1. stage'[t] = "delete"
    BY <1>2, <1>10, Zenon DEF NextStage
  <2>2. device' = Updated(t, Class \ SystemClasses)
    BY <1>1, <1>2, <1>10, EffectDoes
  <2>3. ModuleFollows(t)'
    BY <1>4, <1>5, <1>10, <2>1, <2>2 DEF ModuleFollows
  <2>4. ASSUME NEW c \in Class, NEW i \in Item, c \notin SystemClasses
        PROVE  ItemFollows(t, c, i)'
    <3> DEFINE now == device.common[c][i]
               new == device'.common[c][i]
    <3>1. new = IF i \in ToUpdate(t, c) THEN target[t].common[c][i] ELSE now
      BY <1>6, <2>2, <2>4
    <3>2. now = cur[t].common[c][i] \/ (Kind[c] = "db" /\ cur[t].common[c][i] = None)
      BY <1>10, <2>4 DEF ItemFollows, IsUpdated
    <3>3. /\ target[t].common[c][i] # None => new = target[t].common[c][i]
          /\ target[t].common[c][i] = None => new = now
      BY <3>1, <3>2, UpdateFollows
    <3> QED BY <1>1, <1>3, <2>1, <2>4, <3>2, <3>3 DEF ItemFollows, IsUpdated, IsDeleted
  <2>5. ASSUME NEW c \in Class, NEW i \in Item, c \in SystemClasses
        PROVE  ItemFollows(t, c, i)'
    <3>1. device'.common[c][i] = device.common[c][i]
      BY <1>7, <2>2, <2>5
    <3> QED BY <1>1, <1>3, <1>10, <2>1, <2>5, <3>1 DEF ItemFollows, IsUpdated, IsDeleted, Available
  <2> QED BY <2>3, <2>4, <2>5
<1>11. CASE stage[t] = "delete"
  <2>1. stage'[t] = "deprovision"
    BY <1>2, <1>11, Zenon DEF NextStage
  <2>2. device' = Deleted(t, Class)
    BY <1>1, <1>2, <1>11, EffectDoes
  <2>3. device'.module = device.module
    BY <1>4, <2>2
  <2>4. ModuleFollows(t)'
    BY <1>5, <1>11, <2>1, <2>3 DEF ModuleFollows
  <2>5. ASSUME NEW c \in Class, NEW i \in Item
        PROVE  ItemFollows(t, c, i)'
    <3>1. device'.common[c][i] = IF i \in ToDelete(t, c) THEN None ELSE device.common[c][i]
      BY <1>1, <2>2, DeletedType
    <3>2. Available(c, device') <=> Available(c, device)
      BY <2>3 DEF Available
    <3> QED BY <1>1, <1>11, <2>1, <3>1, <3>2, DeleteFollows DEF ItemFollows, IsUpdated, IsDeleted
  <2> QED BY <2>4, <2>5
<1>12. CASE stage[t] = "deprovision"
  <2>1. stage'[t] \in {"verify", "post"}
    BY <1>2, <1>12, Zenon DEF NextStage
  <2>2. device.module = Either(t)
    BY <1>12 DEF ModuleFollows
  <2>3. /\ device'.module = target[t].module
        /\ \A c \in Class : \/ device'.common[c] = device.common[c]
                            \/ c \in NeedsModule /\ ~device'.module /\ device'.common[c] = Empty
    <3>1. CASE cur[t].module = target[t].module
      <4>1. device' = device /\ Either(t) = target[t].module
        BY <1>1, <1>2, <1>12, <3>1, EffectDoes, EitherType
      <4> QED BY <2>2, <4>1
    <3>2. CASE cur[t].module # target[t].module
      <4>1. device' = Provisioned(target[t].module) /\ target[t].module \in BOOLEAN
        BY <1>1, <1>2, <1>12, <3>2, EffectDoes, EitherType
      <4>2. device'.module = target[t].module
        BY <1>1, <4>1, ProvisionedDoes
      <4>3. ASSUME NEW c \in Class
            PROVE  \/ device'.common[c] = device.common[c]
                   \/ c \in NeedsModule /\ ~device'.module /\ device'.common[c] = Empty
        BY <1>1, <4>1, <4>2, ProvisionedDoes
      <4> QED BY <4>2, <4>3
    <3> QED BY <3>1, <3>2
  <2>4. ModuleFollows(t)'
    BY <1>1, <2>1, <2>3 DEF ModuleFollows
  <2>5. ASSUME NEW c \in Class, NEW i \in Item
        PROVE  ItemFollows(t, c, i)'
    <3>1. Available(c, device') => Available(c, device)
      <4>1. target[t].module => device.module
        BY <1>1, <2>2, EitherType
      <4> QED BY <2>3, <4>1 DEF Available
    <3>2. \/ device'.common[c][i] = device.common[c][i]
          \/ ~Available(c, device') /\ device'.common[c][i] = None
      BY <2>3 DEF Available, Empty
    <3> QED BY <1>1, <1>12, <2>1, <3>1, <3>2 DEF ItemFollows, IsUpdated, IsDeleted
  <2> QED BY <2>4, <2>5
<1> QED BY <1>1, <1>8, <1>9, <1>10, <1>11, <1>12 DEF HandlerStage

LEMMA NextFollows ==
  ASSUME TypeInv, History, History', \A t \in Task : Follows(t), [Next]_vars
  PROVE  \A t \in Task : Follows(t)'
<1>0. SUFFICES ASSUME NEW u \in Task, Undisturbed(u)', InWork(u)'
              PROVE  Follows(u)'
  BY DEF Follows
<1>1. Active' = {u}
  BY <1>0 DEF History
<1>2. ASSUME device' = device, cur'[u] = cur[u], target'[u] = target[u],
             stage'[u] = stage[u], result'[u] = result[u], Undisturbed(u)
      PROVE  Follows(u)'
  <2>1. Follows(u) /\ InWork(u)
    BY <1>0, <1>2 DEF InWork
  <2>2. ModuleFollows(u) /\ \A c \in Class, i \in Item : ItemFollows(u, c, i)
    BY <1>2, <2>1 DEF Follows
  <2>3. ModuleFollows(u)'
    BY <1>2, <2>2 DEF ModuleFollows, Either
  <2>4. ASSUME NEW c \in Class, NEW i \in Item
        PROVE  ItemFollows(u, c, i)'
    BY <1>2, <2>2 DEF ItemFollows, IsUpdated, IsDeleted
  <2> QED BY <2>3, <2>4 DEF Follows
<1>3. ASSUME NEW t \in Task, NEW d \in Declarations, Post(t, d)
      PROVE  Follows(u)'
  <2>1. t = u
    BY <1>1, <1>3, PostDoes
  <2> QED BY <1>0, <1>3, <2>1, PostDoes DEF InWork, HandlerStage
<1>4. ASSUME NEW t \in Task, Read(t) \/ RollbackRead(t)
      PROVE  Follows(u)'
  <2>1. t = u
    BY <1>1, <1>4, ReadDoes, RollbackReadDoes
  <2> QED BY <1>4, <2>1, ReadDoes, RollbackReadDoes, ReadFollows
<1>5. ASSUME NEW t \in Task, Handle(t)
      PROVE  Follows(u)'
  <2>1. t = u /\ Undisturbed(u)
    BY <1>0, <1>1, <1>5, HandlerDoes DEF Undisturbed
  <2>2. InWork(u)
    BY <1>5, <2>1, HandlerDoes DEF InWork
  <2>3. ModuleFollows(t)' /\ \A c \in Class, i \in Item : ItemFollows(t, c, i)'
    BY <1>5, <2>1, <2>2, HandleFollows DEF Follows
  <2> QED BY <2>1, <2>3 DEF Follows
<1>6. ASSUME NEW t \in Task, HandlerFails(t)
      PROVE  Follows(u)'
  <2>1. t = u
    BY <1>1, <1>6, HandlerDoes
  <2> QED BY <1>0, <1>6, <2>1, HandlerFailsDoes DEF InWork, HandlerStage
<1>7. ASSUME NEW t \in Task, ReadFails(t)
      PROVE  Follows(u)'
  <2>1. CASE t = u
    BY <1>0, <1>7, <2>1, ReadFailsDoes DEF InWork, HandlerStage
  <2>2. CASE t # u
    <3>1. UNCHANGED <<device, cur, target, alone>> /\ stage'[u] = stage[u] /\ result'[u] = result[u]
      BY <1>7, <2>2, ReadFailsDoes
    <3> QED BY <1>0, <1>2, <3>1 DEF Undisturbed, Active
  <2> QED BY <2>1, <2>2
<1>8. ASSUME NEW t \in Task, Verify(t) \/ Finish(t)
      PROVE  Follows(u)'
  <2>1. CASE t = u
    BY <1>0, <1>8, <2>1, EndsDoes DEF InWork, HandlerStage
  <2>2. CASE t # u
    <3>1. UNCHANGED <<device, target, alone>> /\ cur'[u] = cur[u]
          /\ stage'[u] = stage[u] /\ result'[u] = result[u]
      BY <1>8, <2>2, EndsDoes
    <3> QED BY <1>0, <1>2, <3>1 DEF Undisturbed, Active
  <2> QED BY <2>1, <2>2
<1>9. CASE Delete \/ UNCHANGED vars
  <2>1. UNCHANGED <<device, cur, target, stage, result, alone>>
    BY <1>9, DeleteDoes DEF taskVars, histVars, vars
  <2> QED BY <1>0, <1>2, <2>1 DEF Undisturbed, Active
<1>10. CASE Restart
  <2>1. stage'[u] \in {"read", "lost"}
    <3>1. u \in Active
      BY <1>0, <1>10, RestartDoes DEF Undisturbed
    <3> QED BY <1>10, <3>1, RestartDoes
  <2> QED BY <1>0, <2>1 DEF InWork, HandlerStage
<1> QED BY <1>3, <1>4, <1>5, <1>6, <1>7, <1>8, <1>9, <1>10 DEF Next

-----------------------------------------------------------------------------
(* What a task aims at *)

(* What a declaration asks for, and what is filled in from o. *)
Mentions(t) ==
  /\ decl[t].module # Missing => target[t].module = decl[t].module
  /\ \A c \in Class : decl[t].common[c] # Empty => target[t].common[c] = decl[t].common[c]

FilledFrom(t, o) ==
  /\ decl[t].module = Missing => target[t].module = o.module
  /\ \A c \in Class : decl[t].common[c] = Empty =>
       target[t].common[c] = IF o.common[c] = Missing THEN Empty ELSE o.common[c]

(* A task that has not failed works towards its declaration, filled in from *)
(* its copy of the original configuration, and while it is alone from that  *)
(* on record.                                                               *)
Aims(t) ==
  Forward(t) =>
    /\ Mentions(t)
    /\ taskOrig[t] # NoConfig /\ FilledFrom(t, taskOrig[t])
    /\ Undisturbed(t) /\ original # NoConfig => FilledFrom(t, original)

LEMMA InitAims == Init => \A t \in Task : Aims(t)
BY DEF Init, Aims, Forward, InWork, HandlerStage

LEMMA ReadAims ==
  ASSUME TypeInv, NEW t \in Task, Read(t)
  PROVE  Aims(t)'
<1> DEFINE o == Recorded(t, Reading(t))
<1>1. /\ original' = o /\ taskOrig'[t] = Unaliased(t, o) /\ decl' = decl
      /\ target'[t] = ApplyDefaults(decl[t], o) /\ decl[t] \in Declarations
  BY ReadDoes
<1>2. o \in Original /\ decl[t] \in Declaration
  BY <1>1, ReadingType, RecordedType, EngineAssumption DEF EngineAssumption, TypeInv, TypeOK
<1> HIDE DEF o
<1>3. /\ target'[t].module = IF decl[t].module = Missing THEN o.module ELSE decl[t].module
      /\ \A c \in Class : target'[t].common[c] =
           IF decl[t].common[c] # Empty THEN decl[t].common[c]
           ELSE IF o.common[c] = Missing THEN Empty ELSE o.common[c]
  BY <1>1, <1>2, DefaultsModule, DefaultsType
<1>4. Mentions(t)'
  BY <1>1, <1>3 DEF Mentions
<1>5. FilledFrom(t, original)'
  BY <1>1, <1>3 DEF FilledFrom
<1>6. /\ Unaliased(t, o) # NoConfig /\ Unaliased(t, o).module = o.module
      /\ \A c \in Class : \/ Unaliased(t, o).common[c] = o.common[c]
                          \/ o.common[c] = Empty /\ Unaliased(t, o).common[c] = Missing
  BY <1>2, UnaliasedType, UnaliasedDoes, Constants
<1>7. FilledFrom(t, taskOrig[t])'
  BY <1>1, <1>3, <1>6 DEF FilledFrom
<1> QED BY <1>1, <1>4, <1>5, <1>6, <1>7 DEF Aims

LEMMA NextAims ==
  ASSUME TypeInv, History, History', \A t \in Task : Aims(t), [Next]_vars
  PROVE  \A t \in Task : Aims(t)'
<1>0. SUFFICES ASSUME NEW u \in Task, Forward(u)'
              PROVE  Aims(u)'
  BY DEF Aims
<1>1. ASSUME UNCHANGED <<decl[u], target[u], taskOrig[u]>>, Forward(u),
             Undisturbed(u)' /\ original' # NoConfig => Undisturbed(u) /\ original' = original
      PROVE  Aims(u)'
  <2>1. Aims(u)
    OBVIOUS
  <2>2. Mentions(u)'
    BY <1>1, <2>1 DEF Aims, Mentions
  <2>3. taskOrig'[u] # NoConfig /\ FilledFrom(u, taskOrig[u])'
    BY <1>1, <2>1 DEF Aims, FilledFrom
  <2>4. Undisturbed(u)' /\ original' # NoConfig => FilledFrom(u, original)'
    BY <1>1, <2>1 DEF Aims, FilledFrom
  <2> QED BY <2>2, <2>3, <2>4 DEF Aims
<1>2. Undisturbed(u)' => Active' = {u}
  BY DEF History
<1>3. ASSUME NEW t \in Task, NEW d \in Declarations, Post(t, d)
      PROVE  Aims(u)'
  <2>1. u # t
    BY <1>0, <1>3, PostDoes DEF Forward, InWork, HandlerStage
  <2>2. UNCHANGED <<decl[u], target[u], taskOrig[u], stage[u], result[u], rolling[u]>>
    BY <1>3, <2>1, PostDoes
  <2>3. ~Undisturbed(u)'
    BY <1>2, <1>3, <2>1, PostDoes
  <2> QED BY <1>0, <1>1, <2>2, <2>3 DEF Forward, InWork
<1>4. ASSUME NEW t \in Task, Read(t) \/ RollbackRead(t) \/ Verify(t) \/ Finish(t), t # u
      PROVE  Aims(u)'
  <2>1. /\ UNCHANGED <<decl[u], target[u], taskOrig[u], stage[u], result[u], rolling[u], alone[u]>>
        /\ t \in Active
    BY <1>4, ReadDoes, RollbackReadDoes, EndsDoes
  <2>2. ~Undisturbed(u)'
    BY <1>4, <2>1 DEF Undisturbed, Active, History
  <2> QED BY <1>0, <1>1, <2>1, <2>2 DEF Forward, InWork
<1>5. ASSUME Read(u)
      PROVE  Aims(u)'
  BY <1>5, ReadAims
<1>6. ~RollbackRead(u) /\ ~Verify(u) /\ ~Finish(u)
  <2>1. ~RollbackRead(u)
    BY <1>0, RollbackReadDoes DEF Forward
  <2>2. ~Verify(u) /\ ~Finish(u)
    BY <1>0, EndsDoes DEF Forward, InWork, HandlerStage
  <2> QED BY <2>1, <2>2
<1>7. ASSUME NEW t \in Task, Handle(t) \/ HandlerFails(t)
      PROVE  Aims(u)'
  <2>1. UNCHANGED <<decl[u], target[u], taskOrig[u], rolling[u], alone[u], original, Active>>
    BY <1>7, HandlerDoes
  <2>2. Forward(u)
    <3>1. CASE t = u
      BY <1>0, <1>7, <2>1, <3>1, HandlerDoes DEF Forward, InWork
    <3>2. CASE t # u
      BY <1>0, <1>7, <2>1, <3>2, HandlerDoes DEF Forward, InWork
    <3> QED BY <3>1, <3>2
  <2> QED BY <1>1, <2>1, <2>2 DEF Undisturbed
<1>8. ASSUME NEW t \in Task, ReadFails(t)
      PROVE  Aims(u)'
  <2>1. t # u
    BY <1>0, <1>8, ReadFailsDoes DEF Forward, InWork, HandlerStage
  <2>2. UNCHANGED <<decl[u], target[u], taskOrig[u], stage[u], result[u], rolling[u], alone[u],
                    original>>
    BY <1>8, <2>1, ReadFailsDoes
  <2> QED BY <1>0, <1>1, <2>2 DEF Forward, InWork, Undisturbed, Active
<1>9. CASE Delete \/ UNCHANGED vars
  <2>1. /\ UNCHANGED <<decl, target, taskOrig, stage, result, rolling, alone>>
        /\ original' = original \/ original' = NoConfig
    BY <1>9, DeleteDoes DEF taskVars, histVars, vars
  <2> QED BY <1>0, <1>1, <2>1 DEF Forward, InWork, Undisturbed, Active
<1>10. CASE Restart
  <2>1. stage'[u] \in {"read", "lost"} \/ (stage'[u] = stage[u] /\ u \notin Active)
    BY <1>10, RestartDoes
  <2> QED BY <1>0, <2>1 DEF Forward, InWork, HandlerStage, Active
<1> QED BY <1>3, <1>4, <1>5, <1>6, <1>7, <1>8, <1>9, <1>10 DEF Next

-----------------------------------------------------------------------------
(* A declaration in force *)

(* Class c of the device has what a section asks for. *)
Holds(c, section) ==
  /\ Kind[c] = "named" => device.common[c] = section
  /\ Kind[c] = "gslb"  => section = Empty \/ device.common[c] = section
  /\ Kind[c] \notin {"named", "gslb"} =>
       \A i \in Present(section) : device.common[c][i] = section[i]

LEMMA HoldsItems ==
  ASSUME NEW c \in Class, NEW s \in Section, device \in Config
  PROVE  Holds(c, s) <=>
           \A i \in Item :
             /\ s[i] # None => device.common[c][i] = s[i]
             /\ s[i] = None /\ (Kind[c] = "named" \/ (Kind[c] = "gslb" /\ s # Empty))
                  => device.common[c][i] = None
<1>1. device.common[c] \in Section
  BY Fields
<1>2. device.common[c] = s <=> \A i \in Item : device.common[c][i] = s[i]
  BY <1>1 DEF Section
<1>3. s = Empty => \A i \in Item : s[i] = None
  BY DEF Empty
<1>4. CASE Kind[c] = "named"
  BY <1>2, <1>4 DEF Holds
<1>5. CASE Kind[c] = "gslb"
  BY <1>2, <1>3, <1>5 DEF Holds
<1>6. CASE Kind[c] \notin {"named", "gslb"}
  BY <1>6 DEF Holds, Present
<1> QED BY <1>4, <1>5, <1>6

LEMMA ReadingHolds ==
  ASSUME TypeInv, NEW t \in Task, NEW c \in Class
  PROVE  Reading(t).common[c] \in Section /\ Holds(c, Reading(t).common[c])
<1>1. /\ device \in Config /\ Reading(t) \in Config
      /\ \A i \in Item :
           /\ Reading(t).common[c][i] \in {device.common[c][i], None}
           /\ Kind[c] # "db" => Reading(t).common[c][i] = device.common[c][i]
  BY ReadingType DEF TypeInv, TypeOK
<1>2. Reading(t).common[c] \in Section
  BY <1>1, Fields
<1> QED BY <1>1, <1>2, HoldsItems

(* What get records is in force if what was known is. *)
LEMMA GetHolds ==
  ASSUME TypeInv, NEW t \in Task, NEW c \in Class, Available(c, device),
         LET known == Known(t, Reading(t)).common[c]
         IN known # Missing => Holds(c, known)
  PROVE  LET new == Recorded(t, Reading(t)).common[c]
         IN new \in Section /\ Holds(c, new)
<1> DEFINE r == Reading(t)
           old == Known(t, r).common[c]
           new == Recorded(t, r).common[c]
<1>1. /\ device \in Config /\ r \in Config /\ r.module = device.module
      /\ r.common[c] \in Section /\ Holds(c, r.common[c])
  BY ReadingHolds, ReadingType, ReadingModule DEF TypeInv, TypeOK
<1>2. old \in Section \cup {Missing}
  BY <1>1, KnownType, Fields DEF TypeInv
<1>3. /\ old = Missing => new = r.common[c]
      /\ old # Missing /\ Kind[c] = "db" => new = FillIn(old, r.common[c])
      /\ old # Missing /\ Kind[c] # "db" => new = old
  BY <1>1, RecordedType DEF TypeInv, Available
<1> SUFFICES new \in Section /\ Holds(c, new)
  OBVIOUS
<1>4. old # Missing => Holds(c, old)
  OBVIOUS
<1> HIDE DEF r, old, new
<1>5. CASE old = Missing
  BY <1>1, <1>3, <1>5
<1>6. CASE old # Missing /\ Kind[c] # "db"
  BY <1>2, <1>3, <1>4, <1>6
<1>7. CASE old # Missing /\ Kind[c] = "db"
  <2>1. old \in Section /\ new = FillIn(old, r.common[c])
    BY <1>2, <1>3, <1>7
  <2>2. /\ new \in Section
        /\ \A i \in Item : new[i] = IF old[i] = None THEN r.common[c][i] ELSE old[i]
    BY <1>1, <2>1, FillInType
  <2>3. \A i \in Item : /\ old[i] # None => device.common[c][i] = old[i]
                        /\ r.common[c][i] # None => device.common[c][i] = r.common[c][i]
    BY <1>1, <1>4, <1>7, <2>1, HoldsItems
  <2> QED BY <1>1, <1>7, <2>2, <2>3, HoldsItems
<1> QED BY <1>5, <1>6, <1>7

(* A declaration is in force on the device, and so is what the record has   *)
(* for what it leaves out.                                                  *)
InForce(d) ==
  /\ d.module # Missing => device.module = d.module
  /\ d.module = Missing /\ original # NoConfig => device.module = original.module
  /\ \A c \in Class : Available(c, device) =>
       /\ d.common[c] # Empty => Holds(c, d.common[c])
       /\ d.common[c] = Empty /\ original # NoConfig /\ original.common[c] # Missing =>
            Holds(c, original.common[c])

(* So it is when a task has succeeded, until the same declaration is read   *)
(* by the next task.                                                        *)
Settled ==
  \A t \in Task :
    /\ Succeeded(t) => InForce(decl[t])
    /\ stage[t] = "read" /\ Repeats(t) => InForce(decl[t])

LEMMA InitSettled == Init => Settled
BY EngineAssumption DEF EngineAssumption, Init, Settled, Succeeded

(* A task repeats another from the start or not at all. *)
LEMMA RepeatsBefore ==
  ASSUME TypeInv, History, [Next]_vars, NEW u \in Task, stage[u] # "idle", Repeats(u)'
  PROVE  Repeats(u)
<1>1. ASSUME alone'[u] => alone[u], prev'[u] = prev[u], decl'[u] = decl[u],
             prev[u] # NoTask => LET p == prev[u] IN
               /\ alone'[p] => alone[p]
               /\ UNCHANGED <<result[p], decl[p]>>
      PROVE  Repeats(u)
  BY <1>1 DEF Repeats
<1>2. prev[u] # NoTask => prev[u] \in Task /\ stage[prev[u]] = "done" /\ prev[u] \notin Active
  BY DEF History, TypeInv, TypeOK, Active
<1>3. ASSUME NEW t \in Task, NEW d \in Declarations, Post(t, d)
      PROVE  Repeats(u)
  <2>1. t # u /\ (prev[u] # NoTask => t # prev[u])
    BY <1>2, <1>3, PostDoes
  <2>2. (alone'[u] => alone[u]) /\ prev'[u] = prev[u] /\ decl'[u] = decl[u]
    BY <1>3, <2>1, PostDoes
  <2>3. prev[u] # NoTask => (alone'[prev[u]] => alone[prev[u]]) /\ decl'[prev[u]] = decl[prev[u]]
    BY <1>2, <1>3, <2>1, PostDoes
  <2>4. result' = result
    BY <1>3, PostDoes
  <2> QED BY <1>1, <2>2, <2>3, <2>4
<1>4. ASSUME NEW t \in Task, Read(t) \/ RollbackRead(t)
      PROVE  Repeats(u)
  <2>1. UNCHANGED <<alone, prev, decl, result>>
    BY <1>4, ReadDoes, RollbackReadDoes
  <2> QED BY <2>1 DEF Repeats
<1>5. ASSUME NEW t \in Task,
             Handle(t) \/ HandlerFails(t) \/ ReadFails(t) \/ Verify(t) \/ Finish(t)
      PROVE  Repeats(u)
  <2>1. UNCHANGED <<alone, prev, decl>> /\ t \in Active
        /\ \A v \in Task \ {t} : result'[v] = result[v]
    BY <1>5, HandlerDoes, ReadFailsDoes, EndsDoes
  <2> QED BY <1>1, <1>2, <2>1
<1>6. CASE Delete \/ UNCHANGED vars
  <2>1. UNCHANGED <<alone, prev, decl, result>>
    BY <1>6, DeleteDoes DEF taskVars, histVars, vars
  <2> QED BY <2>1 DEF Repeats
<1>7. CASE Restart
  <2>1. UNCHANGED <<prev, decl, result>> /\ \A v \in Task : alone'[v] => alone[v]
    BY <1>7, RestartDoes
  <2> QED BY <1>1, <1>2, <2>1
<1> QED BY <1>3, <1>4, <1>5, <1>6, <1>7 DEF Next

(* At the end of a task that ran alone its target is in force. *)
LEMMA FollowedHolds ==
  ASSUME TypeInv, NEW t \in Task, stage[t] \in {"verify", "post"}, target[t] \in Config,
         ModuleFollows(t), \A c \in Class, i \in Item : ItemFollows(t, c, i)
  PROVE  /\ device.module = target[t].module
         /\ \A c \in Class : Available(c, device) => Holds(c, target[t].common[c])
<1>1. device.module = target[t].module
  BY DEF ModuleFollows
<1>2. ASSUME NEW c \in Class, Available(c, device)
      PROVE  Holds(c, target[t].common[c])
  <2>1. target[t].common[c] \in Section /\ device \in Config
    BY Fields DEF TypeInv, TypeOK
  <2>2. \A i \in Item :
          LET now == device.common[c][i]
              wish == target[t].common[c][i]
          IN /\ wish # None => now = wish
             /\ /\ wish = None
                /\ Kind[c] = "named" \/ (Kind[c] = "gslb" /\ target[t].common[c] # Empty)
                => now = None
    BY <1>2 DEF ItemFollows, IsUpdated, IsDeleted
  <2> QED BY <2>1, <2>2, HoldsItems
<1> QED BY <1>1, <1>2

LEMMA FinishSettles ==
  ASSUME TypeInv, NEW t \in Task, Outcome(t), Follows(t), Aims(t),
         Finish(t), alone[t], result'[t] = "ok"
  PROVE  InForce(decl[t])'
<1> DEFINE o == Recorded(t, Reading(t))
           known == Known(t, Reading(t))
<1>1. /\ t \in Active /\ stage[t] = "post" /\ result[t] = "none" /\ original' = o
      /\ UNCHANGED <<decl, target>>
  BY EndsDoes DEF Outcome
<1>2. Undisturbed(t) /\ InWork(t) /\ Forward(t) /\ target[t] \in Config
  BY <1>1 DEF Undisturbed, InWork, Forward, Outcome
<1>3. Mentions(t) /\ FilledFrom(t, taskOrig[t]) /\ taskOrig[t] # NoConfig
      /\ (original # NoConfig => FilledFrom(t, original))
  BY <1>2 DEF Aims
<1>4. /\ device.module = target[t].module
      /\ \A c \in Class : Available(c, device) => Holds(c, target[t].common[c])
  BY <1>1, <1>2, FollowedHolds DEF Follows
<1>5. Reading(t) \in Config
  BY ReadingType DEF TypeInv, TypeOK
<1>6. FilledFrom(t, known) /\ o.module = known.module
  BY <1>3, <1>5, RecordedModule DEF TypeInv
<1>7. /\ decl[t].module # Missing => device.module = decl[t].module
      /\ decl[t].module = Missing => device.module = o.module
  BY <1>3, <1>4, <1>6 DEF Mentions, FilledFrom
<1>8. ASSUME NEW c \in Class, Available(c, device)
      PROVE  /\ decl[t].common[c] # Empty => Holds(c, decl[t].common[c])
             /\ decl[t].common[c] = Empty => Holds(c, o.common[c])
  <2>1. decl[t].common[c] # Empty => Holds(c, decl[t].common[c])
    BY <1>3, <1>4, <1>8 DEF Mentions
  <2>2. ASSUME decl[t].common[c] = Empty
        PROVE  Holds(c, o.common[c])
    <3>1. known.common[c] # Missing => Holds(c, known.common[c])
      BY <1>4, <1>6, <1>8, <2>2 DEF FilledFrom
    <3> QED BY <1>8, <3>1, GetHolds
  <2> QED BY <2>1, <2>2
<1>9. device' = device
  BY EndsDoes
<1> HIDE DEF o, known
<1>10. \A c \in Class : (Available(c, device)' <=> Available(c, device))
                     /\ \A s : Holds(c, s)' <=> Holds(c, s)
  BY <1>9 DEF Available, Holds
<1> QED BY <1>1, <1>7, <1>8, <1>9, <1>10 DEF InForce

LEMMA NextSettled ==
  ASSUME TypeInv, History, History', \A t \in Task : Follows(t) /\ Aims(t), Settled,
         [Next]_vars
  PROVE  Settled'
<1>1. ASSUME device' = device, original' = original \/ original' = NoConfig
      PROVE  \A d : InForce(d) => InForce(d)'
  BY <1>1 DEF InForce, Available, Holds
<1>2. ASSUME NEW t \in Task, NEW d \in Declarations, Post(t, d)
      PROVE  Settled'
  <2>1. t \in Active'
    BY <1>2, PostDoes
  <2>2. ASSUME NEW u \in Task, stage'[u] = "read", Repeats(u)'
        PROVE  InForce(decl[u])'
    <3>1. u = t
      BY <1>2, <2>2, PostDoes DEF Repeats, Active
    <3>2. /\ prev'[t] = last /\ last # NoTask /\ Active = {} /\ alone'[last]
          /\ result'[last] = "ok" /\ decl'[t] = decl'[last] /\ last' = last
      BY <1>2, <2>2, <3>1, PostDoes DEF Repeats
    <3>3. last \in Task /\ last # t
      BY <1>2, <3>2, PostDoes DEF History, TypeInv, TypeOK
    <3>4. alone[last] /\ result[last] = "ok" /\ decl'[t] = decl[last]
      BY <1>2, <3>2, <3>3, PostDoes
    <3>5. InForce(decl[last])
      BY <3>2, <3>3, <3>4 DEF Settled, Succeeded
    <3>6. UNCHANGED <<device, original>>
      BY <1>2, PostDoes
    <3>7. \A d1 : InForce(d1) => InForce(d1)'
      BY <1>1, <3>6
    <3> QED BY <3>1, <3>4, <3>5, <3>7
  <2> QED BY <2>1, <2>2 DEF Settled, Succeeded
<1>3. ASSUME NEW t \in Task, Read(t) \/ RollbackRead(t) \/ Handle(t) \/ HandlerFails(t)
                              \/ ReadFails(t) \/ Verify(t) \/ Finish(t)
      PROVE  Settled'
  <2>1. /\ t \in Active /\ stage'[t] # "read"
        /\ \A v \in Task \ {t} : stage'[v] = stage[v]
        /\ alone' = alone
    BY <1>3, ReadDoes, RollbackReadDoes, HandlerDoes, HandleDoes, HandlerFailsDoes, NextStageType,
       ReadFailsDoes, EndsDoes DEF HandlerStage
  <2>2. ASSUME NEW u \in Task, stage'[u] = "read", Repeats(u)'
        PROVE  FALSE
    <3>1. u # t /\ stage[u] = "read" /\ alone[u]
      BY <2>1, <2>2 DEF Repeats
    <3>2. Active = {u}
      BY <3>1 DEF History, Undisturbed, Active
    <3> QED BY <2>1, <3>1, <3>2
  <2>3. ASSUME NEW u \in Task, Succeeded(u)'
        PROVE  InForce(decl[u])'
    <3>1. t \notin Active'
      BY <2>3 DEF Succeeded
    <3>2. CASE Finish(t)
      <4>1. u = t /\ alone[t] /\ result'[t] = "ok"
        BY <2>1, <2>3, <3>2, EndsDoes DEF Succeeded
      <4>2. InForce(decl[t])'
        BY <3>2, <4>1, FinishSettles DEF History
      <4> QED BY <4>1, <4>2
    <3>3. CASE ReadFails(t)
      <4>1. last' = t /\ result'[t] = "failed"
        BY <3>1, <3>3, ReadFailsDoes DEF Active
      <4> QED BY <2>3, <4>1 DEF Succeeded
    <3>4. CASE Read(t) \/ RollbackRead(t) \/ Handle(t) \/ HandlerFails(t) \/ Verify(t)
      <4>1. t \in Active'
        BY <3>4, ReadDoes, RollbackReadDoes, HandlerDoes, EndsDoes DEF Active
      <4> QED BY <3>1, <4>1
    <3> QED BY <1>3, <3>2, <3>3, <3>4
  <2> QED BY <2>2, <2>3 DEF Settled
<1>4. CASE Delete \/ UNCHANGED vars
  <2>1. /\ UNCHANGED <<device, Active, stage, last, alone, result, decl>>
        /\ original' = original \/ original' = NoConfig
    BY <1>4, DeleteDoes DEF taskVars, histVars, vars, Active
  <2>2. \A d : InForce(d) => InForce(d)'
    BY <1>1, <2>1
  <2>3. ASSUME NEW u \in Task, Succeeded(u)'
        PROVE  InForce(decl[u])'
    <3>1. Succeeded(u)
      BY <2>1, <2>3 DEF Succeeded
    <3> QED BY <2>1, <2>2, <3>1 DEF Settled
  <2>4. ASSUME NEW u \in Task, stage'[u] = "read", Repeats(u)'
        PROVE  InForce(decl[u])'
    <3>1. Repeats(u) /\ stage[u] = "read"
      BY <2>1, <2>4, RepeatsBefore
    <3> QED BY <2>1, <2>2, <3>1 DEF Settled
  <2> QED BY <2>3, <2>4 DEF Settled
<1>5. CASE Restart
  <2>1. last' = NoTask /\ \A u \in Task : alone'[u] => stage'[u] = stage[u] /\ u \notin Active
    BY <1>5, RestartDoes
  <2>2. NoTask \notin Task
    BY EngineAssumption DEF EngineAssumption
  <2> QED BY <2>1, <2>2 DEF Settled, Succeeded, Repeats, Active
<1> QED BY <1>2, <1>3, <1>4, <1>5 DEF Next

-----------------------------------------------------------------------------
(* The same declaration again *)

(* A task that runs alone has read nothing before.                          *)
StartsAfresh(t) ==
  alone[t] /\ stage[t] = "read" => device = found[t] /\ cur[t] = NoConfig /\ taskOrig[t] = NoConfig

(* The handlers of a task have nothing to do.                               *)
NothingToDo(t) ==
  /\ cur[t].module = device.module /\ target[t].module = device.module
  /\ \A c \in Class, i \in Item :
       LET now  == device.common[c][i]
           read == cur[t].common[c][i]
       IN /\ now = read \/ (Kind[c] = "db" /\ read = None)
          /\ Kind[c] = "db" /\ decl[t].common[c][i] # None => now = read
  /\ \A c \in Class : Available(c, device) => Holds(c, target[t].common[c])

Quiet(t) ==
  Repeats(t) /\ stage[t] \in HandlerStage \cup {"rollbackRead"} => NothingToDo(t)

LEMMA InitQuiet == Init => \A t \in Task : StartsAfresh(t) /\ Quiet(t)
BY DEF Init, StartsAfresh, Quiet, HandlerStage

(* What a step does to a task that runs alone: nothing, unless it is its own. *)
LEMMA AloneSteps ==
  ASSUME TypeInv, History, NEW u \in Task, u \in Active, alone'[u], [Next]_vars
  PROVE  /\ alone[u]
         /\ \/ /\ UNCHANGED <<device, found[u], cur[u], taskOrig[u], target[u], rolling[u], decl[u],
                              stage[u], result[u]>>
               /\ original' = original \/ original' = NoConfig
               /\ ~raced' => ~raced /\ original' = original
            \/ Read(u) \/ RollbackRead(u) \/ Handle(u) \/ HandlerFails(u) \/ ReadFails(u)
            \/ Verify(u) \/ Finish(u)
<1>1. ASSUME NEW t \in Task, NEW d \in Declarations, Post(t, d)
      PROVE  FALSE
  <2>1. t = u
    BY <1>1, PostDoes
  <2> QED BY <1>1, <2>1, PostDoes
<1>2. ASSUME NEW t \in Task, Read(t) \/ RollbackRead(t) \/ Handle(t) \/ HandlerFails(t)
                              \/ ReadFails(t) \/ Verify(t) \/ Finish(t)
      PROVE  t = u /\ alone[u]
  <2>1. t \in Active /\ alone' = alone
    BY <1>2, ReadDoes, RollbackReadDoes, HandlerDoes, ReadFailsDoes, EndsDoes
  <2>2. Active = {u}
    BY <2>1 DEF History, Undisturbed
  <2> QED BY <2>1, <2>2
<1>3. CASE Delete
  <2>1. /\ UNCHANGED <<device, taskVars, found, alone>> /\ original' = NoConfig
        /\ raced' = (raced \/ Active # {})
    BY <1>3, DeleteDoes
  <2>2. raced'
    BY <2>1
  <2> QED BY <2>1, <2>2 DEF taskVars
<1>4. CASE UNCHANGED vars
  BY <1>4 DEF vars, taskVars, histVars
<1>5. ~Restart
  BY RestartDoes
<1> QED BY <1>1, <1>2, <1>3, <1>4, <1>5 DEF Next

LEMMA RestingSteps ==
  ASSUME TypeInv, NEW u \in Task, u \notin Active, [Next]_vars
  PROVE  stage'[u] = stage[u] \/ \E d \in Declarations : Post(u, d)
<1>1. ASSUME NEW t \in Task, NEW d \in Declarations, Post(t, d), t # u
      PROVE  stage'[u] = stage[u]
  BY <1>1, PostDoes
<1>2. ASSUME NEW t \in Task, Read(t) \/ RollbackRead(t) \/ Handle(t) \/ HandlerFails(t)
                              \/ ReadFails(t) \/ Verify(t) \/ Finish(t)
      PROVE  stage'[u] = stage[u]
  <2>1. t \in Active /\ \A v \in Task \ {t} : stage'[v] = stage[v]
    BY <1>2, ReadDoes, RollbackReadDoes, HandlerDoes, ReadFailsDoes, EndsDoes
  <2> QED BY <2>1
<1>3. Delete \/ UNCHANGED vars => stage' = stage
  BY DeleteDoes DEF taskVars, vars
<1>4. Restart => stage'[u] = stage[u]
  BY RestartDoes
<1> QED BY <1>1, <1>2, <1>3, <1>4 DEF Next

LEMMA NextAfresh ==
  ASSUME TypeInv, History, [Next]_vars, \A t \in Task : StartsAfresh(t)
  PROVE  \A t \in Task : StartsAfresh(t)'
<1> SUFFICES ASSUME NEW u \in Task, alone'[u], stage'[u] = "read"
             PROVE  StartsAfresh(u)'
  BY DEF StartsAfresh
<1>1. CASE stage[u] = "idle"
  <2>1. ASSUME NEW d \in Declarations, Post(u, d)
        PROVE  StartsAfresh(u)'
    <3>1. cur[u] = NoConfig /\ taskOrig[u] = NoConfig
      BY <1>1 DEF TypeInv, Shape
    <3> QED BY <2>1, <3>1, PostDoes DEF StartsAfresh
  <2>2. stage'[u] = stage[u] \/ \E d \in Declarations : Post(u, d)
    BY <1>1, RestingSteps DEF Active
  <2> QED BY <1>1, <2>1, <2>2
<1>2. CASE u \in Active
  <2>1. ~(Read(u) \/ RollbackRead(u) \/ Handle(u) \/ HandlerFails(u) \/ ReadFails(u)
          \/ Verify(u) \/ Finish(u))
    BY ReadDoes, RollbackReadDoes, HandlerDoes, HandleDoes, HandlerFailsDoes, NextStageType,
       ReadFailsDoes, EndsDoes DEF HandlerStage
  <2>2. alone[u] /\ UNCHANGED <<device, found[u], cur[u], taskOrig[u], stage[u]>>
    BY <1>2, <2>1, AloneSteps
  <2> QED BY <2>2 DEF StartsAfresh
<1>3. CASE stage[u] \in {"done", "lost"}
  <2>1. stage'[u] = stage[u] \/ \E d \in Declarations : Post(u, d)
    BY <1>3, RestingSteps DEF Active
  <2> QED BY <1>3, <2>1, PostDoes
<1> QED BY <1>1, <1>2, <1>3 DEF Active, TypeInv, TypeOK, Stage

LEMMA SameConfig ==
  ASSUME NEW d \in Config, NEW e \in Config, d.module = e.module,
         \A c \in Class, i \in Item : d.common[c][i] = e.common[c][i]
  PROVE  d = e
<1>1. d.common \in [Class -> Section] /\ e.common \in [Class -> Section]
  BY Fields
<1>2. \A c \in Class : d.common[c] = e.common[c]
  <2> SUFFICES ASSUME NEW c \in Class PROVE d.common[c] = e.common[c]
    OBVIOUS
  <2>1. d.common[c] \in Section /\ e.common[c] \in Section
    BY <1>1
  <2> QED BY <2>1 DEF Section
<1>3. d.common = e.common
  BY <1>1, <1>2
<1> QED BY <1>3 DEF Config

(* Handlers that have nothing to do change nothing, also when they fail. *)
LEMMA EffectQuiet ==
  ASSUME NEW t \in Task, device \in Config, cur[t] \in Config, target[t] \in Config,
         stage[t] \in HandlerStage, ModuleRuns, NothingToDo(t), NEW K,
         Refused(t) => \A c \in K : c \in Class \ NeedsModule
  PROVE  Effect(t, K) = device
<1>0. \A L : Updated(t, L).module = device.module /\ Deleted(t, L).module = device.module
  BY DEF Updated, Deleted, Config
<1>1. ASSUME NEW c \in Class, NEW i \in Item, Available(c, device), i \in ToUpdate(t, c)
      PROVE  target[t].common[c][i] = device.common[c][i]
  <2>1. target[t].common[c] \in Section /\ Holds(c, target[t].common[c])
    BY <1>1, Fields DEF NothingToDo
  <2>2. target[t].common[c][i] # None
    BY <1>1 DEF ToUpdate, Present
  <2> QED BY <2>1, <2>2, HoldsItems
<1>2. ASSUME NEW L, \A c \in L \cap Class : ToUpdate(t, c) # {} => Available(c, device)
      PROVE  Updated(t, L) = device
  <2>1. Updated(t, L) \in Config /\ Updated(t, L).module = device.module
    BY <1>0, UpdatedType
  <2>2. ASSUME NEW c \in Class, NEW i \in Item
        PROVE  Updated(t, L).common[c][i] = device.common[c][i]
    <3>1. c \in L /\ i \in ToUpdate(t, c) => Available(c, device)
      BY <1>2
    <3> QED BY <1>1, <3>1, UpdatedType
  <2> QED BY <2>1, <2>2, SameConfig
<1>3. Deleted(t, K) = device
  <2>1. Deleted(t, K) \in Config /\ Deleted(t, K).module = device.module
    BY <1>0, DeletedType
  <2>2. ASSUME NEW c \in Class, NEW i \in Item, i \in ToDelete(t, c)
        PROVE  device.common[c][i] = None
    <3>1. /\ target[t].common[c] \in Section
          /\ target[t].common[c][i] = None
          /\ Kind[c] = "named" \/ (Kind[c] = "gslb" /\ target[t].common[c] # Empty)
      <4>1. target[t].common[c] \in Section
        BY Fields
      <4>2. Kind[c] = "named" => target[t].common[c][i] = None
        BY <2>2, DeleteFollows
      <4>3. Kind[c] = "gslb" => target[t].common[c][i] = None /\ target[t].common[c] # Empty
        <5>1. Kind[c] = "gslb" => ToDelete(t, c) = IF target[t].common[c] = Empty THEN {}
                                                   ELSE Removed(t, c)
          BY Zenon DEF ToDelete
        <5> QED BY <2>2, <5>1, DeleteFollows
      <4>4. Kind[c] \in {"named", "gslb"}
        BY <2>2, DeleteFollows
      <4> QED BY <4>1, <4>2, <4>3, <4>4
    <3>2. CASE Available(c, device)
      BY <3>1, <3>2, HoldsItems DEF NothingToDo
    <3>3. CASE ~Available(c, device)
      BY <3>3 DEF Available, ModuleRuns, Empty
    <3> QED BY <3>2, <3>3
  <2>3. \A c \in Class, i \in Item : Deleted(t, K).common[c][i] = device.common[c][i]
    BY <2>2, DeletedType
  <2> QED BY <2>1, <2>3, SameConfig
<1>4. CASE stage[t] = "system"
  <2>1. Effect(t, K) = Updated(t, K \cap SystemClasses)
    BY <1>4, EffectDoes
  <2>2. \A c \in SystemClasses : Available(c, device)
    BY Systems DEF Available
  <2> QED BY <1>2, <2>1, <2>2
<1>5. CASE stage[t] = "create"
  <2>1. Effect(t, K) = Updated(t, K \ SystemClasses)
    BY <1>5, EffectDoes
  <2>2. ASSUME NEW c \in K, c \in Class, ToUpdate(t, c) # {}
        PROVE  Available(c, device)
    <3>1. CASE Refused(t)
      BY <3>1 DEF Available
    <3>2. CASE ~Refused(t)
      BY <1>5, <2>2, <3>2 DEF Refused, Available
    <3> QED BY <3>1, <3>2
  <2> QED BY <1>2, <2>1, <2>2
<1>6. CASE stage[t] = "delete"
  BY <1>3, <1>6, EffectDoes
<1>7. CASE stage[t] \in {"provision", "deprovision"}
  <2>1. cur[t].module = target[t].module
    BY DEF NothingToDo
  <2> QED BY <1>7, <2>1, EffectDoes
<1> QED BY <1>4, <1>5, <1>6, <1>7 DEF HandlerStage

(* What get records for a class that is there is not missing. *)
LEMMA RecordedHas ==
  ASSUME TypeInv, NEW t \in Task, NEW c \in Class
  PROVE  /\ Available(c, device) => Recorded(t, Reading(t)).common[c] \in Section
         /\ ~Available(c, device) => Recorded(t, Reading(t)).common[c] = Missing
<1> DEFINE r == Reading(t)
           o == Recorded(t, r)
<1>1. r \in Config /\ r.module = device.module
  BY ReadingType, ReadingModule DEF TypeInv, TypeOK
<1>2. Available(c, r) <=> Available(c, device)
  BY <1>1 DEF Available
<1> HIDE DEF r
<1>3. /\ ~Available(c, r) => o.common[c] = Missing
      /\ Available(c, r) =>
           /\ Known(t, r).common[c] = Missing => o.common[c] = r.common[c]
           /\ Known(t, r).common[c] # Missing /\ Kind[c] = "db" =>
                o.common[c] = FillIn(Known(t, r).common[c], r.common[c])
           /\ Known(t, r).common[c] # Missing /\ Kind[c] # "db" =>
                o.common[c] = Known(t, r).common[c]
  BY <1>1, RecordedType DEF TypeInv
<1>4. r.common[c] \in Section /\ Known(t, r).common[c] \in Section \cup {Missing}
  BY <1>1, KnownType, Fields DEF TypeInv
<1>5. Available(c, r) => o.common[c] \in Section
  BY <1>3, <1>4, FillInType
<1> HIDE DEF o
<1> QED BY <1>2, <1>3, <1>5 DEF o, r

(* What is read is what the device has, the variables of the declaration    *)
(* included.                                                                *)
LEMMA ReadingDoes ==
  ASSUME TypeInv, NEW t \in Task
  PROVE  /\ Reading(t) \in Config /\ Reading(t).module = device.module
         /\ \A c \in Class, i \in Item :
              LET now  == device.common[c][i]
                  read == Reading(t).common[c][i]
              IN /\ now = read \/ (Kind[c] = "db" /\ read = None)
                 /\ Kind[c] = "db" /\ decl[t].common[c][i] # None => now = read
<1>1. \A c \in Class, i \in Item : decl[t].common[c][i] # None => i \in OfInterest(t, c)
  BY DEF OfInterest, Present
<1> QED BY <1>1, ReadingType, ReadingModule DEF TypeInv, TypeOK

LEMMA ReadQuiet ==
  ASSUME TypeInv, NEW t \in Task, Read(t), InForce(decl[t]), taskOrig[t] = NoConfig
  PROVE  NothingToDo(t)'
<1> DEFINE o == Recorded(t, Reading(t))
           known == Known(t, Reading(t))
<1>1. /\ cur'[t] = Reading(t) /\ target'[t] = ApplyDefaults(decl[t], o)
      /\ UNCHANGED <<device, decl>> /\ decl[t] \in Declarations
  BY ReadDoes
<1>2. Reading(t) \in Config /\ o \in Original /\ decl[t] \in Declaration
  BY <1>1, ReadingType, RecordedType, EngineAssumption DEF EngineAssumption, TypeInv, TypeOK
<1>3. o.module = known.module
      /\ (original # NoConfig => known = original)
      /\ (original = NoConfig => known.common = Reading(t).common
                                  /\ known.module = Reading(t).module)
  BY <1>2, RecordedModule DEF TypeInv
<1>4. target'[t].module = IF decl[t].module = Missing THEN o.module ELSE decl[t].module
  BY <1>1, DefaultsModule
<1>5. target'[t].module = device.module
  BY <1>3, <1>4, ReadingDoes DEF InForce
<1>6. ASSUME NEW c \in Class, Available(c, device)
      PROVE  Holds(c, target'[t].common[c])
  <2>1. target'[t].common[c] = IF decl[t].common[c] # Empty THEN decl[t].common[c]
                               ELSE IF o.common[c] = Missing THEN Empty ELSE o.common[c]
    BY <1>1, <1>2, DefaultsType
  <2>2. CASE decl[t].common[c] # Empty
    BY <1>6, <2>1, <2>2 DEF InForce
  <2>3. CASE decl[t].common[c] = Empty
    <3>1. known.common[c] # Missing => Holds(c, known.common[c])
      <4>1. CASE original # NoConfig
        BY <1>3, <1>6, <2>3, <4>1 DEF InForce
      <4>2. CASE original = NoConfig
        BY <1>3, <4>2, ReadingHolds
      <4> QED BY <4>1, <4>2
    <3>2. o.common[c] \in Section /\ Holds(c, o.common[c])
      BY <1>6, <3>1, GetHolds
    <3> QED BY <2>1, <2>3, <3>2, Constants
  <2> QED BY <2>2, <2>3
<1> HIDE DEF o, known
<1>7. \A c \in Class : Available(c, device') => Holds(c, target[t].common[c])'
  BY <1>1, <1>6 DEF Available, Holds
<1> QED BY <1>1, <1>5, <1>7, ReadingDoes DEF NothingToDo

LEMMA RollbackQuiet ==
  ASSUME TypeInv, NEW t \in Task, RollbackRead(t), NothingToDo(t), Aims(t), Outcome(t), alone[t]
  PROVE  NothingToDo(t)'
<1> DEFINE o == Recorded(t, Reading(t))
           known == Known(t, Reading(t))
<1>1. /\ cur'[t] = Reading(t) /\ target'[t] = ApplyDefaults(cur[t], o)
      /\ UNCHANGED <<device, decl>> /\ cur[t] \in Config
      /\ stage[t] = "rollbackRead" /\ t \in Active
  BY RollbackReadDoes
<1>2. /\ Reading(t) \in Config /\ o \in Original /\ decl[t] \in Declarations
      /\ decl[t] \in Declaration /\ device \in Config
  BY <1>1, ReadingType, RecordedType, EngineAssumption
  DEF EngineAssumption, TypeInv, TypeOK, Shape
<1>3. Undisturbed(t) /\ Forward(t)
  BY <1>1 DEF Undisturbed, Forward, Outcome
<1>4. /\ Mentions(t) /\ taskOrig[t] # NoConfig /\ FilledFrom(t, known)
  BY <1>2, <1>3, RecordedModule DEF Aims, TypeInv
<1>5. target'[t].module = device.module
  <2>1. cur[t].module # Missing
    BY <1>1, Fields, Constants
  <2> QED BY <1>1, <2>1, DefaultsModule DEF NothingToDo
<1>6. ASSUME NEW c \in Class, Available(c, device)
      PROVE  Holds(c, target'[t].common[c])
  <2>0. cur[t].common[c] \in Section /\ decl[t].common[c] \in Section
    BY <1>1, <1>2, Fields
  <2>1. target'[t].common[c] = IF cur[t].common[c] # Empty THEN cur[t].common[c]
                               ELSE IF o.common[c] = Missing THEN Empty ELSE o.common[c]
    BY <1>1, <1>2, DefaultsType
  <2>2. CASE cur[t].common[c] # Empty
    <3>1. \A i \in Item : LET now  == device.common[c][i]
                              read == cur[t].common[c][i]
                          IN now = read \/ (Kind[c] = "db" /\ read = None)
      BY DEF NothingToDo
    <3>2. Holds(c, cur[t].common[c])
      BY <1>2, <2>0, <3>1, HoldsItems
    <3> QED BY <2>1, <2>2, <3>2
  <2>3. CASE cur[t].common[c] = Empty
    <3>1. decl[t].common[c] = Empty
      <4> SUFFICES ASSUME decl[t].common[c] # Empty PROVE FALSE
        OBVIOUS
      <4>1. PICK i \in Item : decl[t].common[c][i] # None
        BY <2>0 DEF Section, Empty
      <4>2. Holds(c, decl[t].common[c])
        BY <1>4, <1>6 DEF Mentions, NothingToDo
      <4>3. device.common[c][i] # None
        BY <1>2, <2>0, <4>1, <4>2, HoldsItems
      <4>4. cur[t].common[c][i] = None
        BY <2>3 DEF Empty
      <4> QED BY <4>1, <4>3, <4>4 DEF NothingToDo
    <3>2. known.common[c] # Missing => Holds(c, known.common[c])
      BY <1>4, <1>6, <3>1 DEF FilledFrom, NothingToDo
    <3>3. o.common[c] \in Section /\ Holds(c, o.common[c])
      BY <1>6, <3>2, GetHolds
    <3> QED BY <2>1, <2>3, <3>3, Constants
  <2> QED BY <2>2, <2>3
<1> HIDE DEF o, known
<1>7. \A c \in Class : Available(c, device') => Holds(c, target[t].common[c])'
  BY <1>1, <1>6 DEF Available, Holds
<1> QED BY <1>1, <1>5, <1>7, ReadingDoes DEF NothingToDo

LEMMA NextQuiet ==
  ASSUME TypeInv, History, ModuleRuns, Settled, [Next]_vars,
         \A t \in Task : Aims(t) /\ StartsAfresh(t) /\ Quiet(t)
  PROVE  \A t \in Task : Quiet(t)'
<1> SUFFICES ASSUME NEW u \in Task, Repeats(u)', stage'[u] \in HandlerStage \cup {"rollbackRead"}
             PROVE  NothingToDo(u)'
  BY DEF Quiet
<1>1. u \in Active
  <2>1. stage'[u] # stage[u] => stage'[u] = "read" \/ u \in Active
    BY RestingSteps, PostDoes
  <2> QED BY <2>1 DEF Active, HandlerStage
<1>2. Repeats(u) /\ alone[u] /\ alone'[u]
  <2>1. Repeats(u)
    BY <1>1, RepeatsBefore DEF Active
  <2> QED BY <2>1 DEF Repeats
<1>3. CASE UNCHANGED <<device, found[u], cur[u], taskOrig[u], target[u], rolling[u], decl[u],
                       stage[u], result[u]>>
  <2>1. NothingToDo(u)
    BY <1>2, <1>3 DEF Quiet
  <2> QED BY <1>3, <2>1 DEF NothingToDo, Available, Holds
<1>4. CASE Read(u)
  <2>1. InForce(decl[u]) /\ taskOrig[u] = NoConfig
    BY <1>2, <1>4, ReadDoes DEF Settled, StartsAfresh
  <2> QED BY <1>4, <2>1, ReadQuiet
<1>5. CASE RollbackRead(u)
  <2>1. NothingToDo(u) /\ Aims(u) /\ Outcome(u)
    BY <1>2, <1>5, RollbackReadDoes DEF Quiet, History
  <2> QED BY <1>2, <1>5, <2>1, RollbackQuiet
<1>6. CASE Handle(u) \/ HandlerFails(u)
  <2>1. /\ device \in Config /\ cur[u] \in Config /\ target[u] \in Config
        /\ stage[u] \in HandlerStage /\ NothingToDo(u)
        /\ UNCHANGED <<cur, target, decl>>
    BY <1>2, <1>6, HandlerDoes DEF Quiet, TypeInv, TypeOK
  <2>2. PICK K : device' = Effect(u, K) /\ (Refused(u) => \A c \in K : c \in Class \ NeedsModule)
    BY <1>6, HandlerDoes
  <2>3. device' = device
    BY <2>1, <2>2, EffectQuiet
  <2> QED BY <2>1, <2>3 DEF NothingToDo, Available, Holds
<1>7. ~ReadFails(u) /\ ~Verify(u) /\ ~Finish(u)
  BY ReadFailsDoes, EndsDoes DEF HandlerStage
<1> QED BY <1>1, <1>2, <1>3, <1>4, <1>5, <1>6, <1>7, AloneSteps

-----------------------------------------------------------------------------
(* Success *)

(* The conjuncts lean on each other: that the record is whole on what never *)
(* comes or goes, the device on the diff, the diff on the record.           *)
AppliedInv ==
  /\ TypeInv /\ RecordInv /\ History /\ ItemsStay /\ ModuleRuns /\ RecordIsWhole /\ Settled
  /\ \A t \in Task : Follows(t) /\ Aims(t) /\ StartsAfresh(t) /\ Quiet(t)

LEMMA InitApplied == Init => AppliedInv
BY InitType, InitRecord, InitHistory, InitItems, InitWhole, InitSettled, InitFollows, InitAims,
   InitQuiet DEF AppliedInv

LEMMA NextApplied == AppliedInv /\ [Next]_vars => AppliedInv'
<1> SUFFICES ASSUME AppliedInv, [Next]_vars
             PROVE  AppliedInv'
  OBVIOUS
<1>1. TypeInv' /\ RecordInv' /\ History'
  BY StepType, StepRecord, NextHistory DEF AppliedInv
<1>2. ItemsStay' /\ ModuleRuns' /\ RecordIsWhole'
  BY NextItems, NextWhole DEF AppliedInv
<1>3. \A t \in Task : Follows(t)'
  BY <1>1, NextFollows DEF AppliedInv
<1>4. \A t \in Task : Aims(t)'
  BY <1>1, NextAims DEF AppliedInv
<1>5. Settled'
  BY <1>1, NextSettled DEF AppliedInv
<1>6. \A t \in Task : StartsAfresh(t)' /\ Quiet(t)'
  BY NextAfresh, NextQuiet DEF AppliedInv
<1> QED BY <1>1, <1>2, <1>3, <1>4, <1>5, <1>6 DEF AppliedInv

(* The invariant that the three theorems rest on.                           *)
THEOREM AppliedHolds == Spec => []AppliedInv
BY InitApplied, NextApplied, PTL DEF Spec

(* What a successful declaration mentions is on the device, for every       *)
(* history of tasks that failed, were lost or ran at once before it         *)
(* (declarationHandler.js, process; deleteHandler.js, process).             *)
THEOREM DeclaredIsApplied == Spec => []MentionedIsApplied
<1>1. AppliedInv => MentionedIsApplied
  BY Constants DEF AppliedInv, Settled, MentionedIsApplied, InForce, Holds, Present
<1> QED BY <1>1, AppliedHolds, PTL

(* What a successful declaration leaves out is as it was before the first   *)
(* one, whatever the declarations in between did to it (configManager.js,   *)
(* get; declarationHandler.js, applyDefaults).                              *)
THEOREM OmittedIsReset == Spec => []OmittedIsOriginal
<1>1. AppliedInv => OmittedIsOriginal
  <2> SUFFICES ASSUME AppliedInv, NEW t \in Task, Succeeded(t), ~raced, original # NoConfig
               PROVE  /\ decl[t].module = Missing => device.module = original.base.module
                      /\ \A c \in Class \ NeedsModule : decl[t].common[c] = Empty =>
                           device.common[c] = original.base.common[c]
    BY DEF OmittedIsOriginal
  <2>1. InForce(decl[t])
    BY DEF AppliedInv, Settled
  <2>2. original.module = original.base.module /\ Faithful(original) /\ SameItems(original.base)
    BY DEF AppliedInv, RecordInv, RecordIsWhole, ItemsStay
  <2>3. original \in Original /\ device \in Config
    BY DEF AppliedInv, TypeInv, TypeOK
  <2>4. ASSUME NEW c \in Class \ NeedsModule, decl[t].common[c] = Empty
        PROVE  device.common[c] = original.base.common[c]
    <3>1. /\ original.common[c] \in Section /\ original.common[c] # Missing
          /\ original.base.common[c] \in Section /\ device.common[c] \in Section
      BY <2>2, <2>3, Fields DEF Faithful
    <3>2. Holds(c, original.common[c])
      BY <2>1, <2>4, <3>1 DEF InForce, Available
    <3>3. \A i \in Item : original.common[c][i] # None =>
            /\ device.common[c][i] = original.common[c][i]
            /\ original.common[c][i] = original.base.common[c][i]
      BY <2>2, <2>3, <3>1, <3>2, HoldsItems DEF Faithful
    <3>4. Kind[c] # "db" => original.common[c] = original.base.common[c]
      BY DEF AppliedInv, RecordIsWhole
    <3>5. CASE Kind[c] = "named"
      BY <3>2, <3>4, <3>5 DEF Holds
    <3>6. Kind[c] # "gslb"
      BY EngineAssumption DEF EngineAssumption
    <3>7. CASE Kind[c] = "nameless"
      <4>1. \A i \in Item : original.common[c][i] = None => device.common[c][i] = None
        BY <2>2, <3>4, <3>7 DEF SameItems, SystemClasses
      <4>2. \A i \in Item : device.common[c][i] = original.base.common[c][i]
        BY <3>3, <3>4, <3>7, <4>1
      <4> QED BY <3>1, <4>2 DEF Section
    <3>8. CASE Kind[c] = "db"
      <4>1. \A i \in Item : device.common[c][i] = original.base.common[c][i]
        BY <2>2, <3>3, <3>8 DEF Faithful
      <4> QED BY <3>1, <4>1 DEF Section
    <3>9. Kind[c] \in ClassKind
      BY EngineAssumption DEF EngineAssumption
    <3> QED BY <3>5, <3>6, <3>7, <3>8, <3>9 DEF ClassKind
  <2> QED BY <2>1, <2>2, <2>4 DEF InForce
<1> QED BY <1>1, AppliedHolds, PTL

(* The handlers of a declaration that repeats the one before it change      *)
(* nothing on the device, also when one fails and the task rolls back       *)
(* (diffHandler.js, process; restWorker.js, onboard).                       *)
THEOREM RepeatIsQuiet == Spec => SecondPostIsQuiet
<1>1. AppliedInv /\ [Next]_vars =>
        [\A t \in Task : stage[t] \in HandlerStage /\ Repeats(t) /\ stage'[t] # stage[t]
                         => device' = device]_vars
  <2> SUFFICES ASSUME AppliedInv, Next, NEW t \in Task, stage[t] \in HandlerStage, Repeats(t),
                      stage'[t] # stage[t]
               PROVE  device' = device
    OBVIOUS
  <2>1. TypeInv /\ ModuleRuns /\ NothingToDo(t)
    BY DEF AppliedInv, Quiet
  <2>2. ASSUME NEW u \in Task, Handle(u) \/ HandlerFails(u)
        PROVE  device' = device
    <3>1. u = t
      BY <2>1, <2>2, HandlerDoes
    <3>2. PICK K : device' = Effect(u, K) /\ (Refused(u) => \A c \in K : c \in Class \ NeedsModule)
      BY <2>1, <2>2, HandlerDoes
    <3>3. device \in Config /\ cur[t] \in Config /\ target[t] \in Config
      BY <2>1, <2>2, <3>1, HandlerDoes DEF TypeInv, TypeOK
    <3> QED BY <2>1, <3>1, <3>2, <3>3, EffectQuiet
  <2>3. ASSUME NEW u \in Task, NEW d \in Declarations, Post(u, d)
        PROVE  device' = device
    BY <2>1, <2>3, PostDoes
  <2>4. ASSUME NEW u \in Task, Read(u) \/ RollbackRead(u) \/ ReadFails(u) \/ Verify(u) \/ Finish(u)
        PROVE  device' = device
    BY <2>1, <2>4, ReadDoes, RollbackReadDoes, ReadFailsDoes, EndsDoes
  <2>5. Delete \/ Restart => device' = device
    BY <2>1, DeleteDoes, RestartDoes
  <2> QED BY <2>2, <2>3, <2>4, <2>5 DEF Next
<1> QED BY <1>1, AppliedHolds, PTL DEF Spec, SecondPostIsQuiet

-----------------------------------------------------------------------------
(* Rolling back *)

(* One task at a time, and no class without names comes with a module.      *)
OneTask == MaxActive <= 1
NamedModules == \A c \in NeedsModule : Kind[c] \in {"named", "gslb"}

LEMMA Singly == OneTask => \A t \in Active : Undisturbed(t)
BY DEF OneTask, Undisturbed

(* What a task found is a configuration the device has had.                 *)
FoundRuns ==
  \A t \in Task :
    /\ stage[t] # "idle" => found[t] # NoConfig
    /\ \A c \in NeedsModule :
         found[t] # NoConfig /\ ~found[t].module => found[t].common[c] = Empty

(* What a task that ran alone has read is what it found.                    *)
ReadsFound(t) ==
  alone[t] /\ ~rolling[t] /\ stage[t] \in HandlerStage \cup {"rollbackRead"} =>
    /\ cur[t].module = found[t].module
    /\ \A c \in Class, i \in Item :
         LET read == cur[t].common[c][i] IN
         /\ found[t].common[c][i] = read \/ (Kind[c] = "db" /\ read = None)
         /\ Kind[c] = "db" /\ decl[t].common[c][i] # None => found[t].common[c][i] = read

(* The original configuration has objects of class c.                       *)
IsKept(c) == original # NoConfig /\ original.common[c] \notin {Missing, Empty}

(* A class of named objects that had some at first always has some: there   *)
(* is no way to declare an empty one.                                       *)
DeviceKeepsSome ==
  ~raced => \A c \in Class : Kind[c] = "named" /\ IsKept(c) /\ Available(c, device) =>
              device.common[c] # Empty

TargetKeepsSome(t) ==
  ~raced /\ stage[t] \in HandlerStage =>
    \A c \in Class : /\ IsKept(c) => target[t].common[c] # Empty
                     /\ c \in NeedsModule /\ ~cur[t].module => ~IsKept(c)

(* A class that a task found empty is empty in the original configuration.  *)
EmptyAtFirst(t) ==
  ~raced /\ alone[t] /\ ~rolling[t] /\ stage[t] \in HandlerStage \cup {"rollbackRead"} =>
    \A c \in Class : Kind[c] = "named" /\ Available(c, found[t]) /\ found[t].common[c] = Empty =>
      original # NoConfig /\ original.common[c] = Empty

(* What RollbackRestores leaves out.                                        *)
Excepted(t, c, i) ==
  \/ Kind[c] = "db" /\ decl[t].common[c][i] = None
  \/ Kind[c] = "gslb" /\ found[t].common[c] = Empty

(* What a task rolls back to is what it found.                              *)
RollsTo(t) ==
  ~raced /\ alone[t] /\ rolling[t] /\ stage[t] \in HandlerStage \cup {"verify"} =>
    /\ target[t].module = found[t].module
    /\ \A c \in Class, i \in Item : Available(c, found[t]) /\ ~Excepted(t, c, i) =>
         /\ target[t].common[c][i] = found[t].common[c][i]
         /\ Kind[c] = "gslb" => target[t].common[c] # Empty

IsRestored(t) ==
  /\ device.module = found[t].module
  /\ \A c \in Class, i \in Item : ~Excepted(t, c, i) => device.common[c][i] = found[t].common[c][i]

Restored(t) ==
  /\ ~raced /\ alone[t] /\ result[t] = "rolledBack"
  /\ stage[t] = "post" \/ (last = t /\ Active = {})
  => IsRestored(t)

LEMMA InitRollback ==
  Init => /\ FoundRuns /\ DeviceKeepsSome
          /\ \A t \in Task : ReadsFound(t) /\ TargetKeepsSome(t) /\ EmptyAtFirst(t) /\ RollsTo(t)
                             /\ Restored(t)
<1> SUFFICES ASSUME Init
             PROVE  /\ FoundRuns /\ DeviceKeepsSome
                    /\ \A t \in Task : ReadsFound(t) /\ TargetKeepsSome(t) /\ EmptyAtFirst(t)
                                       /\ RollsTo(t) /\ Restored(t)
  OBVIOUS
<1>1. /\ original = NoConfig /\ \A t \in Task : found[t] = NoConfig /\ result[t] = "none"
      /\ \A t \in Task : stage[t] = "idle"
  BY DEF Init
<1> QED BY <1>1 DEF FoundRuns, DeviceKeepsSome, IsKept, ReadsFound, TargetKeepsSome, EmptyAtFirst,
                RollsTo, Restored, HandlerStage

LEMMA NextFound ==
  ASSUME TypeInv, ModuleRuns, FoundRuns, [Next]_vars
  PROVE  FoundRuns'
<1>1. ASSUME NEW t \in Task, NEW d \in Declarations, Post(t, d)
      PROVE  FoundRuns'
  <2>1. /\ found'[t] = device /\ device # NoConfig
        /\ \A u \in Task \ {t} : found'[u] = found[u] /\ stage'[u] = stage[u]
    BY <1>1, PostDoes, Constants DEF TypeInv, TypeOK
  <2> QED BY <2>1 DEF FoundRuns, ModuleRuns
<1>2. CASE \A t \in Task, d \in Declarations : ~Post(t, d)
  <2>1. ASSUME NEW t \in Task, Read(t) \/ RollbackRead(t) \/ Handle(t) \/ HandlerFails(t)
                                \/ ReadFails(t) \/ Verify(t) \/ Finish(t)
        PROVE  found' = found
    BY <2>1, ReadDoes, RollbackReadDoes, HandlerDoes, ReadFailsDoes, EndsDoes
  <2>2. Delete \/ Restart \/ UNCHANGED vars => found' = found
    BY DeleteDoes, RestartDoes DEF vars, histVars
  <2>3. found' = found
    BY <1>2, <2>1, <2>2 DEF Next
  <2>4. \A u \in Task : stage[u] = "idle" => stage'[u] = "idle"
    BY <1>2, RestingSteps DEF Active
  <2> QED BY <2>3, <2>4 DEF FoundRuns
<1> QED BY <1>1, <1>2

LEMMA NextReadsFound ==
  ASSUME TypeInv, History, [Next]_vars, \A t \in Task : StartsAfresh(t) /\ ReadsFound(t)
  PROVE  \A t \in Task : ReadsFound(t)'
<1> SUFFICES ASSUME NEW u \in Task, alone'[u], ~rolling'[u],
                    stage'[u] \in HandlerStage \cup {"rollbackRead"}
             PROVE  ReadsFound(u)'
  BY DEF ReadsFound
<1>1. u \in Active
  <2>1. stage'[u] # stage[u] => stage'[u] = "read" \/ u \in Active
    BY RestingSteps, PostDoes
  <2> QED BY <2>1 DEF Active, HandlerStage
<1>2. CASE UNCHANGED <<device, found[u], cur[u], taskOrig[u], target[u], rolling[u], decl[u],
                       stage[u], result[u]>> /\ alone[u]
  BY <1>2 DEF ReadsFound
<1>3. CASE Read(u)
  <2>1. device = found[u] /\ cur'[u] = Reading(u) /\ found' = found /\ decl' = decl
    BY <1>3, ReadDoes DEF StartsAfresh
  <2> QED BY <2>1, ReadingDoes DEF ReadsFound
<1>4. CASE Handle(u) \/ HandlerFails(u)
  <2>1. UNCHANGED <<cur, found, decl, rolling, alone>> /\ stage[u] \in HandlerStage
    BY <1>4, HandlerDoes
  <2> QED BY <2>1 DEF ReadsFound
<1>5. ~RollbackRead(u) /\ ~ReadFails(u) /\ ~Verify(u) /\ ~Finish(u)
  BY RollbackReadDoes, ReadFailsDoes, EndsDoes DEF HandlerStage
<1> QED BY <1>1, <1>2, <1>3, <1>4, <1>5, AloneSteps

(* What get makes of a class of named objects, or of none at all. *)
LEMMA GetKeeps ==
  ASSUME TypeInv, RecordInv, ~raced, NEW t \in Active, NEW c \in Class, Kind[c] # "db"
  PROVE  LET new == Recorded(t, Reading(t)).common[c] IN
         /\ ~Available(c, device) => new = Missing
         /\ Available(c, device) =>
              \/ original # NoConfig /\ original.common[c] # Missing /\ new = original.common[c]
              \/ (original = NoConfig \/ original.common[c] = Missing) /\ new = device.common[c]
<1> DEFINE r == Reading(t)
           known == Known(t, r)
           new == Recorded(t, r).common[c]
<1>1. /\ t \in Task /\ r \in Config /\ r.module = device.module /\ device \in Config
      /\ \A i \in Item : r.common[c][i] = device.common[c][i]
  BY ReadingType, ReadingModule DEF TypeInv, TypeOK, Active
<1>2. Available(c, r) <=> Available(c, device)
  BY <1>1 DEF Available
<1>3. r.common[c] = device.common[c] /\ r.common[c] # Missing
  <2>1. r.common[c] \in Section /\ device.common[c] \in Section
    BY <1>1, Fields
  <2> QED BY <1>1, <2>1, Constants DEF Section
<1>4. original = NoConfig => taskOrig[t] = NoConfig
  BY DEF RecordInv, TaskOnRecord
<1>5. /\ original # NoConfig => known = original
      /\ original = NoConfig => known.common = r.common
  BY <1>1, <1>4, RecordedModule DEF TypeInv
<1>6. /\ ~Available(c, r) => new = Missing
      /\ Available(c, r) => /\ known.common[c] = Missing => new = r.common[c]
                            /\ known.common[c] # Missing => new = known.common[c]
  BY <1>1, RecordedType DEF TypeInv
<1> SUFFICES /\ ~Available(c, device) => new = Missing
             /\ Available(c, device) =>
                  \/ original # NoConfig /\ original.common[c] # Missing /\ new = original.common[c]
                  \/ /\ original = NoConfig \/ original.common[c] = Missing
                     /\ new = device.common[c]
  OBVIOUS
<1> HIDE DEF new, known, r
<1> QED BY <1>2, <1>3, <1>5, <1>6

LEMMA EffectKeepsSome ==
  ASSUME TypeInv, NEW t \in Task, stage[t] \in HandlerStage, cur[t] \in Config,
         target[t] \in Config, Undisturbed(t), Follows(t), NEW c \in Class, Kind[c] = "named",
         target[t].common[c] # Empty, c \in NeedsModule => cur[t].module,
         Available(c, device) => device.common[c] # Empty,
         NEW K, Available(c, Effect(t, K))
  PROVE  Effect(t, K).common[c] # Empty
<1>1. device \in Config /\ device.common[c] \in Section /\ target[t].common[c] \in Section
  BY Fields DEF TypeInv, TypeOK
<1>2. ModuleFollows(t) /\ \A i \in Item : ItemFollows(t, c, i)
  BY DEF Follows, InWork
<1>3. \A L : Updated(t, L).module = device.module /\ Deleted(t, L).module = device.module
  BY <1>1 DEF Updated, Deleted, Config
<1>4. SUFFICES \E i \in Item : Effect(t, K).common[c][i] # None
  BY DEF Empty
<1>5. Available(c, device) => \E i \in Item : device.common[c][i] # None
  BY <1>1 DEF Section, Empty
<1>6. ASSUME NEW L, Available(c, Updated(t, L))
      PROVE  \E i \in Item : Updated(t, L).common[c][i] # None
  <2>1. PICK i \in Item : device.common[c][i] # None
    BY <1>3, <1>5, <1>6 DEF Available
  <2>2. i \in ToUpdate(t, c) => target[t].common[c][i] # None
    BY DEF ToUpdate, Present
  <2> QED BY <1>1, <2>1, <2>2, UpdatedType
<1>7. CASE stage[t] \in {"system", "create"}
  <2>1. \E L : Effect(t, K) = Updated(t, L)
    BY <1>1, <1>7, EffectDoes
  <2> QED BY <1>6, <2>1
<1>8. CASE stage[t] = "delete"
  <2>1. Effect(t, K) = Deleted(t, K)
    BY <1>1, <1>8, EffectDoes
  <2>2. PICK i \in Item : target[t].common[c][i] # None
    BY <1>1 DEF Section, Empty
  <2>3. Available(c, device)
    BY <1>3, <2>1 DEF Available
  <2>4. device.common[c][i] # None
    BY <1>2, <1>8, <2>2, <2>3 DEF ItemFollows, IsUpdated
  <2> QED BY <1>1, <2>1, <2>2, <2>4, DeletedType, DeleteFollows
<1>9. CASE stage[t] = "provision"
  <2>1. Available(c, device)
    BY <1>2, <1>9 DEF ModuleFollows, Available
  <2>2. Effect(t, K) = device \/ Effect(t, K) = Provisioned(TRUE)
    BY <1>1, <1>9, EffectDoes
  <2>3. Effect(t, K).common[c] = device.common[c]
    BY <1>1, <2>2, ProvisionedDoes
  <2> QED BY <1>5, <2>1, <2>3
<1>10. CASE stage[t] = "deprovision"
  <2>1. cur[t].module \in BOOLEAN /\ target[t].module \in BOOLEAN
    BY Fields
  <2>2. Available(c, device)
    BY <1>2, <1>10, EitherType DEF ModuleFollows, Available
  <2>3. Effect(t, K) = device \/ Effect(t, K) = Provisioned(target[t].module)
    BY <1>1, <1>10, EffectDoes
  <2>4. Effect(t, K).common[c] = device.common[c]
    <3>1. CASE Effect(t, K) = device
      BY <3>1
    <3>2. CASE Effect(t, K) = Provisioned(target[t].module)
      <4>1. c \notin NeedsModule \/ target[t].module
        BY <1>1, <2>1, <3>2, ProvisionedDoes DEF Available
      <4> QED BY <1>1, <2>1, <3>2, <4>1, ProvisionedDoes
    <3> QED BY <2>3, <3>1, <3>2
  <2> QED BY <1>5, <2>2, <2>4
<1> QED BY <1>7, <1>8, <1>9, <1>10 DEF HandlerStage

LEMMA NextDeviceKeeps ==
  ASSUME OneTask, TypeInv, RecordInv, DeviceKeepsSome, [Next]_vars,
         \A t \in Task : Follows(t) /\ TargetKeepsSome(t)
  PROVE  DeviceKeepsSome'
<1> SUFFICES ASSUME ~raced', NEW c \in Class, Kind[c] = "named", IsKept(c)',
                    Available(c, device')
             PROVE  device'.common[c] # Empty
  BY DEF DeviceKeepsSome, Available
<1>1. ASSUME device' = device, original' = original, ~raced
      PROVE  device'.common[c] # Empty
  BY <1>1 DEF DeviceKeepsSome, IsKept
<1>2. ASSUME NEW t \in Task, NEW d \in Declarations, Post(t, d)
      PROVE  device'.common[c] # Empty
  BY <1>1, <1>2, PostDoes
<1>3. ASSUME NEW t \in Task, Read(t) \/ RollbackRead(t) \/ Verify(t) \/ Finish(t)
      PROVE  device'.common[c] # Empty
  <2>1. /\ t \in Active /\ original' = Recorded(t, Reading(t)) /\ device' = device
        /\ raced' = raced
    BY <1>3, ReadDoes, RollbackReadDoes, EndsDoes
  <2>2. original'.common[c] \notin {Missing, Empty} /\ Available(c, device)
    BY <2>1 DEF IsKept
  <2>3. \/ original # NoConfig /\ original.common[c] # Missing
           /\ original'.common[c] = original.common[c]
        \/ original'.common[c] = device.common[c]
    BY <2>1, <2>2, GetKeeps
  <2>4. CASE original # NoConfig /\ original.common[c] # Missing
             /\ original'.common[c] = original.common[c]
    BY <2>1, <2>2, <2>4 DEF DeviceKeepsSome, IsKept
  <2>5. CASE original'.common[c] = device.common[c]
    BY <2>1, <2>2, <2>5
  <2> QED BY <2>3, <2>4, <2>5
<1>4. ASSUME NEW t \in Task, Handle(t) \/ HandlerFails(t)
      PROVE  device'.common[c] # Empty
  <2>1. /\ cur[t] \in Config /\ target[t] \in Config /\ stage[t] \in HandlerStage /\ t \in Active
        /\ UNCHANGED <<original, raced>>
    BY <1>4, HandlerDoes
  <2>2. PICK K : device' = Effect(t, K)
    BY <1>4, HandlerDoes
  <2>3. IsKept(c) /\ ~raced
    BY <2>1 DEF IsKept
  <2>4. target[t].common[c] # Empty /\ (c \in NeedsModule => cur[t].module)
    BY <2>1, <2>3 DEF TargetKeepsSome
  <2>5. Available(c, device) => device.common[c] # Empty
    BY <2>3 DEF DeviceKeepsSome
  <2>6. Undisturbed(t)
    BY <2>1, Singly
  <2> QED BY <2>1, <2>2, <2>4, <2>5, <2>6, EffectKeepsSome
<1>5. ASSUME NEW t \in Task, ReadFails(t)
      PROVE  device'.common[c] # Empty
  BY <1>1, <1>5, ReadFailsDoes
<1>6. CASE Restart \/ UNCHANGED vars
  <2>1. UNCHANGED <<device, original, raced>>
    BY <1>6, RestartDoes DEF vars, histVars
  <2> QED BY <1>1, <2>1
<1>7. ~Delete
  BY DeleteDoes DEF IsKept
<1> QED BY <1>2, <1>3, <1>4, <1>5, <1>6, <1>7 DEF Next

LEMMA NextTargetKeeps ==
  ASSUME OneTask, TypeInv, RecordInv, History, [Next]_vars, \A t \in Task : TargetKeepsSome(t)
  PROVE  \A t \in Task : TargetKeepsSome(t)'
<1> SUFFICES ASSUME NEW u \in Task, ~raced', stage'[u] \in HandlerStage
             PROVE  TargetKeepsSome(u)'
  BY DEF TargetKeepsSome
<1>0. u \in Active
  <2>1. stage'[u] # stage[u] => stage'[u] = "read" \/ u \in Active
    BY RestingSteps, PostDoes
  <2> QED BY <2>1 DEF Active, HandlerStage
<1>1. Active = {u}
  BY <1>0, Singly DEF History
<1>2. ASSUME UNCHANGED <<cur[u], target[u]>>, original' \in {original, NoConfig}, ~raced,
             stage[u] \in HandlerStage
      PROVE  TargetKeepsSome(u)'
  BY <1>2 DEF TargetKeepsSome, IsKept
<1>3. ASSUME Read(u) \/ RollbackRead(u)
      PROVE  TargetKeepsSome(u)'
  <2> DEFINE o == Recorded(u, Reading(u))
  <2>1. /\ original' = o /\ cur'[u] = Reading(u) /\ ~raced
        /\ target'[u] \in {ApplyDefaults(decl[u], o), ApplyDefaults(cur[u], o)}
        /\ Read(u) => target'[u] = ApplyDefaults(decl[u], o) /\ decl[u] \in Declarations
        /\ RollbackRead(u) => target'[u] = ApplyDefaults(cur[u], o) /\ cur[u] \in Config
    BY <1>3, ReadDoes, RollbackReadDoes
  <2>2. o \in Original /\ cur'[u].module = device.module
    BY <2>1, ReadingDoes, RecordedType DEF TypeInv
  <2>3. PICK d \in Declaration \cup Config : target'[u] = ApplyDefaults(d, o)
    BY <1>3, <2>1, EngineAssumption DEF EngineAssumption
  <2>4. ASSUME NEW c \in Class
        PROVE  /\ o.common[c] \notin {Missing, Empty} => target'[u].common[c] # Empty
               /\ c \in NeedsModule /\ ~device.module => o.common[c] = Missing
    <3>1. target'[u].common[c] = IF d.common[c] # Empty THEN d.common[c]
                                 ELSE IF o.common[c] = Missing THEN Empty ELSE o.common[c]
      BY <2>2, <2>3, DefaultsType
    <3>2. ~Available(c, device) => o.common[c] = Missing
      BY RecordedHas
    <3> QED BY <3>1, <3>2 DEF Available
  <2> HIDE DEF o
  <2> QED BY <2>1, <2>2, <2>4 DEF TargetKeepsSome, IsKept
<1>4. ASSUME NEW t \in Task, Read(t) \/ RollbackRead(t), t # u
      PROVE  FALSE
  BY <1>1, <1>4, ReadDoes, RollbackReadDoes
<1>5. ASSUME NEW t \in Task, Handle(t) \/ HandlerFails(t)
      PROVE  TargetKeepsSome(u)'
  <2>1. t = u
    BY <1>1, <1>5, HandlerDoes
  <2> QED BY <1>2, <1>5, <2>1, HandlerDoes
<1>6. ASSUME NEW t \in Task, ReadFails(t) \/ Verify(t) \/ Finish(t)
      PROVE  FALSE
  <2>1. t = u
    BY <1>1, <1>6, ReadFailsDoes, EndsDoes
  <2> QED BY <1>6, <2>1, ReadFailsDoes, EndsDoes DEF HandlerStage
<1>7. ASSUME NEW t \in Task, NEW d \in Declarations, Post(t, d)
      PROVE  TargetKeepsSome(u)'
  <2>1. t # u
    BY <1>0, <1>7, PostDoes
  <2> QED BY <1>2, <1>7, <2>1, PostDoes
<1>8. CASE Delete \/ UNCHANGED vars
  <2>1. UNCHANGED <<cur, target, stage>> /\ original' \in {original, NoConfig}
    BY <1>8, DeleteDoes DEF taskVars, vars
  <2>2. raced' = (raced \/ Active # {}) \/ raced' = raced
    BY <1>8, DeleteDoes DEF histVars, vars
  <2>3. ~raced
    BY <2>2, Zenon
  <2> QED BY <1>2, <2>1, <2>3
<1>9. ~Restart
  BY <1>0, RestartDoes DEF HandlerStage
<1> QED BY <1>3, <1>4, <1>5, <1>6, <1>7, <1>8, <1>9 DEF Next

LEMMA NextEmpty ==
  ASSUME TypeInv, RecordInv, History, DeviceKeepsSome, [Next]_vars,
         \A t \in Task : StartsAfresh(t) /\ EmptyAtFirst(t)
  PROVE  \A t \in Task : EmptyAtFirst(t)'
<1> SUFFICES ASSUME NEW u \in Task, ~raced', alone'[u], ~rolling'[u],
                    stage'[u] \in HandlerStage \cup {"rollbackRead"}
             PROVE  EmptyAtFirst(u)'
  BY DEF EmptyAtFirst
<1>1. u \in Active
  <2>1. stage'[u] # stage[u] => stage'[u] = "read" \/ u \in Active
    BY RestingSteps, PostDoes
  <2> QED BY <2>1 DEF Active, HandlerStage
<1>2. CASE /\ UNCHANGED <<found[u], rolling[u], stage[u]>> /\ alone[u]
           /\ ~raced /\ original' = original
  BY <1>2 DEF EmptyAtFirst, Available
<1>3. CASE Read(u)
  <2>1. /\ device = found[u] /\ found' = found /\ original' = Recorded(u, Reading(u))
        /\ raced' = raced
    BY <1>3, ReadDoes DEF StartsAfresh
  <2>2. ASSUME NEW c \in Class, Kind[c] = "named", Available(c, device), device.common[c] = Empty
        PROVE  original'.common[c] = Empty
    <3>1. \/ original # NoConfig /\ original.common[c] # Missing
             /\ original'.common[c] = original.common[c]
          \/ original'.common[c] = device.common[c]
      BY <1>1, <2>1, <2>2, GetKeeps
    <3>2. ~IsKept(c)
      BY <2>1, <2>2 DEF DeviceKeepsSome
    <3> QED BY <2>2, <3>1, <3>2 DEF IsKept
  <2>3. original' # NoConfig
    BY <2>1, ReadingDoes, RecordedType, Constants DEF TypeInv
  <2> QED BY <2>1, <2>2, <2>3 DEF EmptyAtFirst, Available
<1>4. CASE Handle(u) \/ HandlerFails(u)
  <2>1. UNCHANGED <<found, rolling, alone, original, raced>> /\ stage[u] \in HandlerStage
    BY <1>4, HandlerDoes
  <2> QED BY <2>1 DEF EmptyAtFirst, Available
<1>5. ~RollbackRead(u) /\ ~ReadFails(u) /\ ~Verify(u) /\ ~Finish(u)
  BY RollbackReadDoes, ReadFailsDoes, EndsDoes DEF HandlerStage
<1> QED BY <1>1, <1>2, <1>3, <1>4, <1>5, AloneSteps

LEMMA RollbackRolls ==
  ASSUME NamedModules, TypeInv, RecordInv, History, ItemsStay, ~raced, NEW t \in Task, alone[t],
         RollbackRead(t), ReadsFound(t), EmptyAtFirst(t), found[t] \in Config
  PROVE  RollsTo(t)'
<1> DEFINE o == Recorded(t, Reading(t))
<1>1. /\ stage[t] = "rollbackRead" /\ ~rolling[t] /\ target'[t] = ApplyDefaults(cur[t], o)
      /\ cur[t] \in Config /\ t \in Active /\ original' = o
      /\ UNCHANGED <<device, found, decl>>
  BY RollbackReadDoes DEF History, Outcome
<1>2. /\ o \in Original /\ device \in Config /\ decl[t] \in Declarations /\ Within(o)
      /\ SameItems(found[t]) /\ cur[t] # NoConfig /\ found[t] # NoConfig
  BY <1>1, GetItems, Constants DEF TypeInv, TypeOK, Shape, ItemsStay
<1>3. /\ cur[t].module = found[t].module
      /\ \A c \in Class, i \in Item :
           LET read == cur[t].common[c][i] IN
           /\ found[t].common[c][i] = read \/ (Kind[c] = "db" /\ read = None)
           /\ Kind[c] = "db" /\ decl[t].common[c][i] # None => found[t].common[c][i] = read
  BY <1>1 DEF ReadsFound
<1>4. target'[t].module = found[t].module
  <2>1. cur[t].module # Missing
    BY <1>1, Fields, Constants
  <2> QED BY <1>1, <1>3, <2>1, DefaultsModule
<1>5. ASSUME NEW c \in Class, NEW i \in Item, Available(c, found[t]), ~Excepted(t, c, i)
      PROVE  /\ target'[t].common[c][i] = found[t].common[c][i]
             /\ Kind[c] = "gslb" => target'[t].common[c] # Empty
  <2>1. target'[t].common[c] = IF cur[t].common[c] # Empty THEN cur[t].common[c]
                               ELSE IF o.common[c] = Missing THEN Empty ELSE o.common[c]
    BY <1>1, <1>2, DefaultsType
  <2>2. cur[t].common[c][i] = found[t].common[c][i]
    BY <1>3, <1>5 DEF Excepted
  <2>3. CASE cur[t].common[c] # Empty
    BY <2>1, <2>2, <2>3
  <2>4. CASE cur[t].common[c] = Empty
    <3>1. found[t].common[c][i] = None
      BY <2>2, <2>4 DEF Empty
    <3>2. Kind[c] # "db" => found[t].common[c] = Empty
      <4>1. found[t].common[c] \in Section /\ cur[t].common[c] \in Section
        BY <1>1, Fields
      <4> QED BY <1>3, <2>4, <4>1 DEF Section
    <3>3. Kind[c] # "gslb"
      BY <1>5, <3>2 DEF Excepted
    <3>4. Kind[c] # "db"
      <4> SUFFICES ASSUME Kind[c] = "db" PROVE FALSE
        OBVIOUS
      <4>1. c \in SystemClasses
        BY Variables DEF SystemClasses
      <4>2. device.common[c][i] = None
        BY <1>2, <3>1, <4>1 DEF SameItems
      <4>3. decl[t].common[c][i] = None
        BY <1>2, <4>2 DEF RecordInv, HasVariables
      <4> QED BY <1>5, <4>3 DEF Excepted
    <3>5. CASE Kind[c] = "nameless"
      <4>1. c \in SystemClasses
        BY <3>5 DEF NamedModules, SystemClasses
      <4>2. device.common[c][i] = None
        BY <1>2, <3>1, <4>1 DEF SameItems
      <4>3. o.common[c] = Missing \/ o.common[c][i] = None
        BY <1>2, <4>1, <4>2 DEF Within
      <4>4. target'[t].common[c][i] = None
        BY <2>1, <2>4, <4>3 DEF Empty
      <4> QED BY <3>1, <3>3, <4>4
    <3>6. CASE Kind[c] = "named"
      <4>1. original # NoConfig /\ original.common[c] = Empty
        BY <1>1, <1>5, <3>2, <3>6 DEF EmptyAtFirst
      <4>2. Empty # Missing
        BY EmptySection, Constants
      <4>3. o.common[c] \in {Missing, Empty}
        BY <1>1, <3>6, <4>1, <4>2, GetKeeps
      <4>4. target'[t].common[c] = Empty
        BY <2>1, <2>4, <4>3
      <4> QED BY <3>1, <3>6, <4>4 DEF Empty
    <3>7. Kind[c] \in ClassKind
      BY EngineAssumption DEF EngineAssumption
    <3> QED BY <3>3, <3>4, <3>5, <3>6, <3>7 DEF ClassKind
  <2> QED BY <2>3, <2>4
<1> HIDE DEF o
<1>6. \A c \in Class, i \in Item : Available(c, found[t])' /\ ~Excepted(t, c, i)' =>
                                   Available(c, found[t]) /\ ~Excepted(t, c, i)
  BY <1>1 DEF Available, Excepted
<1> QED BY <1>1, <1>4, <1>5, <1>6 DEF RollsTo

LEMMA NextRolls ==
  ASSUME NamedModules, TypeInv, RecordInv, History, ItemsStay, FoundRuns, [Next]_vars,
         \A t \in Task : ReadsFound(t) /\ EmptyAtFirst(t) /\ RollsTo(t)
  PROVE  \A t \in Task : RollsTo(t)'
<1> SUFFICES ASSUME NEW u \in Task, ~raced', alone'[u], rolling'[u],
                    stage'[u] \in HandlerStage \cup {"verify"}
             PROVE  RollsTo(u)'
  BY DEF RollsTo
<1>1. u \in Active
  <2>1. stage'[u] # stage[u] => stage'[u] = "read" \/ u \in Active
    BY RestingSteps, PostDoes
  <2> QED BY <2>1 DEF Active, HandlerStage
<1>2. ASSUME UNCHANGED <<found[u], target[u], decl[u], rolling[u]>>, alone[u], ~raced,
             stage[u] \in HandlerStage \cup {"verify"}
      PROVE  RollsTo(u)'
  <2>1. /\ target[u].module = found[u].module
        /\ \A c \in Class, i \in Item : Available(c, found[u]) /\ ~Excepted(u, c, i) =>
             /\ target[u].common[c][i] = found[u].common[c][i]
             /\ Kind[c] = "gslb" => target[u].common[c] # Empty
    BY <1>2 DEF RollsTo
  <2>2. \A c \in Class, i \in Item : Available(c, found[u])' /\ ~Excepted(u, c, i)' =>
                                     Available(c, found[u]) /\ ~Excepted(u, c, i)
    BY <1>2 DEF Available, Excepted
  <2> QED BY <1>2, <2>1, <2>2 DEF RollsTo
<1>3. CASE /\ UNCHANGED <<found[u], target[u], decl[u], rolling[u], stage[u]>>
           /\ alone[u] /\ ~raced
  BY <1>2, <1>3
<1>4. CASE RollbackRead(u)
  <2>1. found[u] \in Config
    BY <1>1 DEF FoundRuns, TypeInv, TypeOK, Active
  <2>2. alone[u] /\ ~raced
    BY <1>4, RollbackReadDoes
  <2> QED BY <1>4, <2>1, <2>2, RollbackRolls
<1>5. CASE Handle(u) \/ HandlerFails(u)
  BY <1>2, <1>5, HandlerDoes
<1>6. ~Read(u)
  BY ReadDoes DEF History, Outcome
<1>7. ~ReadFails(u) /\ ~Verify(u) /\ ~Finish(u)
  BY ReadFailsDoes, EndsDoes DEF HandlerStage
<1> QED BY <1>1, <1>3, <1>4, <1>5, <1>6, <1>7, AloneSteps

LEMMA VerifyRestores ==
  ASSUME NamedModules, TypeInv, RecordInv, History, ItemsStay, ModuleRuns, FoundRuns, ~raced,
         NEW t \in Task, alone[t], Verify(t), Follows(t), RollsTo(t)
  PROVE  IsRestored(t)
<1>1. stage[t] = "verify" /\ t \in Active /\ rolling[t] /\ target[t] \in Config
  BY EndsDoes DEF History, Outcome, InWork
<1>2. /\ device.module = target[t].module
      /\ \A c \in Class : Available(c, device) => Holds(c, target[t].common[c])
  BY <1>1, FollowedHolds DEF Follows, InWork, Undisturbed
<1>3. /\ target[t].module = found[t].module
      /\ \A c \in Class, i \in Item : Available(c, found[t]) /\ ~Excepted(t, c, i) =>
           /\ target[t].common[c][i] = found[t].common[c][i]
           /\ Kind[c] = "gslb" => target[t].common[c] # Empty
  BY <1>1 DEF RollsTo
<1>4. found[t] # NoConfig /\ device \in Config
  BY <1>1 DEF FoundRuns, Active, TypeInv, TypeOK
<1>5. ASSUME NEW c \in Class, NEW i \in Item, ~Excepted(t, c, i)
      PROVE  device.common[c][i] = found[t].common[c][i]
  <2>1. CASE ~Available(c, found[t])
    <3>1. c \in NeedsModule /\ ~found[t].module /\ ~device.module
      BY <1>2, <1>3, <2>1 DEF Available
    <3> QED BY <1>4, <3>1 DEF FoundRuns, ModuleRuns
  <2>2. CASE Available(c, found[t])
    <3>1. target[t].common[c] \in Section /\ Holds(c, target[t].common[c])
      BY <1>1, <1>2, <1>3, <2>2, Fields DEF Available
    <3>2. /\ target[t].common[c][i] = found[t].common[c][i]
          /\ Kind[c] = "gslb" => target[t].common[c] # Empty
      BY <1>3, <1>5, <2>2
    <3>3. c \in SystemClasses /\ found[t].common[c][i] = None => device.common[c][i] = None
      BY <1>4 DEF ItemsStay, SameItems
    <3>4. c \in SystemClasses \/ Kind[c] \in {"named", "gslb"}
      BY EngineAssumption DEF EngineAssumption, ClassKind, NamedModules, SystemClasses
    <3> QED BY <1>4, <3>1, <3>2, <3>3, <3>4, HoldsItems
  <2> QED BY <2>1, <2>2
<1> QED BY <1>2, <1>3, <1>5 DEF IsRestored

LEMMA NextRestored ==
  ASSUME NamedModules, TypeInv, RecordInv, History, ItemsStay, ModuleRuns, FoundRuns, [Next]_vars,
         \A t \in Task : Follows(t) /\ RollsTo(t) /\ Restored(t)
  PROVE  \A t \in Task : Restored(t)'
<1> SUFFICES ASSUME NEW u \in Task, ~raced', alone'[u], result'[u] = "rolledBack",
                    stage'[u] = "post" \/ (last' = u /\ Active' = {})
             PROVE  IsRestored(u)'
  BY DEF Restored
<1>1. ASSUME UNCHANGED <<device, found[u], decl[u]>>, IsRestored(u)
      PROVE  IsRestored(u)'
  BY <1>1 DEF IsRestored, Excepted
<1>2. CASE u \in Active
  <2>1. CASE /\ UNCHANGED <<device, found[u], decl[u], stage[u], result[u]>>
             /\ alone[u] /\ ~raced
    <3>1. stage[u] = "post"
      <4>1. u \in Active'
        BY <1>2, <2>1 DEF Active
      <4> QED BY <2>1, <4>1
    <3> QED BY <1>1, <2>1, <3>1 DEF Restored
  <2>2. CASE Verify(u)
    <3>1. IsRestored(u) /\ UNCHANGED <<device, found[u], decl[u]>>
      BY <2>2, EndsDoes, VerifyRestores
    <3> QED BY <1>1, <3>1
  <2>3. CASE Finish(u)
    <3>1. /\ result[u] = "rolledBack" /\ stage[u] = "post" /\ alone[u] /\ ~raced
          /\ UNCHANGED <<device, found[u], decl[u]>>
      BY <2>3, EndsDoes
    <3> QED BY <1>1, <3>1 DEF Restored
  <2>4. ~ReadFails(u)
    BY ReadFailsDoes
  <2>5. ~Read(u) /\ ~RollbackRead(u)
    BY <1>2, ReadDoes, RollbackReadDoes
  <2>6. ~Handle(u) /\ ~HandlerFails(u)
    <3>1. Handle(u) \/ HandlerFails(u) => stage[u] \in HandlerStage
      BY HandlerDoes
    <3>2. stage[u] \in HandlerStage => result[u] = "none"
      BY DEF History, Outcome, InWork
    <3> QED BY <3>1, <3>2, HandleDoes, HandlerFailsDoes
  <2> QED BY <1>2, <2>1, <2>2, <2>3, <2>4, <2>5, <2>6, AloneSteps
<1>3. CASE u \notin Active
  <2>1. stage'[u] # "post" /\ last' = u /\ Active' = {}
    BY <1>3, RestingSteps, PostDoes DEF Active
  <2>2. ASSUME NEW t \in Task, NEW d \in Declarations, Post(t, d)
        PROVE  FALSE
    BY <2>1, <2>2, PostDoes
  <2>3. ASSUME NEW t \in Task, Read(t) \/ RollbackRead(t) \/ Handle(t) \/ HandlerFails(t)
                                \/ Verify(t)
        PROVE  FALSE
    <3>1. t \in Active'
      BY <2>3, ReadDoes, RollbackReadDoes, HandlerDoes, EndsDoes DEF Active
    <3> QED BY <2>1, <3>1
  <2>4. ASSUME NEW t \in Task, ReadFails(t) \/ Finish(t)
        PROVE  FALSE
    <3>1. t \in Active /\ t \notin Active'
      BY <2>1, <2>4, ReadFailsDoes, EndsDoes
    <3>2. last' = t
      BY <2>4, <3>1, ReadFailsDoes, EndsDoes DEF Active
    <3> QED BY <1>3, <2>1, <3>1, <3>2
  <2>5. CASE Delete \/ UNCHANGED vars
    <3>1. UNCHANGED <<device, found, decl, result, alone, last, Active>>
      BY <2>5, DeleteDoes DEF taskVars, histVars, vars, Active
    <3>2. ~raced
      <4>1. raced' = (raced \/ Active # {}) \/ raced' = raced
        BY <2>5, DeleteDoes DEF histVars, vars
      <4> QED BY <4>1, Zenon
    <3>3. IsRestored(u)
      BY <2>1, <3>1, <3>2 DEF Restored
    <3> QED BY <1>1, <3>1, <3>3
  <2>6. ~Restart
    <3>1. NoTask \notin Task
      BY EngineAssumption DEF EngineAssumption
    <3> QED BY <2>1, <3>1, RestartDoes
  <2> QED BY <2>2, <2>3, <2>4, <2>5, <2>6 DEF Next
<1> QED BY <1>2, <1>3

(* What the rollback adds: what it read at first is what it found, its      *)
(* target is that once the defaults are in, and the device gets there.      *)
RestoredInv ==
  /\ AppliedInv /\ FoundRuns /\ DeviceKeepsSome
  /\ \A t \in Task : /\ ReadsFound(t) /\ TargetKeepsSome(t) /\ EmptyAtFirst(t)
                     /\ RollsTo(t) /\ Restored(t)

LEMMA NextRestoredInv ==
  ASSUME OneTask, NamedModules, RestoredInv, [Next]_vars
  PROVE  RestoredInv'
<1>1. AppliedInv'
  BY NextApplied DEF RestoredInv
<1>2. FoundRuns'
  BY NextFound DEF RestoredInv, AppliedInv
<1>3. DeviceKeepsSome'
  BY NextDeviceKeeps DEF RestoredInv, AppliedInv
<1>4. \A t \in Task : ReadsFound(t)'
  BY NextReadsFound DEF RestoredInv, AppliedInv
<1>5. \A t \in Task : TargetKeepsSome(t)'
  BY NextTargetKeeps DEF RestoredInv, AppliedInv
<1>6. \A t \in Task : EmptyAtFirst(t)'
  BY NextEmpty DEF RestoredInv, AppliedInv
<1>7. \A t \in Task : RollsTo(t)'
  BY NextRolls DEF RestoredInv, AppliedInv
<1>8. \A t \in Task : Restored(t)'
  BY NextRestored DEF RestoredInv, AppliedInv
<1> QED BY <1>1, <1>2, <1>3, <1>4, <1>5, <1>6, <1>7, <1>8 DEF RestoredInv

(* A task that says it was rolled back and ran alone leaves the device as   *)
(* it found it, wherever a handler failed, after any history of failures    *)
(* and restarts (restWorker.js, onboard).  Tasks run one at a time: with    *)
(* two at once a class can end empty that the original configuration has    *)
(* objects of, and the next rollback brings those back.  Classes without    *)
(* names that come with a module are left out, as their values go with it.  *)
THEOREM RollbackIsExact == OneTask /\ NamedModules => (Spec => []RollbackRestores)
<1> SUFFICES ASSUME OneTask, NamedModules
             PROVE  Spec => []RollbackRestores
  OBVIOUS
<1>1. Init => RestoredInv
  BY InitApplied, InitRollback DEF RestoredInv
<1>2. RestoredInv /\ [Next]_vars => RestoredInv'
  BY NextRestoredInv
<1>3. RestoredInv => RollbackRestores
  BY DEF RestoredInv, Restored, IsRestored, Excepted, RollbackRestores
<1> QED BY <1>1, <1>2, <1>3, PTL DEF Spec
=============================================================================
