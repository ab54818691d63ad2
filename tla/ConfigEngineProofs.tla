------------------------- MODULE ConfigEngineProofs -------------------------
(* Theorems about ConfigEngine: the state is well-typed, and the original   *)
(* configuration is recorded once and holds nothing a declaration made.     *)
EXTENDS ConfigEngine, TLAPS

-----------------------------------------------------------------------------
(* What the operators return *)

LEMMA EmptySection == Empty \in Section
BY DEF Empty, Section

LEMMA Constants ==
  /\ Missing \notin Section /\ Missing \notin BOOLEAN
  /\ NoConfig \notin Config /\ NoConfig \notin Original
BY EngineAssumption DEF EngineAssumption

LEMMA SetCommon ==
  ASSUME NEW d \in Config, NEW f \in [Class -> Section]
  PROVE  /\ [d EXCEPT !.common = f] \in Config
         /\ [d EXCEPT !.common = f].common = f
         /\ [d EXCEPT !.common = f].module = d.module
BY DEF Config

LEMMA MakeConfig ==
  ASSUME NEW f \in [Class -> Section], NEW b \in BOOLEAN
  PROVE  /\ [common |-> f, module |-> b] \in Config
         /\ [common |-> f, module |-> b].common = f
BY DEF Config

LEMMA MakeOriginal ==
  ASSUME NEW f \in [Class -> Section \cup {Missing}], NEW b \in BOOLEAN, NEW d \in Config
  PROVE  /\ [common |-> f, module |-> b, base |-> d] \in Original
         /\ [common |-> f, module |-> b, base |-> d].common = f
         /\ [common |-> f, module |-> b, base |-> d].base = d
BY DEF Original

LEMMA SetOriginal ==
  ASSUME NEW o \in Original, NEW f \in [Class -> Section \cup {Missing}]
  PROVE  /\ [o EXCEPT !.common = f] \in Original
         /\ [o EXCEPT !.common = f].common = f
         /\ [o EXCEPT !.common = f].base = o.base
BY DEF Original

LEMMA Fields ==
  /\ \A d \in Config : d.common \in [Class -> Section] /\ d.module \in BOOLEAN
  /\ \A o \in Original : /\ o.common \in [Class -> Section \cup {Missing}]
                         /\ o.module \in BOOLEAN /\ o.base \in Config
  /\ \A d \in Declaration : /\ d.common \in [Class -> Section]
                            /\ d.module \in BOOLEAN \cup {Missing}
BY DEF Config, Original, Declaration

LEMMA ReadingType ==
  ASSUME NEW t \in Task, device \in Config
  PROVE  /\ Reading(t) \in Config
         /\ \A c \in Class, i \in Item :
              /\ Reading(t).common[c][i] \in {device.common[c][i], None}
              /\ Kind[c] # "db" => Reading(t).common[c][i] = device.common[c][i]
              /\ Kind[c] = "db" /\ i \in OfInterest(t, c)
                   => Reading(t).common[c][i] = device.common[c][i]
  <1> DEFINE f == [c \in Class |-> [i \in Item |->
                     IF Kind[c] = "db" => i \in OfInterest(t, c) THEN device.common[c][i] ELSE None]]
  <1>1. f \in [Class -> Section]
    BY Fields DEF Section
  <1> HIDE DEF f
  <1>2. Reading(t) = [device EXCEPT !.common = f]
    BY DEF Reading, f
  <1>3. Reading(t) \in Config /\ Reading(t).common = f
    BY <1>1, <1>2, SetCommon
  <1> QED BY <1>3 DEF f

LEMMA FillInType ==
  ASSUME NEW s \in Section, NEW r \in Section
  PROVE  /\ FillIn(s, r) \in Section
         /\ \A i \in Item : FillIn(s, r)[i] = IF s[i] = None THEN r[i] ELSE s[i]
BY DEF FillIn, Section

LEMMA KnownType ==
  ASSUME TypeOK, NEW t \in Task, NEW r \in Config
  PROVE  Known(t, r) \in Original
  <1>1. CASE original # NoConfig
    BY <1>1 DEF Known, TypeOK
  <1>2. CASE original = NoConfig /\ taskOrig[t] # NoConfig
    BY <1>2 DEF Known, TypeOK
  <1>3. CASE original = NoConfig /\ taskOrig[t] = NoConfig
    <2>1. r.common \in [Class -> Section \cup {Missing}]
      BY Fields
    <2>2. r.module \in BOOLEAN /\ device \in Config
      BY Fields DEF TypeOK
    <2>3. [common |-> r.common, module |-> r.module, base |-> device] \in Original
      BY <2>1, <2>2, MakeOriginal
    <2> QED BY <1>3, <2>3 DEF Known
  <1> QED BY <1>1, <1>2, <1>3

(* What get leaves on record, class by class. *)
LEMMA RecordedType ==
  ASSUME TypeOK, NEW t \in Task, NEW r \in Config
  PROVE  /\ Recorded(t, r) \in Original
         /\ Recorded(t, r).base = Known(t, r).base
         /\ \A c \in Class :
              LET old == Known(t, r).common[c]
                  new == Recorded(t, r).common[c]
              IN /\ ~Available(c, r) => new = Missing
                 /\ Available(c, r) =>
                      /\ old = Missing => new = r.common[c]
                      /\ old # Missing /\ Kind[c] = "db" => new = FillIn(old, r.common[c])
                      /\ old # Missing /\ Kind[c] # "db" => new = old
  <1> DEFINE known == Known(t, r)
             f == [c \in Class |->
                     IF ~Available(c, r)               THEN Missing
                     ELSE IF known.common[c] = Missing THEN r.common[c]
                     ELSE IF Kind[c] = "db"            THEN FillIn(known.common[c], r.common[c])
                     ELSE known.common[c]]
  <1>1. known \in Original
    BY KnownType
  <1> HIDE DEF known
  <1>2. known.common \in [Class -> Section \cup {Missing}] /\ r.common \in [Class -> Section]
    BY <1>1, Fields
  <1>3. ASSUME NEW c \in Class
        PROVE  /\ ~Available(c, r) => f[c] = Missing
               /\ Available(c, r) =>
                    /\ known.common[c] = Missing => f[c] = r.common[c]
                    /\ known.common[c] # Missing /\ Kind[c] = "db"
                         => f[c] = FillIn(known.common[c], r.common[c])
                    /\ known.common[c] # Missing /\ Kind[c] # "db" => f[c] = known.common[c]
    BY <1>3, Zenon
  <1>4. f = [c \in Class |-> f[c]]
    OBVIOUS
  <1>5. Recorded(t, r) = [known EXCEPT !.common = f]
    BY DEF Recorded, known, f
  <1> HIDE DEF f
  <1>6. f \in [Class -> Section \cup {Missing}]
    <2> SUFFICES ASSUME NEW c \in Class PROVE f[c] \in Section \cup {Missing}
      BY <1>4
    <2>1. r.common[c] \in Section /\ known.common[c] \in Section \cup {Missing}
      BY <1>2
    <2>2. known.common[c] # Missing => FillIn(known.common[c], r.common[c]) \in Section
      BY <2>1, FillInType
    <2> QED BY <2>1, <2>2, <1>3
  <1>7. /\ Recorded(t, r) \in Original
        /\ Recorded(t, r).common = f
        /\ Recorded(t, r).base = known.base
    BY <1>1, <1>6, <1>5, SetOriginal
  <1> QED BY <1>3, <1>7 DEF known

LEMMA DefaultsType ==
  ASSUME NEW d \in Declaration \cup Config, NEW o \in Original
  PROVE  /\ ApplyDefaults(d, o) \in Config
         /\ \A c \in Class :
              ApplyDefaults(d, o).common[c] =
                IF d.common[c] # Empty THEN d.common[c]
                ELSE IF o.common[c] = Missing THEN Empty ELSE o.common[c]
  <1> DEFINE f == [c \in Class |-> IF d.common[c] # Empty THEN d.common[c]
                     ELSE IF o.common[c] = Missing THEN Empty ELSE o.common[c]]
             b == IF d.module = Missing THEN o.module ELSE d.module
  <1>1. d.common \in [Class -> Section] /\ d.module \in BOOLEAN \cup {Missing}
    BY Fields
  <1>2. o.common \in [Class -> Section \cup {Missing}] /\ o.module \in BOOLEAN
    BY Fields
  <1>3. f \in [Class -> Section]
    BY <1>1, <1>2, EmptySection
  <1>4. b \in BOOLEAN
    BY <1>1, <1>2, Zenon
  <1> HIDE DEF f, b
  <1>5. ApplyDefaults(d, o) = [common |-> f, module |-> b]
    BY DEF ApplyDefaults, f, b
  <1>6. ApplyDefaults(d, o) \in Config /\ ApplyDefaults(d, o).common = f
    BY <1>3, <1>4, <1>5, MakeConfig
  <1> QED BY <1>6 DEF f

LEMMA UnaliasedType ==
  ASSUME NEW t \in Task, NEW o \in Original
  PROVE  Unaliased(t, o) \in Original
  <1> DEFINE f == [c \in Class |-> IF o.common[c] = Empty THEN Missing ELSE o.common[c]]
  <1>1. f \in [Class -> Section \cup {Missing}]
    BY Fields
  <1> HIDE DEF f
  <1>2. [o EXCEPT !.common = f] \in Original
    BY <1>1, SetOriginal
  <1> QED BY <1>2 DEF Unaliased, f

-----------------------------------------------------------------------------
(* What the handlers leave on the device *)

LEMMA UpdatedType ==
  ASSUME NEW t \in Task, device \in Config, target[t] \in Config, NEW classes
  PROVE  /\ Updated(t, classes) \in Config
         /\ \A c \in Class, i \in Item :
              Updated(t, classes).common[c][i] =
                IF c \in classes /\ i \in ToUpdate(t, c) THEN target[t].common[c][i]
                                                         ELSE device.common[c][i]
  <1> DEFINE f == [c \in Class |-> [i \in Item |->
                     IF c \in classes /\ i \in ToUpdate(t, c) THEN target[t].common[c][i]
                                                             ELSE device.common[c][i]]]
  <1>1. f \in [Class -> Section]
    BY Fields DEF Section
  <1>2. /\ [device EXCEPT !.common = f] \in Config
        /\ [device EXCEPT !.common = f].common = f
    <2> HIDE DEF f
    <2> QED BY <1>1, SetCommon
  <1> QED BY <1>2 DEF Updated

LEMMA DeletedType ==
  ASSUME NEW t \in Task, device \in Config, NEW classes
  PROVE  /\ Deleted(t, classes) \in Config
         /\ \A c \in Class, i \in Item :
              Deleted(t, classes).common[c][i] =
                IF c \in classes /\ i \in ToDelete(t, c) THEN None ELSE device.common[c][i]
  <1> DEFINE f == [c \in Class |-> [i \in Item |->
                     IF c \in classes /\ i \in ToDelete(t, c) THEN None ELSE device.common[c][i]]]
  <1>1. f \in [Class -> Section]
    BY Fields DEF Section
  <1>2. /\ [device EXCEPT !.common = f] \in Config
        /\ [device EXCEPT !.common = f].common = f
    <2> HIDE DEF f
    <2> QED BY <1>1, SetCommon
  <1> QED BY <1>2 DEF Deleted

LEMMA ProvisionedType ==
  ASSUME device \in Config, NEW on \in BOOLEAN
  PROVE  /\ Provisioned(on) \in Config
         /\ \A c \in Class \ NeedsModule : Provisioned(on).common[c] = device.common[c]
  <1> DEFINE f == [c \in Class |-> IF c \in NeedsModule /\ ~on THEN Empty ELSE device.common[c]]
  <1>1. f \in [Class -> Section]
    BY Fields, EmptySection
  <1>2. f = [c \in Class |-> f[c]] /\ \A c \in Class \ NeedsModule : f[c] = device.common[c]
    OBVIOUS
  <1>3. Provisioned(on) = [common |-> f, module |-> on]
    BY DEF Provisioned
  <1> HIDE DEF f
  <1> QED BY <1>1, <1>2, <1>3, MakeConfig

LEMMA NextStageType ==
  ASSUME NEW t \in Task, stage[t] \in HandlerStage
  PROVE  NextStage(t) \in HandlerStage \cup {"verify", "post"}
  <1>1. CASE stage[t] = "system"
    BY <1>1, Zenon DEF NextStage, HandlerStage
  <1>2. CASE stage[t] = "provision"
    BY <1>2, Zenon DEF NextStage, HandlerStage
  <1>3. CASE stage[t] = "create"
    BY <1>3, Zenon DEF NextStage, HandlerStage
  <1>4. CASE stage[t] = "delete"
    BY <1>4, Zenon DEF NextStage, HandlerStage
  <1>5. CASE stage[t] = "deprovision"
    BY <1>5, Zenon DEF NextStage
  <1> QED BY <1>1, <1>2, <1>3, <1>4, <1>5 DEF HandlerStage

(* A handler leaves a configuration, and sets no database variable that     *)
(* its target does not have.                                                *)
LEMMA EffectType ==
  ASSUME NEW t \in Task, device \in Config, cur[t] \in Config, target[t] \in Config,
         stage[t] \in HandlerStage, NEW classes
  PROVE  /\ Effect(t, classes) \in Config
         /\ \A c \in Class, i \in Item : Kind[c] = "db" =>
              \/ Effect(t, classes).common[c][i] = device.common[c][i]
              \/ /\ i \in Present(target[t].common[c])
                 /\ Effect(t, classes).common[c][i] = target[t].common[c][i]
  <1> DEFINE Set(on) == IF target[t].module = cur[t].module \/ classes = {} THEN device
                                                                          ELSE Provisioned(on)
             Good(d) ==
               /\ d \in Config
               /\ \A c \in Class, i \in Item : Kind[c] = "db" =>
                    \/ d.common[c][i] = device.common[c][i]
                    \/ /\ i \in Present(target[t].common[c])
                       /\ d.common[c][i] = target[t].common[c][i]
  <1>1. \A K : Good(Updated(t, K))
    BY UpdatedType DEF ToUpdate, Present
  <1>2. \A K : Good(Deleted(t, K))
    <2>1. \A c \in Class : Kind[c] = "db" => ToDelete(t, c) = {}
      BY Zenon DEF ToDelete
    <2> QED BY <2>1, DeletedType
  <1>3. \A c \in Class : Kind[c] = "db" => c \notin NeedsModule
    BY EngineAssumption DEF EngineAssumption
  <1>4. \A on \in BOOLEAN : Good(Set(on))
    BY <1>3, ProvisionedType
  <1>5. cur[t].module \in BOOLEAN /\ target[t].module \in BOOLEAN
    BY Fields
  <1>6. (cur[t].module \/ target[t].module) \in BOOLEAN
    BY Zenon
  <1>7. Good(Set(cur[t].module \/ target[t].module)) /\ Good(Set(target[t].module))
    BY <1>4, <1>5, <1>6, Zenon
  <1>a. CASE stage[t] = "system"
    <2>1. Effect(t, classes) = Updated(t, classes \cap SystemClasses)
      BY <1>a, Zenon DEF Effect
    <2> QED BY <1>1, <2>1
  <1>b. CASE stage[t] = "create"
    <2>1. Effect(t, classes) = Updated(t, classes \ SystemClasses)
      BY <1>b, Zenon DEF Effect
    <2> QED BY <1>1, <2>1
  <1>c. CASE stage[t] = "delete"
    <2>1. Effect(t, classes) = Deleted(t, classes)
      BY <1>c, Zenon DEF Effect
    <2> QED BY <1>2, <2>1
  <1>d. CASE stage[t] = "provision"
    <2>1. Effect(t, classes) = Set(cur[t].module \/ target[t].module)
      BY <1>d, Zenon DEF Effect
    <2> QED BY <1>7, <2>1, Zenon
  <1>e. CASE stage[t] = "deprovision"
    <2>1. Effect(t, classes) = Set(target[t].module)
      BY <1>e, Zenon DEF Effect
    <2> QED BY <1>7, <2>1, Zenon
  <1> QED BY <1>a, <1>b, <1>c, <1>d, <1>e DEF HandlerStage

-----------------------------------------------------------------------------
(* Types *)

(* A task has a configuration once it has read one, and a target while its  *)
(* handlers run.                                                            *)
Shape ==
  \A t \in Task :
    /\ stage[t] = "idle" => cur[t] = NoConfig /\ taskOrig[t] = NoConfig
    /\ stage[t] # "idle" => decl[t] \in Declarations
    /\ stage[t] \in HandlerStage \cup {"rollbackRead"} => cur[t] \in Config
    /\ stage[t] \in HandlerStage => target[t] \in Config

TypeInv == TypeOK /\ Shape

LEMMA InitType == Init => TypeInv
  <1> SUFFICES ASSUME Init PROVE TypeInv
    OBVIOUS
  <1>1. device \in Config
    BY EngineAssumption DEF EngineAssumption, Init
  <1>2. alone \in [Task -> BOOLEAN] /\ rolling \in [Task -> BOOLEAN] /\ raced \in BOOLEAN
    BY Zenon DEF Init
  <1>3. TypeOK
    BY <1>1, <1>2 DEF Init, TypeOK, Stage, Result
  <1>4. Shape
    BY DEF Init, Shape, HandlerStage
  <1> QED BY <1>3, <1>4 DEF TypeInv

LEMMA GetType ==
  ASSUME TypeOK, NEW t \in Task, Get(t)
  PROVE  /\ original' \in Original
         /\ cur' \in [Task -> Config \cup {NoConfig}] /\ cur'[t] \in Config
         /\ taskOrig' \in [Task -> Original \cup {NoConfig}] /\ taskOrig'[t] = original'
         /\ \A u \in Task \ {t} : cur'[u] = cur[u] /\ taskOrig'[u] = taskOrig[u]
  <1>1. Reading(t) \in Config
    BY ReadingType DEF TypeOK
  <1>2. Recorded(t, Reading(t)) \in Original
    BY <1>1, RecordedType
  <1> QED BY <1>1, <1>2 DEF Get, TypeOK

LEMMA PostType ==
  ASSUME TypeInv, NEW t \in Task, NEW d \in Declarations, Post(t, d)
  PROVE  TypeInv'
  <1>1. d \in Declaration
    BY EngineAssumption DEF EngineAssumption
  <1>2. alone' \in [Task -> BOOLEAN]
    <2> DEFINE f == [u \in Task |-> IF u = t THEN Active = {} ELSE alone[u] /\ u \notin Active]
    <2>1. \A u \in Task : f[u] \in BOOLEAN
      BY Zenon
    <2>2. f \in [Task -> BOOLEAN]
      BY <2>1, Zenon
    <2> QED BY <2>2, Zenon DEF Post
  <1>3. TypeOK'
    BY <1>1, <1>2 DEF Post, TypeInv, TypeOK, Stage
  <1>4. Shape'
    BY DEF Post, TypeInv, TypeOK, Shape, HandlerStage
  <1> QED BY <1>3, <1>4 DEF TypeInv

LEMMA ReadStepType ==
  ASSUME TypeInv, NEW t \in Task, Read(t)
  PROVE  TypeInv'
  <1> DEFINE o == Recorded(t, Reading(t))
  <1>1. Reading(t) \in Config /\ o \in Original
    BY ReadingType, RecordedType DEF TypeInv, TypeOK
  <1>2. Unaliased(t, o) \in Original
    BY <1>1, UnaliasedType
  <1>3. decl[t] \in Declarations /\ decl[t] \in Declaration
    BY EngineAssumption DEF EngineAssumption, Read, TypeInv, Shape
  <1>4. ApplyDefaults(decl[t], o) \in Config
    BY <1>1, <1>3, DefaultsType
  <1>5. /\ cur' = [cur EXCEPT ![t] = Reading(t)]
        /\ original' = o
        /\ taskOrig' = [taskOrig EXCEPT ![t] = Unaliased(t, o)]
        /\ target' = [target EXCEPT ![t] = ApplyDefaults(decl[t], o)]
        /\ stage' = [stage EXCEPT ![t] = "system"]
        /\ UNCHANGED <<device, decl, rolling, result, recent, deletes, faults, histVars>>
    BY DEF Read
  <1> HIDE DEF o
  <1>6. TypeOK'
    BY <1>1, <1>2, <1>4, <1>5 DEF TypeInv, TypeOK, Stage, HandlerStage, histVars
  <1>7. Shape'
    BY <1>1, <1>3, <1>4, <1>5 DEF TypeInv, TypeOK, Shape, HandlerStage
  <1> QED BY <1>6, <1>7 DEF TypeInv

LEMMA RollbackReadType ==
  ASSUME TypeInv, NEW t \in Task, RollbackRead(t)
  PROVE  TypeInv'
  <1>1. TypeOK /\ Get(t) /\ stage[t] = "rollbackRead" /\ cur[t] \in Config
    BY DEF RollbackRead, TypeInv, Shape
  <1>2. /\ original' \in Original
        /\ cur' \in [Task -> Config \cup {NoConfig}] /\ cur'[t] \in Config
        /\ taskOrig' \in [Task -> Original \cup {NoConfig}] /\ taskOrig'[t] = original'
        /\ \A u \in Task \ {t} : cur'[u] = cur[u] /\ taskOrig'[u] = taskOrig[u]
    BY <1>1, GetType
  <1>3. ApplyDefaults(cur[t], taskOrig'[t]) \in Config
    BY <1>1, <1>2, DefaultsType
  <1>4. /\ target' = [target EXCEPT ![t] = ApplyDefaults(cur[t], taskOrig'[t])]
        /\ stage' = [stage EXCEPT ![t] = "system"]
        /\ rolling' = [rolling EXCEPT ![t] = TRUE]
        /\ UNCHANGED <<device, decl, result, recent, deletes, faults, histVars>>
    BY DEF RollbackRead
  <1>5. TypeOK'
    BY <1>2, <1>3, <1>4 DEF TypeInv, TypeOK, Stage, HandlerStage, histVars
  <1>6. Shape'
    BY <1>1, <1>2, <1>3, <1>4 DEF TypeInv, TypeOK, Shape, HandlerStage
  <1> QED BY <1>5, <1>6 DEF TypeInv

LEMMA HandlerType ==
  ASSUME TypeInv, NEW t \in Task, Handle(t) \/ HandlerFails(t)
  PROVE  TypeInv'
  <1>1. /\ TypeOK /\ device \in Config /\ cur[t] \in Config /\ target[t] \in Config
        /\ stage[t] \in HandlerStage
    BY DEF Handle, HandlerFails, TypeInv, TypeOK, Shape
  <1>2. \A K : Effect(t, K) \in Config
    BY <1>1, EffectType
  <1>3. CASE Handle(t)
    <2>1. NextStage(t) \in HandlerStage \cup {"verify", "post"}
      BY <1>1, NextStageType
    <2>2. TypeOK'
      BY <1>2, <1>3, <2>1 DEF Handle, TypeInv, TypeOK, Stage, histVars
    <2>3. Shape'
      BY <1>1, <1>3, <2>1 DEF Handle, TypeInv, TypeOK, Shape, HandlerStage
    <2> QED BY <2>2, <2>3 DEF TypeInv
  <1>4. CASE HandlerFails(t)
    <2>1. device' \in Config
      BY <1>2, <1>4 DEF HandlerFails
    <2>2. faults' \in Nat
      BY <1>4 DEF HandlerFails, TypeInv, TypeOK
    <2>3. /\ stage' \in [Task -> Stage] /\ result' \in [Task -> Result]
          /\ stage'[t] \in {"post", "rollbackRead"}
          /\ \A u \in Task \ {t} : stage'[u] = stage[u]
      BY <1>4 DEF HandlerFails, TypeInv, TypeOK, Stage, Result
    <2>4. UNCHANGED <<original, decl, cur, taskOrig, target, rolling, recent, deletes, histVars>>
      BY <1>4 DEF HandlerFails
    <2>5. TypeOK'
      BY <2>1, <2>2, <2>3, <2>4 DEF TypeInv, TypeOK, histVars
    <2>6. Shape'
      BY <1>1, <2>3, <2>4 DEF TypeInv, TypeOK, Shape, HandlerStage
    <2> QED BY <2>5, <2>6 DEF TypeInv
  <1> QED BY <1>3, <1>4

LEMMA OtherStepType ==
  ASSUME TypeInv,
         \/ \E t \in Task : ReadFails(t) \/ Verify(t) \/ Finish(t)
         \/ Delete \/ Restart \/ UNCHANGED vars
  PROVE  TypeInv'
  <1>1. ASSUME NEW t \in Task, ReadFails(t) PROVE TypeInv'
    <2>1. TypeOK'
      BY <1>1 DEF ReadFails, TypeInv, TypeOK, Stage, Result
    <2>2. Shape'
      BY <1>1 DEF ReadFails, TypeInv, TypeOK, Shape, HandlerStage
    <2> QED BY <2>1, <2>2 DEF TypeInv
  <1>2. ASSUME NEW t \in Task, Verify(t) \/ Finish(t) PROVE TypeInv'
    <2>1. /\ original' \in Original
          /\ cur' \in [Task -> Config \cup {NoConfig}] /\ cur'[t] \in Config
          /\ taskOrig' \in [Task -> Original \cup {NoConfig}]
          /\ \A u \in Task \ {t} : cur'[u] = cur[u] /\ taskOrig'[u] = taskOrig[u]
      BY <1>2, GetType DEF Verify, Finish, TypeInv
    <2>2. /\ stage' \in [Task -> Stage] /\ stage'[t] \in {"post", "done"}
          /\ \A u \in Task \ {t} : stage'[u] = stage[u]
          /\ result' \in [Task -> Result]
          /\ last' \in Task \cup {NoTask} /\ stage[t] # "idle"
      BY <1>2 DEF Verify, Finish, TypeInv, TypeOK, Stage, Result, histVars
    <2>3. UNCHANGED <<device, decl, target, rolling, recent, deletes, faults, found, alone, prev,
                      raced>>
      BY <1>2 DEF Verify, Finish, histVars
    <2>4. TypeOK'
      BY <2>1, <2>2, <2>3 DEF TypeInv, TypeOK
    <2>5. Shape'
      BY <2>1, <2>2, <2>3 DEF TypeInv, TypeOK, Shape, HandlerStage
    <2> QED BY <2>4, <2>5 DEF TypeInv
  <1>3. CASE Delete
    <2>1. raced' \in BOOLEAN
      BY <1>3, Zenon DEF Delete
    <2>2. TypeOK'
      BY <1>3, <2>1 DEF Delete, taskVars, TypeInv, TypeOK
    <2>3. Shape'
      BY <1>3 DEF Delete, taskVars, TypeInv, Shape
    <2> QED BY <2>2, <2>3 DEF TypeInv
  <1>4. CASE Restart
    <2>1. alone' \in [Task -> BOOLEAN]
      <3> DEFINE f == [t \in Task |-> alone[t] /\ t \notin Active]
      <3>1. \A u \in Task : f[u] \in BOOLEAN
        BY Zenon
      <3>2. f \in [Task -> BOOLEAN]
        BY <3>1, Zenon
      <3> QED BY <1>4, <3>2, Zenon DEF Restart
    <2>2. TypeOK'
      BY <1>4, <2>1 DEF Restart, TypeInv, TypeOK, Stage
    <2>3. Shape'
      BY <1>4 DEF Restart, TypeInv, TypeOK, Shape, Active, HandlerStage
    <2> QED BY <2>2, <2>3 DEF TypeInv
  <1>5. CASE UNCHANGED vars
    <2>1. TypeOK'
      BY <1>5 DEF vars, taskVars, histVars, TypeInv, TypeOK
    <2>2. Shape'
      BY <1>5 DEF vars, taskVars, histVars, TypeInv, Shape
    <2> QED BY <2>1, <2>2 DEF TypeInv
  <1> QED BY <1>1, <1>2, <1>3, <1>4, <1>5

LEMMA StepType == TypeInv /\ [Next]_vars => TypeInv'
BY PostType, ReadStepType, RollbackReadType, HandlerType, OtherStepType DEF Next

(* Every state is well-typed: a task is past its reading only with a        *)
(* configuration, and what a handler leaves is a configuration.             *)
THEOREM TypeCorrect == Spec => []TypeInv
BY InitType, StepType, PTL DEF Spec

(* What getAndSaveCurrentConfig, process and the handlers leave behind is   *)
(* well-typed in every state, as the runs check on small instances: no      *)
(* task has a handler without a configuration to compare with.              *)
THEOREM TypesHold == Spec => []TypeOK
<1>1. TypeInv => TypeOK
  BY DEF TypeInv
<1> QED BY <1>1, TypeCorrect, PTL

-----------------------------------------------------------------------------
(* The record of the original configuration *)

(* What get records when a configuration is on record already.              *)
LEMMA KeptByGet ==
  ASSUME TypeInv, NEW t \in Task, original # NoConfig
  PROVE  LET o == Recorded(t, Reading(t))
         IN /\ o.base = original.base
            /\ \A c \in Class \ NeedsModule :
                 /\ original.common[c] # Missing =>
                      /\ o.common[c] # Missing
                      /\ \A i \in Item : original.common[c][i] # None =>
                           o.common[c][i] = original.common[c][i]
                      /\ Kind[c] # "db" => o.common[c] = original.common[c]
                      /\ Kind[c] = "db" => \A i \in Item : original.common[c][i] = None =>
                           o.common[c][i] = Reading(t).common[c][i]
                 /\ original.common[c] = Missing => o.common[c] = Reading(t).common[c]
  <1> DEFINE r == Reading(t)
             o == Recorded(t, r)
  <1>1. r \in Config
    BY ReadingType DEF TypeInv, TypeOK
  <1>2. Known(t, r) = original /\ original \in Original
    BY DEF Known, TypeInv, TypeOK
  <1> HIDE DEF r
  <1>3. /\ o.base = original.base
        /\ \A c \in Class :
             /\ ~Available(c, r) => o.common[c] = Missing
             /\ Available(c, r) =>
                  /\ original.common[c] = Missing => o.common[c] = r.common[c]
                  /\ original.common[c] # Missing /\ Kind[c] = "db"
                       => o.common[c] = FillIn(original.common[c], r.common[c])
                  /\ original.common[c] # Missing /\ Kind[c] # "db"
                       => o.common[c] = original.common[c]
    BY <1>1, <1>2, RecordedType DEF TypeInv
  <1> HIDE DEF o
  <1>4. \A c \in Class : r.common[c] \in Section
                       /\ original.common[c] \in Section \cup {Missing}
    BY <1>1, <1>2, Fields
  <1>5. ASSUME NEW c \in Class \ NeedsModule, original.common[c] # Missing
        PROVE  /\ o.common[c] # Missing
               /\ \A i \in Item : original.common[c][i] # None =>
                    o.common[c][i] = original.common[c][i]
               /\ Kind[c] # "db" => o.common[c] = original.common[c]
               /\ Kind[c] = "db" => \A i \in Item : original.common[c][i] = None =>
                    o.common[c][i] = r.common[c][i]
    <2>1. Available(c, r)
      BY DEF Available
    <2>2. CASE Kind[c] = "db"
      <3>1. o.common[c] = FillIn(original.common[c], r.common[c])
        BY <1>3, <1>5, <2>1, <2>2
      <3>2. original.common[c] \in Section /\ r.common[c] \in Section
        BY <1>4, <1>5
      <3> QED BY <2>2, <3>1, <3>2, FillInType, Constants
    <2>3. CASE Kind[c] # "db"
      BY <1>3, <1>5, <2>1, <2>3
    <2> QED BY <2>2, <2>3
  <1>6. ASSUME NEW c \in Class \ NeedsModule, original.common[c] = Missing
        PROVE  o.common[c] = r.common[c]
    BY <1>3, <1>6 DEF Available
  <1> QED BY <1>3, <1>5, <1>6 DEF o, r

(* A step leaves the record alone, records what get does, or is a DELETE.   *)
LEMMA RecordSteps ==
  ASSUME Next
  PROVE  \/ original' = original
         \/ original' = NoConfig
         \/ \E t \in Task : original' = Recorded(t, Reading(t))
BY DEF Next, Post, Read, RollbackRead, Handle, HandlerFails, ReadFails, Verify, Finish, Delete,
       Restart, Get

(* The original configuration on record is not replaced, and no value in it *)
(* changes, until a DELETE (configManager.js, get).                         *)
THEOREM RecordIsKept == Spec => OriginalIsKept
<1>1. TypeInv /\ [Next]_vars =>
        [original # NoConfig /\ original' # NoConfig =>
           /\ original'.base = original.base
           /\ \A c \in Class \ NeedsModule : original.common[c] # Missing =>
                /\ original'.common[c] # Missing
                /\ \A i \in Present(original.common[c]) :
                     original'.common[c][i] = original.common[c][i]]_vars
  <2> SUFFICES ASSUME TypeInv, Next, original # NoConfig, original' # NoConfig
               PROVE  /\ original'.base = original.base
                      /\ \A c \in Class \ NeedsModule : original.common[c] # Missing =>
                           /\ original'.common[c] # Missing
                           /\ \A i \in Present(original.common[c]) :
                                original'.common[c][i] = original.common[c][i]
    OBVIOUS
  <2>1. CASE original' = original
    BY <2>1
  <2>2. ASSUME NEW t \in Task, original' = Recorded(t, Reading(t))
        PROVE  /\ original'.base = original.base
               /\ \A c \in Class \ NeedsModule : original.common[c] # Missing =>
                    /\ original'.common[c] # Missing
                    /\ \A i \in Present(original.common[c]) :
                         original'.common[c][i] = original.common[c][i]
    BY <2>2, KeptByGet DEF Present
  <2> QED BY <2>1, <2>2, RecordSteps
<1> QED BY <1>1, TypeCorrect, PTL DEF Spec, OriginalIsKept

-----------------------------------------------------------------------------
(* The record holds nothing that a declaration brought about *)

(* No variable a declaration sets is missing on the device.                 *)
HasVariables ==
  \A c \in Class, d \in Declarations, i \in Item :
    Kind[c] = "db" /\ device.common[c][i] = None => d.common[c][i] = None

(* What is on record is what the device had, and a variable that is not on  *)
(* record has not changed since.                                            *)
Faithful(o) ==
  \A c \in Class \ NeedsModule :
    /\ o.common[c] # Missing
    /\ \A i \in Item :
         /\ o.common[c][i] # None => o.common[c][i] = o.base.common[c][i]
         /\ Kind[c] = "db" /\ o.common[c][i] = None
              => device.common[c][i] = o.base.common[c][i]

(* The variables of a configuration are on record.                          *)
OnRecord(config) ==
  \A c \in Class, i \in Item :
    Kind[c] = "db" /\ config.common[c][i] # None => original.common[c][i] # None

(* There is a record once a running task has read the device, and it has    *)
(* the variables the task has read and those it sets.                       *)
TaskOnRecord(t) ==
  /\ cur[t] # NoConfig \/ taskOrig[t] # NoConfig => original # NoConfig
  /\ cur[t] # NoConfig => OnRecord(cur[t])
  /\ stage[t] \in HandlerStage => OnRecord(target[t])

RecordInv ==
  /\ HasVariables
  /\ ~raced => /\ original # NoConfig => Faithful(original)
               /\ \A t \in Active : TaskOnRecord(t)

LEMMA Variables == \A c \in Class : Kind[c] = "db" => c \in Class \ NeedsModule
BY EngineAssumption DEF EngineAssumption

LEMMA InitRecord == Init => RecordInv
  <1> SUFFICES ASSUME Init PROVE RecordInv
    OBVIOUS
  <1>1. HasVariables
    BY EngineAssumption DEF EngineAssumption, Init, HasVariables
  <1>2. Active = {}
    BY DEF Init, Active
  <1> QED BY <1>1, <1>2 DEF RecordInv, Init

(* What get records is faithful, has everything that was on record, and the *)
(* variables that were read.                                                *)
LEMMA GetIsFaithful ==
  ASSUME TypeInv, RecordInv, ~raced, NEW t \in Active
  PROVE  LET o == Recorded(t, Reading(t))
         IN /\ o # NoConfig
            /\ Faithful(o)
            /\ \A c \in Class, i \in Item : Kind[c] = "db" =>
                 /\ Reading(t).common[c][i] # None => o.common[c][i] # None
                 /\ original # NoConfig /\ original.common[c][i] # None
                      => o.common[c][i] # None
  <1> DEFINE r == Reading(t)
             o == Recorded(t, r)
  <1>0. t \in Task
    BY DEF Active
  <1>1. /\ r \in Config /\ o \in Original /\ o.base = Known(t, r).base
        /\ \A c \in Class, i \in Item :
             /\ r.common[c][i] \in {device.common[c][i], None}
             /\ Kind[c] # "db" => r.common[c][i] = device.common[c][i]
    BY <1>0, ReadingType, RecordedType DEF TypeInv, TypeOK
  <1>2. o # NoConfig
    BY <1>1, Constants
  <1>3. CASE original # NoConfig
    <2>1. /\ o.base = original.base
          /\ \A c \in Class \ NeedsModule :
               /\ original.common[c] # Missing =>
                    /\ o.common[c] # Missing
                    /\ \A i \in Item : original.common[c][i] # None =>
                         o.common[c][i] = original.common[c][i]
                    /\ Kind[c] # "db" => o.common[c] = original.common[c]
                    /\ Kind[c] = "db" => \A i \in Item : original.common[c][i] = None =>
                         o.common[c][i] = r.common[c][i]
      BY <1>0, <1>3, KeptByGet
    <2>2. Faithful(original)
      BY <1>3 DEF RecordInv
    <2> HIDE DEF o, r
    <2>3. Faithful(o)
      BY <1>1, <2>1, <2>2 DEF Faithful
    <2>4. \A c \in Class, i \in Item : Kind[c] = "db" =>
            /\ r.common[c][i] # None => o.common[c][i] # None
            /\ original.common[c][i] # None => o.common[c][i] # None
      BY <2>1, <2>2, Variables DEF Faithful
    <2> QED BY <1>2, <2>3, <2>4 DEF o, r
  <1>4. CASE original = NoConfig
    <2>1. taskOrig[t] = NoConfig
      BY <1>4 DEF RecordInv, TaskOnRecord
    <2>2. Known(t, r) = [common |-> r.common, module |-> r.module, base |-> device]
      BY <1>4, <2>1 DEF Known
    <2>3. /\ r.common \in [Class -> Section] /\ r.module \in BOOLEAN /\ device \in Config
      BY <1>1, Fields DEF TypeInv, TypeOK
    <2>4. /\ Known(t, r).common = r.common
          /\ Known(t, r).base = device
      <3>1. r.common \in [Class -> Section \cup {Missing}]
        BY <2>3
      <3> DEFINE f == r.common
                 b == r.module
      <3>2. f \in [Class -> Section \cup {Missing}] /\ b \in BOOLEAN
        BY <2>3, <3>1
      <3>3. Known(t, r) = [common |-> f, module |-> b, base |-> device]
        BY <2>2
      <3> HIDE DEF f, b
      <3>4. Known(t, r).common = f /\ Known(t, r).base = device
        BY <2>3, <3>2, <3>3, MakeOriginal
      <3> QED BY <3>4 DEF f
    <2>5. \A c \in Class \ NeedsModule : o.common[c] \in {r.common[c], FillIn(r.common[c], r.common[c])}
      BY <1>0, <1>1, <2>4, RecordedType DEF TypeInv, Available
    <2>6. \A s \in Section : FillIn(s, s) = s
      BY DEF FillIn, Section
    <2> HIDE DEF o, r
    <2>7. \A c \in Class \ NeedsModule : o.common[c] = r.common[c] /\ r.common[c] \in Section
      BY <2>3, <2>5, <2>6
    <2>8. Faithful(o)
      BY <1>1, <2>4, <2>7, Constants DEF Faithful
    <2> QED BY <1>2, <1>4, <2>7, <2>8, Variables DEF o, r
  <1> QED BY <1>3, <1>4

(* A get by a running task, in whatever action it is, keeps the invariant.  *)
LEMMA GetRecord ==
  ASSUME TypeInv, RecordInv, NEW t \in Active,
         original' = Recorded(t, Reading(t)),
         cur' = [cur EXCEPT ![t] = Reading(t)],
         device' = device, raced' = raced,
         Active' \subseteq Active,
         \A u \in Task \ {t} : /\ stage'[u] = stage[u]
                               /\ target'[u] = target[u]
                               /\ taskOrig'[u] = taskOrig[u],
         ~raced => (stage'[t] \in HandlerStage => OnRecord(target[t])')
  PROVE  RecordInv'
  <1>1. HasVariables'
    BY DEF RecordInv, HasVariables
  <1> SUFFICES ASSUME ~raced
               PROVE  Faithful(original)' /\ \A u \in Active' : TaskOnRecord(u)'
    BY <1>1 DEF RecordInv
  <1>2. /\ original' # NoConfig
        /\ Faithful(original')
        /\ \A c \in Class, i \in Item : Kind[c] = "db" =>
             /\ Reading(t).common[c][i] # None => original'.common[c][i] # None
             /\ original # NoConfig /\ original.common[c][i] # None
                  => original'.common[c][i] # None
    BY GetIsFaithful
  <1>3. Faithful(original)'
    BY <1>2 DEF Faithful
  <1>4. cur'[t] = Reading(t) /\ \A u \in Task \ {t} : cur'[u] = cur[u]
    BY DEF TypeInv, TypeOK, Active
  <1>5. TaskOnRecord(t)'
    BY <1>2, <1>4 DEF TaskOnRecord, OnRecord
  <1>6. ASSUME NEW u \in Active', u # t
        PROVE  TaskOnRecord(u)'
    <2>1. TaskOnRecord(u) /\ u \in Task \ {t}
      BY <1>6 DEF RecordInv, Active
    <2>2. stage[u] \in HandlerStage => cur[u] # NoConfig
      BY <2>1, Constants DEF TypeInv, Shape
    <2> QED BY <1>2, <1>4, <2>1, <2>2 DEF TaskOnRecord, OnRecord
  <1> QED BY <1>3, <1>5, <1>6

LEMMA ReadRecord ==
  ASSUME TypeInv, RecordInv, NEW t \in Task, Read(t)
  PROVE  RecordInv'
  <1> DEFINE o == Recorded(t, Reading(t))
  <1>1. /\ original' = o
        /\ cur' = [cur EXCEPT ![t] = Reading(t)]
        /\ device' = device /\ raced' = raced
        /\ t \in Active /\ Active' \subseteq Active
        /\ \A u \in Task \ {t} : /\ stage'[u] = stage[u] /\ target'[u] = target[u]
                                 /\ taskOrig'[u] = taskOrig[u]
        /\ target'[t] = ApplyDefaults(decl[t], o)
    BY DEF Read, histVars, Active, TypeInv, TypeOK
  <1>2. ASSUME ~raced PROVE OnRecord(target[t])'
    <2>1. decl[t] \in Declarations /\ decl[t] \in Declaration
      BY EngineAssumption DEF EngineAssumption, Read, TypeInv, Shape
    <2>2. o \in Original
      BY ReadingType, RecordedType DEF TypeInv, TypeOK
    <2>3. \A c \in Class : target'[t].common[c] =
            IF decl[t].common[c] # Empty THEN decl[t].common[c]
            ELSE IF o.common[c] = Missing THEN Empty ELSE o.common[c]
      BY <1>1, <2>1, <2>2, DefaultsType
    <2>4. \A c \in Class, i \in Item : Kind[c] = "db" /\ Reading(t).common[c][i] # None
             => o.common[c][i] # None
      BY <1>1, <1>2, GetIsFaithful
    <2>5. ASSUME NEW c \in Class, NEW i \in Item, Kind[c] = "db", decl[t].common[c][i] # None
          PROVE  o.common[c][i] # None
      <3>1. device.common[c][i] # None
        BY <2>1, <2>5 DEF RecordInv, HasVariables
      <3>2. i \in OfInterest(t, c)
        BY <2>5 DEF OfInterest, Present
      <3>3. Reading(t).common[c][i] = device.common[c][i]
        BY <2>5, <3>2, ReadingType DEF TypeInv, TypeOK
      <3> QED BY <2>4, <2>5, <3>1, <3>3
    <2> HIDE DEF o
    <2> QED BY <1>1, <2>3, <2>5 DEF OnRecord, Empty
  <1> QED BY <1>1, <1>2, GetRecord

LEMMA RollbackReadRecord ==
  ASSUME TypeInv, RecordInv, NEW t \in Task, RollbackRead(t)
  PROVE  RecordInv'
  <1> DEFINE o == Recorded(t, Reading(t))
  <1>1. /\ original' = o
        /\ cur' = [cur EXCEPT ![t] = Reading(t)]
        /\ device' = device /\ raced' = raced
        /\ t \in Active /\ Active' \subseteq Active
        /\ \A u \in Task \ {t} : /\ stage'[u] = stage[u] /\ target'[u] = target[u]
                                 /\ taskOrig'[u] = taskOrig[u]
        /\ target'[t] = ApplyDefaults(cur[t], o)
    BY DEF RollbackRead, Get, histVars, Active, TypeInv, TypeOK
  <1>2. ASSUME ~raced PROVE OnRecord(target[t])'
    <2>1. cur[t] \in Config /\ cur[t] # NoConfig
      BY Constants DEF RollbackRead, TypeInv, Shape
    <2>2. o \in Original
      BY ReadingType, RecordedType DEF TypeInv, TypeOK
    <2>3. \A c \in Class : target'[t].common[c] =
            IF cur[t].common[c] # Empty THEN cur[t].common[c]
            ELSE IF o.common[c] = Missing THEN Empty ELSE o.common[c]
      BY <1>1, <2>1, <2>2, DefaultsType
    <2>4. \A c \in Class, i \in Item :
            Kind[c] = "db" /\ original # NoConfig /\ original.common[c][i] # None
              => o.common[c][i] # None
      BY <1>1, <1>2, GetIsFaithful
    <2>5. original # NoConfig /\ OnRecord(cur[t])
      BY <1>1, <1>2, <2>1 DEF RecordInv, TaskOnRecord
    <2>6. \A c \in Class, i \in Item : Kind[c] = "db" /\ cur[t].common[c][i] # None
             => o.common[c][i] # None
      BY <2>4, <2>5 DEF OnRecord
    <2> HIDE DEF o
    <2> QED BY <1>1, <2>3, <2>6 DEF OnRecord, Empty
  <1> QED BY <1>1, <1>2, GetRecord

LEMMA HandlerRecord ==
  ASSUME TypeInv, RecordInv, NEW t \in Task, Handle(t) \/ HandlerFails(t)
  PROVE  RecordInv'
  <1>1. /\ device \in Config /\ cur[t] \in Config /\ target[t] \in Config
        /\ stage[t] \in HandlerStage /\ t \in Active
    BY DEF Handle, HandlerFails, TypeInv, TypeOK, Shape, Active, HandlerStage
  <1>2. /\ UNCHANGED <<original, cur, taskOrig, target, raced>>
        /\ \E K : device' = Effect(t, K)
        /\ Active' \subseteq Active
        /\ \A u \in Task \ {t} : stage'[u] = stage[u]
    <2>1. CASE Handle(t)
      BY <1>1, <2>1 DEF Handle, histVars, TypeInv, TypeOK, Active
    <2>2. CASE HandlerFails(t)
      <3>1. \E K : device' = Effect(t, K)
        BY <2>2 DEF HandlerFails
      <3>2. UNCHANGED <<original, cur, taskOrig, target, raced>>
        BY <2>2 DEF HandlerFails, histVars
      <3>3. \A u \in Task \ {t} : stage'[u] = stage[u]
        BY <2>2 DEF HandlerFails, TypeInv, TypeOK
      <3> QED BY <1>1, <3>1, <3>2, <3>3 DEF Active
    <2> QED BY <2>1, <2>2
  <1>3. \A c \in Class, i \in Item : Kind[c] = "db" =>
          \/ device'.common[c][i] = device.common[c][i]
          \/ target[t].common[c][i] # None /\ device'.common[c][i] = target[t].common[c][i]
    BY <1>1, <1>2, EffectType DEF Present
  <1>4. HasVariables'
    BY <1>3 DEF RecordInv, HasVariables
  <1> SUFFICES ASSUME ~raced
               PROVE  /\ original # NoConfig => Faithful(original)'
                      /\ \A u \in Active' : TaskOnRecord(u)'
    BY <1>2, <1>4 DEF RecordInv
  <1>5. original # NoConfig /\ OnRecord(target[t]) /\ Faithful(original)
    BY <1>1, Constants DEF RecordInv, TaskOnRecord
  <1>6. Faithful(original)'
    BY <1>2, <1>3, <1>5 DEF Faithful, OnRecord
  <1>7. \A u \in Active' : TaskOnRecord(u)'
    <2> SUFFICES ASSUME NEW u \in Active' PROVE TaskOnRecord(u)'
      OBVIOUS
    <2>1. u \in Active /\ u \in Task /\ TaskOnRecord(u)
      BY <1>2 DEF RecordInv, Active
    <2>2. stage'[u] \in HandlerStage => u = t \/ stage[u] \in HandlerStage
      BY <1>2, <2>1
    <2> QED BY <1>1, <1>2, <2>1, <2>2 DEF TaskOnRecord, OnRecord
  <1> QED BY <1>6, <1>7

LEMMA OtherRecord ==
  ASSUME TypeInv, RecordInv,
         \/ \E t \in Task, d \in Declarations : Post(t, d)
         \/ \E t \in Task : ReadFails(t) \/ Verify(t) \/ Finish(t)
         \/ Delete \/ Restart \/ UNCHANGED vars
  PROVE  RecordInv'
  <1>1. ASSUME NEW t \in Task, NEW d \in Declarations, Post(t, d) PROVE RecordInv'
    <2>1. /\ UNCHANGED <<device, original, cur, taskOrig, target, raced>>
          /\ stage'[t] = "read" /\ \A u \in Task \ {t} : stage'[u] = stage[u]
          /\ cur[t] = NoConfig /\ taskOrig[t] = NoConfig
      BY <1>1 DEF Post, TypeInv, TypeOK, Shape
    <2>2. TaskOnRecord(t)'
      BY <2>1 DEF TaskOnRecord, HandlerStage
    <2>3. \A u \in Active' : TaskOnRecord(u)' \/ raced
      BY <2>1, <2>2 DEF RecordInv, TaskOnRecord, OnRecord, Active
    <2> QED BY <2>1, <2>3 DEF RecordInv, HasVariables, Faithful
  <1>2. ASSUME NEW t \in Task, ReadFails(t) PROVE RecordInv'
    <2>1. /\ UNCHANGED <<device, original, cur, taskOrig, target, raced>>
          /\ stage'[t] \in {"done", "post"} /\ \A u \in Task \ {t} : stage'[u] = stage[u]
          /\ t \in Active /\ Active' \subseteq Active
      BY <1>2 DEF ReadFails, TypeInv, TypeOK, Active
    <2>2. \A u \in Active' : TaskOnRecord(u)' \/ raced
      BY <2>1 DEF RecordInv, TaskOnRecord, OnRecord, Active, HandlerStage
    <2> QED BY <2>1, <2>2 DEF RecordInv, HasVariables, Faithful
  <1>3. ASSUME NEW t \in Task, Verify(t) \/ Finish(t) PROVE RecordInv'
    <2>1. /\ original' = Recorded(t, Reading(t))
          /\ cur' = [cur EXCEPT ![t] = Reading(t)]
          /\ device' = device /\ raced' = raced
          /\ t \in Active /\ Active' \subseteq Active
          /\ \A u \in Task \ {t} : /\ stage'[u] = stage[u] /\ target'[u] = target[u]
                                   /\ taskOrig'[u] = taskOrig[u]
          /\ stage'[t] \in {"post", "done"}
      BY <1>3 DEF Verify, Finish, Get, histVars, Active, TypeInv, TypeOK
    <2> QED BY <2>1, GetRecord DEF HandlerStage
  <1>4. CASE Delete
    <2>1. /\ device' = device /\ original' = NoConfig /\ Active' = Active
          /\ ~raced' => ~raced /\ Active = {}
      BY <1>4 DEF Delete, taskVars, Active
    <2> QED BY <2>1 DEF RecordInv, HasVariables
  <1>5. CASE Restart
    <2>1. /\ UNCHANGED <<device, original, cur, taskOrig, target, raced>>
          /\ Active' \subseteq Active
          /\ \A u \in Active' : stage'[u] \notin HandlerStage
      BY <1>5 DEF Restart, TypeInv, TypeOK, Active, HandlerStage
    <2>2. \A u \in Active' : TaskOnRecord(u)' \/ raced
      BY <2>1 DEF RecordInv, TaskOnRecord, OnRecord
    <2> QED BY <2>1, <2>2 DEF RecordInv, HasVariables, Faithful
  <1>6. CASE UNCHANGED vars
    BY <1>6 DEF vars, taskVars, histVars, RecordInv, HasVariables, Faithful, TaskOnRecord,
                OnRecord, Active
  <1> QED BY <1>1, <1>2, <1>3, <1>4, <1>5, <1>6

LEMMA StepRecord == TypeInv /\ RecordInv /\ [Next]_vars => RecordInv'
BY ReadRecord, RollbackReadRecord, HandlerRecord, OtherRecord DEF Next

(* No value in the original configuration was brought about by a            *)
(* declaration, whatever tasks fail, restart or run beside each other,      *)
(* unless a DELETE came while one was running (configManager.js, get).      *)
THEOREM RecordIsFaithful == Spec => []OriginalIsNotOurs
<1>1. RecordInv => OriginalIsNotOurs
  BY DEF RecordInv, OriginalIsNotOurs, Faithful, Present
<1>2. Init => TypeInv /\ RecordInv
  BY InitType, InitRecord
<1>3. TypeInv /\ RecordInv /\ [Next]_vars => (TypeInv /\ RecordInv)'
  BY StepType, StepRecord
<1> QED BY <1>1, <1>2, <1>3, PTL DEF Spec

=============================================================================
