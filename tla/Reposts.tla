------------------------------ MODULE Reposts ------------------------------
(***************************************************************************)
(* One declaration after another, and the same one again: what the         *)
(* declaration handler makes of each before it looks for differences       *)
(* (src/lib/declarationHandler.js, process), and what the handlers then    *)
(* leave on the device (restWorker.js, onboard).  ConfigEngine has the     *)
(* defaults, the differences and the order of the handlers for configura-  *)
(* tions in general; here it is one class at a time, in the detail in      *)
(* which the fixes tell configurations apart, so that a declaration and    *)
(* its own effect look the same.  A behaviour is about one family of       *)
(* classes, its kind.                                                      *)
(***************************************************************************)
EXTENDS RouteDomains, PolicyFixes, GslbFixes, ManagementFixes, AuthFixes

CONSTANTS
  Kinds,            \* the kinds to look at
  Factory,          \* for each kind, the devices to start from
  DeclarationsOf,   \* for each kind, what clients declare
  NoConfig          \* nothing: no original configuration, no last declaration

VARIABLES
  kind,
  device,      \* what is on the device
  store,       \* doState.originalConfig, from before the first declaration
  pc,          \* "idle", "read", "fixed", "done", "failed", "rollback",
               \* "rolledBack", "stuck"
  decl,        \* the declaration
  original,    \* this.state.originalConfig of the task
  cur,         \* this.state.currentConfig: what the task has read
  rollbackTo,  \* what it had read at first
  shared,      \* original and cur are one object, which only the first get makes
  want,        \* the declaration after the fixes
  was,         \* the device when the declaration came
  last         \* the last declaration, if it succeeded and if this is it again

taskVars == <<decl, original, cur, rollbackTo, shared, want, was>>
vars == <<kind, device, store, pc, taskVars, last>>

(* What may be on a device, what of it is read, and what is declared.      *)
IsDevice(k, v) ==
  CASE k = "network"    -> v \in NetworkDevice
    [] k = "access"     -> v \in AccessDevice \/ v = Unsaid
    [] k = "bgp"        -> v \in BgpDevice \/ v = Unsaid
    [] k = "firewall"   -> v \in FirewallDevice \/ v = Unsaid
    [] k = "waf"        -> v \in Waf
    [] k = "gslb"       -> v \in GslbDevice
    [] k = "management" -> v \in ManagementDevice
    [] k = "auth"       -> v \in AuthDevice

IsConfig(k, c) ==
  CASE k = "gslb"       -> c \in GslbConfig
    [] k = "management" -> c \in ManagementConfig
    [] k = "auth"       -> c \in AuthConfig
    [] OTHER            -> IsDevice(k, c)

IsDeclaration(k, d) ==
  CASE k = "network"    -> d \in NetworkDeclarations
    [] k = "access"     -> d = Unsaid \/ (d \in Entry /\ ValidAccessList(d))
    [] k = "bgp"        -> d = Unsaid \/ (d \in Seq(FamilyEntry) /\ ValidFamilies(d))
    [] k = "firewall"   -> d = Unsaid \/ d \in [Sides -> Seq(Reference)]
    [] k = "waf"        -> d \in WafDeclaration
    [] k = "gslb"       -> d \in GslbDeclarations
    [] k = "management" -> d \in ManagementDeclarations
    [] k = "auth"       -> d \in AuthDeclarations

AllKinds == {"network", "access", "bgp", "firewall", "waf", "gslb", "management", "auth"}

ASSUME RepostsAssumption ==
  /\ Kinds \subseteq AllKinds
  /\ \A k \in Kinds : /\ \A v \in Factory[k] : IsDevice(k, v)
                      /\ \A d \in DeclarationsOf[k] : IsDeclaration(k, d)
                      /\ ~IsConfig(k, NoConfig) /\ ~IsDeclaration(k, NoConfig)

TypeOK ==
  /\ kind \in Kinds
  /\ pc \in {"idle", "read", "fixed", "done", "failed", "rollback", "rolledBack", "stuck"}
  /\ IsDevice(kind, device)
  /\ store # NoConfig => IsConfig(kind, store)
  /\ shared \in BOOLEAN

(***************************************************************************)
(* What each kind does with a declaration.  Classes without names, or with *)
(* fixed ones, are compared and written by parts, the others object by     *)
(* object; here a configuration has one object of each class.              *)
(***************************************************************************)
ReadOf(k, v) ==
  CASE k = "gslb"       -> GslbRead(v)
    [] k = "management" -> ManagementRead(v)
    [] k = "auth"       -> AuthRead(v)
    [] OTHER            -> v

(* removeUnwantedProperties, on what was read.                             *)
ReadFor(k, c, d) == IF k = "management" THEN WithoutMgmt(c, d) ELSE c

(* Of a declaration, and in a rollback of what had been read.  first is    *)
(* the original configuration; applyDefaults takes from it a class of one  *)
(* object that is left out.                                                *)
FixOf(k, d, first, read, rolling) ==
  LET orOriginal(fixed) == IF d = Unsaid THEN first ELSE fixed
  IN CASE k = "network"    -> NetworkFix(d, first, read)
       [] k = "access"     -> orOriginal(RoutingAccessListFix(d))
       [] k = "bgp"        -> orOriginal(RoutingBgpFix(d))
       [] k = "firewall"   -> orOriginal(FirewallRuleFix(d))
       [] k = "waf"        -> IF rolling THEN d ELSE SecurityWafFix(d, first)
       [] k = "gslb"       -> GslbFix(IF rolling THEN d ELSE Parsed(d), first)
       [] k = "management" -> ManagementFix(IF rolling THEN AsDeclaration(d) ELSE d, first)
       [] k = "auth"       -> AuthFix(d, first)

(* What the fixes make of the original configuration.                      *)
OriginalFor(k, d, first) == IF k = "waf" THEN OriginalAfterFix(d, first) ELSE first

ComparedOf(k, fixed) == IF k = "management" THEN Compared(fixed) ELSE fixed

Refused(k, v, fixed, data) == k = "auth" /\ LdapRefused(v, fixed, data)

WriteOf(k, v, read, fixed, data, first) ==
  LET orNothing(stored) == IF fixed = Unsaid THEN Unsaid ELSE stored
  IN CASE k = "network"    -> NetworkWrite(v, read, fixed)
       [] k = "access"     -> orNothing(StoredEntry(fixed))
       [] k = "bgp"        -> orNothing(StoredFamilies(fixed))
       [] k = "firewall"   -> orNothing(StoredRule(fixed))
       [] k = "waf"        -> WafWrite(v, read, fixed, first)
       [] k = "gslb"       -> GslbStored(fixed)
       [] k = "management" -> ManagementWrite(v, read, fixed)
       [] k = "auth"       -> AuthWrite(v, read, fixed, data)

(* Only what differs is given to the handlers.                             *)
Updated(k, v, read, fixed, data, first) ==
  IF ComparedOf(k, fixed) = read THEN v ELSE WriteOf(k, v, read, fixed, data, first)

(***************************************************************************)
(* Actions: restWorker.js, onboard.                                        *)
(***************************************************************************)

(* The first get: what was there before the first declaration is kept, in  *)
(* a copy, and the task goes on with the object it read.                   *)
Post(d) ==
  /\ pc = "idle"
  /\ pc' = "read" /\ decl' = d /\ was' = device
  /\ cur' = ReadOf(kind, device) /\ rollbackTo' = cur' /\ want' = NoConfig
  /\ shared' = (store = NoConfig)
  /\ store' = IF store = NoConfig THEN cur' ELSE store
  /\ original' = store'
  /\ last' = IF d = last THEN last ELSE NoConfig
  /\ UNCHANGED <<kind, device>>

(* The fixes, and what they do to the objects they are given.              *)
Fix ==
  /\ pc = "read"
  /\ LET read == ReadFor(kind, cur, decl)
         mine == OriginalFor(kind, decl, original)
     IN /\ want' = FixOf(kind, decl, original, read, FALSE)
        /\ original' = mine
        /\ cur' = IF kind = "waf" /\ shared THEN mine ELSE read
        /\ rollbackTo' = cur'
  /\ pc' = "fixed"
  /\ UNCHANGED <<kind, device, store, decl, shared, was, last>>

Update ==
  /\ pc = "fixed"
  /\ IF Refused(kind, device, want, decl # Unsaid)
     THEN pc' = "failed" /\ UNCHANGED device
     ELSE /\ pc' = "done"
          /\ device' = Updated(kind, device, cur, want, decl # Unsaid, original)
  /\ UNCHANGED <<kind, store, taskVars, last>>

(* The task is over, and what it held is gone.                             *)
End ==
  /\ pc' = "idle" /\ shared' = FALSE
  /\ decl' = NoConfig /\ original' = NoConfig /\ cur' = NoConfig
  /\ rollbackTo' = NoConfig /\ want' = NoConfig /\ was' = NoConfig
  /\ UNCHANGED <<kind, device, store>>

Succeed == pc = "done" /\ last' = decl /\ End

(* Something after these handlers fails.                                   *)
Fail ==
  /\ pc = "done"
  /\ pc' = "failed"
  /\ UNCHANGED <<kind, device, store, taskVars, last>>

(* The device is read again, and what was read at first is processed like  *)
(* a declaration; original is another object now.                          *)
RollbackRead ==
  /\ pc = "failed"
  /\ pc' = "rollback" /\ cur' = ReadOf(kind, device) /\ original' = store
  /\ UNCHANGED <<kind, device, store, decl, rollbackTo, shared, want, was, last>>

Rollback ==
  /\ pc = "rollback"
  /\ LET read  == ReadFor(kind, cur, rollbackTo)
         fixed == FixOf(kind, rollbackTo, original, read, TRUE)
     IN /\ want' = fixed
        /\ IF Refused(kind, device, fixed, FALSE)
           THEN pc' = "stuck" /\ UNCHANGED device
           ELSE /\ pc' = "rolledBack"
                /\ device' = Updated(kind, device, read, fixed, FALSE, original)
  /\ last' = NoConfig
  /\ UNCHANGED <<kind, store, decl, original, cur, rollbackTo, shared, was>>

Settle == pc \in {"rolledBack", "stuck"} /\ End /\ UNCHANGED last

(***************************************************************************)
(* Specification                                                           *)
(***************************************************************************)
Init ==
  /\ kind \in Kinds
  /\ device \in Factory[kind]
  /\ store = NoConfig /\ pc = "idle" /\ last = NoConfig /\ shared = FALSE
  /\ decl = NoConfig /\ original = NoConfig /\ cur = NoConfig /\ rollbackTo = NoConfig
  /\ want = NoConfig /\ was = NoConfig

Next ==
  \/ \E d \in DeclarationsOf[kind] : Post(d)
  \/ Fix \/ Update \/ Succeed \/ Fail \/ RollbackRead \/ Rollback \/ Settle

Spec == Init /\ [][Next]_vars

(***************************************************************************)
(* Properties                                                              *)
(***************************************************************************)

(* For a class of one object, left out it is to be what it was at first.   *)
OrAsAtFirst(d, met) == IF d = Unsaid THEN device = store ELSE met

(* What a declaration gives is on the device when its task is done, and    *)
(* what it leaves out is what it was before the first declaration, the     *)
(* exceptions aside that the operators Met name and, for the settings of   *)
(* the web application firewall, the first declaration.                    *)
DeclaredIsMet ==
  pc = "done" =>
    CASE kind = "network"    -> NetworkMet(device, decl, was)
      [] kind = "access"     -> OrAsAtFirst(decl, EntryMet(device, decl))
      [] kind = "bgp"        -> OrAsAtFirst(decl, device = StoredFamilies(decl))
      [] kind = "firewall"   -> OrAsAtFirst(decl, device = StoredRule(decl))
      [] kind = "waf"        -> shared \/ WafMet(device, decl, store)
      [] kind = "gslb"       -> GslbMet(device, Parsed(decl), store)
      [] kind = "management" -> ManagementMet(device, decl, store)
      [] kind = "auth"       -> AuthMet(device, decl, store)

(* Declarations that always differ from what they left on the device.      *)
Noisy ==
  CASE kind = "network"    -> ReadOtherwise(decl, device)
    [] kind = "access"     -> decl # Unsaid /\ MaskUnderBare(decl)
    [] kind = "firewall"   -> decl # Unsaid /\ Unprefixed(decl)
    [] kind = "waf"        -> HalfSaid(decl)
    [] kind = "gslb"       -> Untranslated(decl)
    [] kind = "management" -> PreserveDiffers(decl, device)
    [] kind = "auth"       -> RadiusServersStay(device)
    [] OTHER               -> FALSE

(* Tasks that did not do all that their declaration asks for, and do more  *)
(* when it comes again.                                                    *)
Unfinished ==
  CASE kind = "management" -> LeaseReturns(decl, original) \/ LeaseGivenUp(decl, original)
    [] kind = "waf"        -> ~WafMet(device, decl, store)
    [] OTHER               -> FALSE

(* The same declaration again, after it succeeded, changes nothing, and    *)
(* except for the noisy ones it finds no difference and calls no handler.  *)
RepostIsQuiet ==
  [][pc = "fixed" /\ decl = last /\ ~Unfinished
       => device' = device /\ (Noisy \/ ComparedOf(kind, want) = cur)]_vars

(* docs/declarations/network-objects.rst:406: the property mgmtDhcpEnabled *)
(* enables or disables DHCP.  Here the same declaration has come again and *)
(* nothing else in it might say otherwise.                                 *)
DhcpIsAsDeclared ==
  pc = "done" /\ kind = "management" /\ decl = last =>
    (decl.system # Unsaid /\ decl.system.mgmt # Unsaid /\ decl.ip = Unsaid /\ decl.routes = {}
       => device.dhcp = decl.system.mgmt)

(* After a failure the device is what it was when the declaration came.    *)
RollbackRestores ==
  pc = "rolledBack" =>
    CASE kind = "management" -> ManagementRestored(device, was, decl, store)
      [] kind = "auth"       -> AuthRestored(device, was, decl)
      [] kind = "waf"        -> device = was \/ (shared /\ decl.settings # Unsaid)
      [] OTHER               -> device = was
=============================================================================
