------------------------------ MODULE GslbFixes ------------------------------
(***************************************************************************)
(* Global server load balancing: the global settings, a server with its    *)
(* virtual servers and a prober pool, from the declaration to the device   *)
(* and back (src/lib/parserUtil.js; declarationHandler.js,                 *)
(* applyGSLBGlobalsFixes, applyGSLBServerFixes, applyGSLBProberPoolFixes;  *)
(* gslbHandler.js; configManager.js, the patches of the GSLB classes).     *)
(* Which of these objects exist, and when they go, is in ConfigEngine.     *)
(***************************************************************************)
EXTENDS Naturals, FiniteSets, Sequences, SequencesExt, Absence

CONSTANTS
  GlobalSetting,  \* synchronization, its group name, its timeout, ...
  GlobalValue,    \* values of global settings
  Translation,    \* addresses that virtual servers translate to
  Name,           \* names of data centers, pools, servers and virtual servers
  Index,          \* names of virtual servers that got their place for a name
  Monitor,        \* monitors by their full names
  BigIpMonitor,   \* /Common/bigip
  None            \* 'none', what the device says where there is nothing

CommonName == [name: Name, full: BOOLEAN]     \* with or without /Common/
ShortName  == [name: Name, full: {FALSE}]
Product    == {"bigip", "generic"}

(* What a client may declare.                                              *)
DeclaredVirtual ==
  [name: Name \cup {Unsaid}, monitors: Seq(Monitor) \cup {Unsaid},
   translation: Translation \cup {Unsaid, None}]

DeclaredServer ==
  [center: CommonName, pool: CommonName \cup {Unsaid}, product: Product,
   monitors: Seq(Monitor) \cup {Unsaid}, virtuals: Seq(DeclaredVirtual) \cup {Unsaid}]

DeclaredMember == [server: CommonName]

GslbDeclarations ==
  {d \in [globals: [GlobalSetting -> GlobalValue \cup {Unsaid}] \cup {Unsaid},
          server: DeclaredServer \cup {Unsaid},
          pool: Seq(DeclaredMember) \cup {Unsaid}] :
     d.server # Unsaid /\ d.server.virtuals # Unsaid =>
       DOMAIN d.server.virtuals \subseteq DOMAIN Index}

(* What the device keeps, and what is read of it.                          *)
StoredVirtual ==
  [name: Name \cup {Index[i] : i \in DOMAIN Index}, monitors: Seq(Monitor),
   translation: Translation \cup {None}]

StoredServer ==
  [center: ShortName, pool: ShortName \cup {None}, product: Product,
   monitors: Seq(Monitor), virtuals: Seq(StoredVirtual)]

Member     == [server: ShortName, order: Nat]
ProberPool == [members: SUBSET Member]

ReadVirtual == [name: Name \cup {Index[i] : i \in DOMAIN Index}, monitors: Seq(Monitor),
                translation: Translation \cup {Unsaid}]

ReadServer ==
  [center: ShortName, pool: ShortName \cup {None}, product: Product,
   monitors: Seq(Monitor), virtuals: Seq(ReadVirtual)]

(* In every form on the way.                                               *)
AnyVirtual ==
  [name: Name \cup {Index[i] : i \in DOMAIN Index} \cup {Unsaid},
   monitors: Seq(Monitor) \cup {Unsaid}, translation: Translation \cup {Unsaid, None}]

AnyServer ==
  [center: CommonName, pool: CommonName \cup {Unsaid, None}, product: Product,
   monitors: Seq(Monitor) \cup {Unsaid}, virtuals: Seq(AnyVirtual) \cup {Unsaid}]

ASSUME GslbAssumption ==
  /\ BigIpMonitor \in Monitor
  /\ {Unsaid, None} \cap (GlobalValue \cup Translation \cup Name \cup Monitor) = {}
  /\ Unsaid # None /\ Unsaid \notin CommonName /\ None \notin CommonName
  /\ \A i \in DOMAIN Index : Index[i] \notin Name \cup {Unsaid, None}
  /\ Unsaid \notin [GlobalSetting -> GlobalValue \cup {Unsaid}] /\ Unsaid \notin AnyServer
  /\ Unsaid \notin Seq(Monitor) /\ Unsaid \notin Seq(AnyVirtual)
  /\ Unsaid \notin Seq(DeclaredMember) /\ Unsaid \notin Seq(Member) /\ Unsaid \notin ProberPool

Short(ref) == [ref EXCEPT !.full = FALSE]

(***************************************************************************)
(* The declaration, parsed: a prober pool and an address translation that  *)
(* are left out become None (parserUtil.js).                               *)
(***************************************************************************)
Translated(server) ==
  LET translated(vs) == [vs EXCEPT !.translation = IF @ = Unsaid THEN None ELSE @]
      virtuals       == server.virtuals
  IN [server EXCEPT
        !.virtuals = IF @ = Unsaid THEN @
                     ELSE [i \in DOMAIN virtuals |-> translated(virtuals[i])]]

ParsedServer(server) == [Translated(server) EXCEPT !.pool = IF @ = Unsaid THEN None ELSE @]

Parsed(d) == [d EXCEPT !.server = IF @ = Unsaid THEN @ ELSE ParsedServer(@)]

MonitorList(monitors) == IF monitors = Unsaid THEN <<>> ELSE monitors

(* A BIG-IP has the monitor bigip unless the declaration says otherwise.   *)
ServerMonitors(server) ==
  IF server.monitors = Unsaid /\ server.product = "bigip" THEN <<BigIpMonitor>>
  ELSE MonitorList(server.monitors)

VirtualServer(vs, i) ==
  [vs EXCEPT !.name = IF @ = Unsaid THEN Index[i] ELSE @, !.monitors = MonitorList(@)]

GSLBServerFix(server) ==
  LET virtuals == IF server.virtuals = Unsaid THEN <<>> ELSE server.virtuals
  IN [server EXCEPT
        !.center   = Short(@),
        !.pool     = IF @ = None THEN @ ELSE Short(@),
        !.monitors = ServerMonitors(server),
        !.virtuals = [i \in DOMAIN virtuals |-> VirtualServer(virtuals[i], i)]]

(* Members are ordered by their place in the declaration.                  *)
GSLBProberPoolFix(members) ==
  [i \in DOMAIN members |-> [server |-> Short(members[i].server), order |-> i - 1]]

GSLBGlobalsFix(settings, original) ==
  [s \in GlobalSetting |-> IF settings[s] = Unsaid THEN original[s] ELSE settings[s]]

GslbFix(d, original) ==
  [globals |-> IF d.globals = Unsaid THEN original.globals
               ELSE GSLBGlobalsFix(d.globals, original.globals),
   server  |-> IF d.server = Unsaid THEN original.server ELSE GSLBServerFix(d.server),
   pool    |-> IF d.pool = Unsaid THEN original.pool ELSE GSLBProberPoolFix(d.pool)]

(***************************************************************************)
(* The device keeps the members of a pool in no order, the monitors as one *)
(* text, and whether a virtual server translates.                          *)
(***************************************************************************)
GslbStored(want) ==
  [want EXCEPT !.server = IF @ = Unsaid THEN @ ELSE Translated(@),
               !.pool   = IF @ = Unsaid THEN @ ELSE [members |-> ToSet(@)]]

(* The orders of the members of a pool count from 0.                       *)
Ordered(members) ==
  /\ IsFiniteSet(members)
  /\ \A m, n \in members : m.order = n.order => m = n
  /\ {m.order : m \in members} = 0 .. Cardinality(members) - 1

GslbDevice ==
  {v \in [globals: [GlobalSetting -> GlobalValue], server: StoredServer \cup {Unsaid},
          pool: ProberPool \cup {Unsaid}] : v.pool # Unsaid => Ordered(v.pool.members)}

(* What is read: the members sorted by their orders, which count from 0,   *)
(* and None for no translation gone.                                       *)
SortedMembers(members) ==
  [i \in 1 .. Cardinality(members) |-> CHOOSE m \in members : m.order = i - 1]

GslbRead(v) ==
  LET virtual(vs) == [vs EXCEPT !.translation = IF @ = None THEN Unsaid ELSE @]
      virtuals    == v.server.virtuals
      server      == [v.server EXCEPT
                        !.virtuals = [i \in DOMAIN virtuals |-> virtual(virtuals[i])]]
  IN [v EXCEPT !.server = IF @ = Unsaid THEN @ ELSE server,
               !.pool   = IF @ = Unsaid THEN @ ELSE SortedMembers(@.members)]

GslbConfig ==
  {c \in [globals: [GlobalSetting -> GlobalValue], server: ReadServer \cup {Unsaid},
          pool: Seq(Member) \cup {Unsaid}] :
     c.pool # Unsaid => \A i \in DOMAIN c.pool : c.pool[i].order = i - 1}

(***************************************************************************)
(* What a declaration asks for.                                            *)
(***************************************************************************)
GslbMet(v, d, original) ==
  /\ d.globals # Unsaid =>
       \A s \in GlobalSetting :
         v.globals[s] = IF d.globals[s] = Unsaid THEN original.globals[s] ELSE d.globals[s]
  /\ d.server # Unsaid =>
       /\ v.server.center.name = d.server.center.name
       /\ d.server.monitors # Unsaid => v.server.monitors = d.server.monitors
       /\ d.server.monitors = Unsaid /\ d.server.product = "bigip" =>
            v.server.monitors = <<BigIpMonitor>>
       /\ d.server.virtuals # Unsaid => Len(v.server.virtuals) = Len(d.server.virtuals)
  /\ d.pool # Unsaid =>
       /\ {m.order : m \in v.pool.members} = 0 .. Len(d.pool) - 1
       /\ \A m \in v.pool.members : m.server.name = d.pool[m.order + 1].server.name
  /\ \A part \in {"globals", "server", "pool"} :
       d[part] = Unsaid => GslbRead(v)[part] = original[part]

(* A virtual server without translation never looks like what was read.    *)
Untranslated(d) ==
  /\ d.server # Unsaid
  /\ d.server.virtuals # Unsaid
  /\ \E i \in DOMAIN d.server.virtuals : d.server.virtuals[i].translation \in {Unsaid, None}
=============================================================================
