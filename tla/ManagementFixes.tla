--------------------------- MODULE ManagementFixes ---------------------------
(***************************************************************************)
(* The management interface: DHCP, the address and the routes, and the     *)
(* class System, which says what to do with them (src/lib/systemHandler.js, *)
(* handleManagementDhcp, handleManagementIp, handleManagementRoute;        *)
(* declarationHandler.js, removeUnwantedProperties, applyDefaults,         *)
(* applyHostnameFixes, applyManagementRouteFixes; configManager.js,        *)
(* patchSys).  The device is a BIG-IP that runs this program itself.       *)
(***************************************************************************)
EXTENDS Absence

CONSTANTS
  Host,     \* names of the device
  StaticIp, \* static addresses
  Leased,   \* the address that DHCP gives, remark configured-by-dhcp
  Route,    \* management routes, each with a network of its own
  LeaseRoute \* the ones of them that DHCP made

SystemClass == [host: Host, mgmt: BOOLEAN \cup {Unsaid}, preserve: BOOLEAN]

ASSUME ManagementAssumption ==
  /\ Leased \notin StaticIp /\ Unsaid \notin Host \cup StaticIp \cup {Leased}
  /\ Unsaid \notin BOOLEAN /\ Unsaid \notin SystemClass
  /\ LeaseRoute \subseteq Route

(* With DHCP the address is the one of the lease.                          *)
ManagementDevice ==
  {v \in [dhcp: BOOLEAN, host: Host, ip: StaticIp \cup {Leased}, routes: SUBSET Route] :
     v.dhcp => v.ip = Leased}

(* patchSys: mgmtDhcp, and preserveOrigDhcpRoutes which is the same.       *)
ManagementRead(v) ==
  [system |-> [host |-> v.host, mgmt |-> v.dhcp, preserve |-> v.dhcp],
   ip |-> v.ip, routes |-> v.routes]

ManagementConfig ==
  {c \in [system: [host: Host, mgmt: BOOLEAN, preserve: BOOLEAN],
          ip: StaticIp \cup {Leased}, routes: SUBSET Route] :
     c.system.mgmt = c.system.preserve /\ (c.system.mgmt => c.ip = Leased)}

(* "hostname" is the one beside the classes.  The validator wants mgmt and *)
(* preserve to agree, and preserve is FALSE unless the declaration says    *)
(* otherwise.                                                              *)
ManagementDeclarations ==
  {d \in [system: SystemClass \cup {Unsaid}, hostname: Host \cup {Unsaid},
          ip: StaticIp \cup {Unsaid}, routes: SUBSET Route] :
     d.system # Unsaid => /\ d.hostname = Unsaid
                          /\ d.system.mgmt \in {Unsaid, d.system.preserve}}

AsDeclaration(c) ==
  [system |-> c.system, hostname |-> Unsaid, ip |-> c.ip, routes |-> c.routes]

(* removeUnwantedProperties, on the configuration that was read.           *)
WithoutMgmt(c, d) ==
  IF d.system # Unsaid /\ d.system.mgmt = Unsaid THEN [c EXCEPT !.system.mgmt = Unsaid] ELSE c

(* "kept" says that InternalUse has preserveOrigDhcpRoutes.                *)
ManagementFix(d, original) ==
  LET system == IF d.system = Unsaid THEN original.system ELSE d.system
      routes == IF d.routes = {} THEN original.routes ELSE d.routes
      kept   == original.routes # {} /\ routes # {} /\ system.preserve
  IN [system |-> IF d.hostname = Unsaid THEN system ELSE [system EXCEPT !.host = d.hostname],
      ip     |-> IF d.ip = Unsaid THEN original.ip ELSE d.ip,
      routes |-> IF kept THEN routes \cup (original.routes \cap LeaseRoute) ELSE routes,
      kept   |-> kept]

(* What the diff looks at.                                                 *)
Compared(want) == [system |-> want.system, ip |-> want.ip, routes |-> want.routes]

(***************************************************************************)
(* The handlers.                                                           *)
(***************************************************************************)
getDesiredMgmtIpDhcpSetting(cur, want) ==
  IF want.ip # cur.ip THEN want.ip = Leased ELSE cur.system.preserve

(* Only routes that are new or changed come with a name.                   *)
getDesiredMgmtRouteDhcpSetting(cur, want) ==
  IF want.routes \ cur.routes # {} THEN want.kept ELSE cur.system.preserve

(* A declared setting wins; where address and routes disagree DHCP goes.   *)
handleManagementDhcp(cur, want) ==
  IF want.system # cur.system /\ want.system.mgmt # Unsaid THEN want.system.mgmt
  ELSE /\ getDesiredMgmtIpDhcpSetting(cur, want)
       /\ getDesiredMgmtRouteDhcpSetting(cur, want)

(* The address is created only without DHCP.  That DHCP, when it comes on, *)
(* takes the address over is the device's doing, and so is that the leased *)
(* one stays when DHCP goes.                                               *)
ManagementWrite(v, cur, want) ==
  LET dhcp == handleManagementDhcp(cur, want)
      ip   == IF dhcp THEN Leased ELSE IF want.ip # cur.ip THEN want.ip ELSE v.ip
  IN [dhcp |-> dhcp, host |-> want.system.host, ip |-> ip, routes |-> want.routes]

(***************************************************************************)
(* What a declaration asks for.                                            *)
(***************************************************************************)

(* System is left out, and its setting of DHCP from before the first       *)
(* declaration is given with it.                                           *)
LeaseReturns(d, original) == d.system = Unsaid /\ original.system.mgmt

(* preserveOrigDhcpRoutes, declared alone, does not turn DHCP on or off.   *)
PreserveDiffers(d, v) ==
  d.system # Unsaid /\ d.system.mgmt = Unsaid /\ d.system.preserve # v.dhcp

(* DHCP is asked for, and what turns it off is wanted with it: a static    *)
(* address, if only because the device had one at first, or routes where   *)
(* there were none to preserve.                                            *)
LeaseGivenUp(d, original) ==
  /\ d.system # Unsaid /\ d.system.mgmt = TRUE
  /\ \/ d.ip # Unsaid
     \/ original.ip # Leased
     \/ d.routes # {} /\ original.routes = {}

ManagementMet(v, d, original) ==
  /\ d.ip # Unsaid /\ ~LeaseReturns(d, original)
       /\ ~(d.system # Unsaid /\ d.system.mgmt = TRUE) => v.ip = d.ip
  /\ d.routes # {} => d.routes \subseteq v.routes
  /\ d.system # Unsaid =>
       /\ v.host = d.system.host
       /\ d.system.mgmt # Unsaid /\ ~LeaseGivenUp(d, original) => v.dhcp = d.system.mgmt
       /\ d.system.preserve => original.routes \cap LeaseRoute \subseteq v.routes
       /\ d.routes # {} /\ ~d.system.preserve => v.routes = d.routes

(* DHCP stays off when removeUnwantedProperties has taken its setting from  *)
(* the configuration to return to, and when routes come back where there   *)
(* were none before the first declaration.  Routes of DHCP that were given *)
(* up earlier may come back.                                               *)
ManagementRestored(v, was, d, original) ==
  /\ v.host = was.host /\ v.ip = was.ip
  /\ was.routes \subseteq v.routes
  /\ v.routes \ was.routes \subseteq IF was.dhcp THEN original.routes \cap LeaseRoute ELSE {}
  /\ was.dhcp /\ ~v.dhcp =>
       \/ d.system # Unsaid /\ d.system.mgmt = Unsaid
       \/ was.routes # {} /\ original.routes = {}
  /\ v.dhcp => was.dhcp
=============================================================================
