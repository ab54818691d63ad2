------------------------------- MODULE Network -------------------------------
(***************************************************************************)
(* The network handler (src/lib/networkHandler.js) and the delete handler  *)
(* (src/lib/deleteHandler.js) against a BIG-IP that refuses what would     *)
(* leave one of its objects without another that it needs.                 *)
(*                                                                         *)
(* A handler is a plan: a sequence of steps.  A step reads the device and  *)
(* starts chains of calls that run at once (Promise.all) and are waited    *)
(* for, or are not.  A call is a transaction of commands.  The first call  *)
(* that is refused ends the handler, while the other chains go on, and the *)
(* same plan is then run towards the configuration that was read before.   *)
(*                                                                         *)
(* An object has what can be modified in place (data), what cannot (fixed: *)
(* profile and traffic group of a tunnel, route domain of a list, network  *)
(* of a route, local AS of a BGP, traffic group of a self IP), a subnet (of*)
(* a self IP, or of the gateway of a route) and the objects it refers to.  *)
(* Left out: GSLB and authentication, the members of route domains, the    *)
(* partition of a route, retries.                                          *)
(***************************************************************************)
EXTENDS Integers, FiniteSets, SequencesExt

CONSTANTS
  Item,          \* names of objects
  Only,          \* the item of a class without names
  Rd0,           \* route domain 0
  Values,        \* the values of objects
  None,          \* an object that is not there
  NoNet,         \* the subnet of what has none
  Bare,          \* the data of a list or a map without its entries
  Vxlan,         \* the fixed parts of tunnels with a vxlan profile
  WithPeers,     \* the data of BGPs that have peer groups
  AcceptAll,     \* what TMOS makes of TrafficControl when a vxlan tunnel comes
  Enabled,       \* the value of tmrouted.tmos.routing
  Refused,       \* what is left of a device that refuses a call
  Retained,      \* the objects that isRetainedItem knows
  Afm,           \* AFM is provisioned
  Cases,         \* pairs of a configuration and one that is wanted
  MaxFaults      \* how many calls fail for no reason of the device

(* Classes of which each item is given to createOrModify, and no more. *)
PlainClass ==
  { "Trunk", "VLAN", "DNS_Resolver", "FirewallAddressList", "FirewallPortList",
    "FirewallPolicy", "NetAddressList", "NetPortList", "RoutingAsPath", "RoutingAccessList" }

SingleClass == {"ManagementIpFirewall", "DagGlobals", "TrafficControl"}

ListClass == {"RoutingPrefixList", "RouteMap"}

RoutingClass == ListClass \cup {"RoutingBGP", "RoutingAsPath", "RoutingAccessList"}

(* The classes of a declaration, and what is on a device besides them. *)
DeclaredClass ==
  PlainClass \cup SingleClass \cup ListClass
    \cup {"RouteDomain", "Tunnel", "SelfIp", "Route", "RoutingBGP"}

Class == DeclaredClass \cup {"VXLAN", "ConfigSync", "Routing"}

Section == [Item -> Values \cup {None}]
Config  == [DeclaredClass -> Section]
Device  == [Class -> Section]
Nothing == [i \in Item |-> None]

Operation == {"create", "modify", "createOrModify", "delete", "clear", "set"}
Command == [op: Operation, class: Class, item: Item, value: Values \cup {None}]
Call    == [commands: Seq(Command), awaited: BOOLEAN]
Chain   == Seq(Call) \ {<<>>}
Memory  == [existing: SUBSET Item, matching: SUBSET Item, floats: Section,
            routes: Section, sync: Values \cup {None}]

(* A tunnel as its profile, and a list or a map without its entries.       *)
Profile(tunnel) == [tunnel EXCEPT !.refs = {}]
Outline(v)      == [v EXCEPT !.data = Bare, !.refs = {}]

ASSUME NetworkAssumption ==
  /\ IsFiniteSet(Item) /\ {Only, Rd0} \subseteq Item
  /\ None \notin Values /\ {AcceptAll, Enabled} \subseteq Values
  /\ \A v \in Values : Profile(v) \in Values /\ Outline(v) \in Values
  /\ Refused \notin Device
  /\ Retained \subseteq DeclaredClass \X Item
  /\ <<"RouteDomain", Rd0>> \in Retained
  /\ Afm \in BOOLEAN
  /\ Cases \subseteq [before: Device, want: Config]
  /\ MaxFaults \in Nat

VARIABLES
  device,    \* the objects of the device
  before,    \* history: what they were when the task began
  want,      \* the declaration after the fixes
  declared,  \* history: want of the first pass
  cur,       \* state.currentConfig, which the handlers change
  doomed,    \* what the diff says to delete
  phase,
  pc,        \* the step of the plan that comes next
  mem,       \* what handleSelfIp remembers
  group,     \* the chains that are waited for
  loose,     \* the chains that are not
  faults,    \* calls that failed so far
  late       \* history: a chain of the first pass ran into the second

vars == <<device, before, want, declared, cur, doomed, phase, pc, mem, group, loose, faults,
          late>>

Phase == {"start", "apply", "rejected", "rollback", "done", "rolledBack", "failed"}
NoMemory == [existing |-> {}, matching |-> {}, floats |-> Nothing, routes |-> Nothing,
             sync |-> None]

Present(config, c) == {i \in Item : config[c][i] # None}

-----------------------------------------------------------------------------
(* The device *)

Local(dev)    == {i \in Present(dev, "SelfIp") : dev["SelfIp"][i].fixed = "local"}
Floating(dev) == Present(dev, "SelfIp") \ Local(dev)

Reachable(dev, net) == net = NoNet \/ \E i \in Local(dev) : dev["SelfIp"][i].net = net

(* The address of a self IP, as the configuration synchronisation has it. *)
IsAddress(sync, i, selfIp) == sync.data = i /\ sync.net = selfIp.net

(* What TMOS insists on.  Whatever is referred to is there; no route and   *)
(* no floating self IP is unreachable; the config sync IP is a self IP;    *)
(* there is one BGP.                                                       *)
Sound(dev) ==
  /\ \A c \in Class : \A i \in Present(dev, c) :
       \A r \in dev[c][i].refs : dev[r[1]][r[2]] # None
  /\ \A i \in Present(dev, "Route") : Reachable(dev, dev["Route"][i].net)
  /\ \A i \in Floating(dev) : Reachable(dev, dev["SelfIp"][i].net)
  /\ \A s \in Present(dev, "ConfigSync") : \E i \in Present(dev, "SelfIp") :
       IsAddress(dev["ConfigSync"][s], i, dev["SelfIp"][i])
  /\ Cardinality(Present(dev, "RoutingBGP")) <= 1

Allowed(dev, cmd) ==
  LET here == dev[cmd.class][cmd.item]
      inPlace == /\ here # None
                 /\ here.fixed = cmd.value.fixed
                 /\ ~(cmd.class = "RoutingBGP" /\ here.data \in WithPeers)
  IN \/ cmd.op \in {"set", "clear"}
     \/ cmd.op = "create" /\ here = None
     \/ cmd.op = "modify" /\ inPlace
     \/ cmd.op = "createOrModify" /\ (here = None \/ inPlace)
     \/ cmd.op = "delete" /\ here # None

TwinOf ==
  [c \in {"NetAddressList", "FirewallAddressList", "NetPortList", "FirewallPortList"} |->
     CASE c = "NetAddressList"      -> "FirewallAddressList"
       [] c = "FirewallAddressList" -> "NetAddressList"
       [] c = "NetPortList"         -> "FirewallPortList"
       [] c = "FirewallPortList"    -> "NetPortList"]

(* With AFM a list of addresses or ports is there twice; creating a vxlan  *)
(* tunnel silently changes the traffic control.                            *)
After(dev, cmd) ==
  [c \in Class |->
     IF c = cmd.class \/ (Afm /\ c \in DOMAIN TwinOf /\ cmd.class = TwinOf[c])
       THEN [dev[c] EXCEPT ![cmd.item] = cmd.value]
     ELSE IF c = "TrafficControl" /\ cmd.class = "VXLAN" /\ cmd.value # None
               /\ dev["VXLAN"][cmd.item] = None
       THEN [dev[c] EXCEPT ![Only] = AcceptAll]
     ELSE dev[c]]

Executed(dev, cmd) == IF dev # Refused /\ Allowed(dev, cmd) THEN After(dev, cmd) ELSE Refused

Outcome(call) ==
  LET executed[n \in 0 .. Len(call.commands)] ==
        IF n = 0 THEN device ELSE Executed(executed[n - 1], call.commands[n])
  IN executed[Len(call.commands)]

Accepted(call) == Outcome(call) # Refused /\ Sound(Outcome(call))

-----------------------------------------------------------------------------
(* Calls *)

Do(op, c, i, v) == [op |-> op, class |-> c, item |-> i, value |-> v]

Awaited(commands) == [commands |-> commands, awaited |-> TRUE]
Unawaited(commands) == [commands |-> commands, awaited |-> FALSE]

(* A chain for each item, of one call. *)
Each(op, c, items, values) ==
  {<<Awaited(<<Do(op, c, i, values[i])>>)>> : i \in items}

(* One chain of one transaction. *)
Transaction(commands) == IF commands = <<>> THEN {} ELSE {<<Awaited(commands)>>}

Commands(op, c, items, values) ==
  LET names == SetToSeq(items)
  IN [n \in DOMAIN names |-> Do(op, c, names[n], values[names[n]])]

(* DiffHandler.process: the objects to update, and those in either part. *)
Update(c)  == {i \in Present(want, c) : want[c][i] # cur[c][i]}
Touched(c) == Update(c) \cup doomed[c]

CreateOrModify(c) == Each("createOrModify", c, Update(c), want[c])

-----------------------------------------------------------------------------
(* The steps of the network handler *)

(* Handlers that give createOrModify each item that differs. *)
handleTrunk               == CreateOrModify("Trunk")
handleVlan                == CreateOrModify("VLAN")
handleDnsResolver         == CreateOrModify("DNS_Resolver")
handleFirewallAddressList == CreateOrModify("FirewallAddressList")
handleFirewallPortList    == CreateOrModify("FirewallPortList")
handleFirewallPolicy      == CreateOrModify("FirewallPolicy")
handleNetAddressList      == CreateOrModify("NetAddressList")
handleNetPortList         == CreateOrModify("NetPortList")
handleRoutingAsPath       == CreateOrModify("RoutingAsPath")
handleRoutingAccessList   == CreateOrModify("RoutingAccessList")

(* Classes without names; nobody waits for the second. *)
handleManagementIpFirewall ==
  Each("set", "ManagementIpFirewall", Update("ManagementIpFirewall"),
       want["ManagementIpFirewall"])

handleDagGlobals ==
  {<<Unawaited(<<Do("set", "DagGlobals", i, want["DagGlobals"][i])>>)>> :
     i \in Update("DagGlobals")}

(* handleRouteDomain: route domain 0 by itself, the others in one go. *)
RouteDomain0 == Each("createOrModify", "RouteDomain", Update("RouteDomain") \cap {Rd0},
                     want["RouteDomain"])

RouteDomains ==
  LET others == Update("RouteDomain") \ {Rd0}
      known == {i \in others : cur["RouteDomain"][i] # None}
  IN Transaction(Commands("modify", "RouteDomain", known, want["RouteDomain"])
                   \o Commands("create", "RouteDomain", others \ known, want["RouteDomain"]))

(* handleTunnel.  The profile of a vxlan tunnel has been renamed when it   *)
(* is compared, so that it always differs from the one that was read.      *)
VxlanTunnels == {i \in Update("Tunnel") : want["Tunnel"][i].fixed \in Vxlan}

Recreated ==
  {i \in Update("Tunnel") :
     /\ cur["Tunnel"][i] # None
     /\ i \in VxlanTunnels \/ want["Tunnel"][i].fixed # cur["Tunnel"][i].fixed}

VxlanGoing == {i \in Recreated : cur["Tunnel"][i].fixed \in Vxlan}

VxlanProfiles == [i \in Item |-> IF i \in VxlanTunnels THEN Profile(want["Tunnel"][i]) ELSE None]

handleTunnel == CreateOrModify("Tunnel")

(* What the declaration says, when it differs, or else what was read. *)
AcceptIpOptions ==
  LET said == IF Update("TrafficControl") = {} THEN cur ELSE want
  IN IF VxlanTunnels = {} THEN {}
     ELSE {<<Awaited(<<Do("set", "TrafficControl", Only, said["TrafficControl"][Only])>>)>>}

handleEnableRouting ==
  IF \A c \in RoutingClass : Touched(c) = {} THEN {}
  ELSE {<<Awaited(<<Do("set", "Routing", Only, Enabled)>>)>>}

(* To change the route domain of a list or a map: a transaction that       *)
(* leaves out the entries and a call that brings them.                     *)
EntriesLast(c) ==
  LET moved == {i \in Update(c) : cur[c][i] # None /\ cur[c][i].fixed # want[c][i].fixed}
  IN Each("createOrModify", c, Update(c) \ moved, want[c])
       \cup {<< Awaited(<<Do("delete", c, i, None), Do("create", c, i, Outline(want[c][i]))>>),
                Awaited(<<Do("createOrModify", c, i, want[c][i])>>) >> : i \in moved}

handleRoutingPrefixList == EntriesLast("RoutingPrefixList")
handleRouteMap          == EntriesLast("RouteMap")

(* handleRoutingBGP: what has peer groups, or another local AS, or is not  *)
(* in the declaration is deleted first.                                    *)
GoingBgp ==
  LET bgp == cur["RoutingBGP"]
      Stays(i) == /\ i \in Update("RoutingBGP")
                  /\ bgp[i].data \notin WithPeers
                  /\ bgp[i].fixed = want["RoutingBGP"][i].fixed
  IN IF Touched("RoutingBGP") = {} THEN {}
     ELSE {i \in Present(cur, "RoutingBGP") : ~Stays(i)}

handleRoutingBGP == CreateOrModify("RoutingBGP")

(* handleRoute *)
Moved == {i \in Update("Route") :
            cur["Route"][i] # None /\ cur["Route"][i].fixed # want["Route"][i].fixed}

RoutesAnew ==
  LET known == {i \in Update("Route") : cur["Route"][i] # None}
  IN Transaction(Commands("delete", "Route", known \ Moved, Nothing)
                   \o Commands("create", "Route", Update("Route"), want["Route"]))

-----------------------------------------------------------------------------
(* handleSelfIp and deleteExistingSelfIps, first for the floating self IPs *)
(* and then for the others.  What depends on a self IP is found by its new *)
(* address.                                                                *)

NewSelfIps(kind) == {i \in Update("SelfIp") : want["SelfIp"][i].fixed = kind}

Existing(kind) == {i \in NewSelfIps(kind) : device["SelfIp"][i] # None}

(* Mutant: no route is found. *)
NoMatchingRoutes(selfIps) == {}

MatchingRoutes(selfIps) ==
  {r \in Present(device, "Route") :
     \E i \in selfIps : device["Route"][r].net = want["SelfIp"][i].net}

MatchingFloating(selfIps) ==
  {f \in Floating(device) : \E i \in selfIps :
     /\ want["SelfIp"][i].fixed = "local"
     /\ want["SelfIp"][i].net = device["SelfIp"][f].net}

MatchingConfigSync(selfIps, floating) ==
  LET sync == device["ConfigSync"][Only]
  IN IF sync # None /\ \/ \E i \in selfIps : IsAddress(sync, i, want["SelfIp"][i])
                       \/ \E f \in floating : IsAddress(sync, f, device["SelfIp"][f])
       THEN sync ELSE None

(* A self IP that is deleted is remembered, unless one with its address    *)
(* and traffic group was going to be.                                      *)
Kept(kind, floating) ==
  {f \in floating : ~(/\ f \in NewSelfIps(kind)
                      /\ want["SelfIp"][f].net = device["SelfIp"][f].net
                      /\ kind = "floating")}

Add(section, c, items) == [i \in Item |-> IF i \in items THEN device[c][i] ELSE section[i]]

(* Mutant: what the first call has deleted is forgotten by the second. *)
FindRoutesAnew(kind) ==
  [mem EXCEPT !.existing = Existing(kind),
              !.routes = Add(Nothing, "Route", MatchingRoutes(Existing(kind)))]

FindRoutes(kind) ==
  [mem EXCEPT !.existing = Existing(kind),
              !.routes = Add(@, "Route", MatchingRoutes(Existing(kind)))]

FindSelfIps(kind) ==
  LET floating == MatchingFloating(mem.existing)
      sync == MatchingConfigSync(mem.existing, floating)
  IN [mem EXCEPT !.matching = floating,
                 !.floats = Add(@, "SelfIp", Kept(kind, floating)),
                 !.sync = IF @ # None THEN @ ELSE sync]

ClearConfigSync ==
  LET sync == MatchingConfigSync(mem.existing, MatchingFloating(mem.existing))
  IN IF sync = None THEN {} ELSE Each("set", "ConfigSync", {Only}, Nothing)

Recall(c, section) == Each("create", c, {i \in Item : section[i] # None}, section)

RestoreConfigSync ==
  IF mem.sync = None THEN {}
  ELSE Each("set", "ConfigSync", {Only}, [i \in Item |-> mem.sync])

Remember(step) ==
  CASE step = "floatingRoutes"  -> FindRoutes("floating")
    [] step = "floatingDepends" -> FindSelfIps("floating")
    [] step = "localRoutes"     -> FindRoutes("local")
    [] step = "localDepends"    -> FindSelfIps("local")
    [] OTHER                    -> mem

SelfIpChains(step) ==
  CASE step = "floatingRoutes" ->
         Each("delete", "Route", MatchingRoutes(Existing("floating")), Nothing)
    [] step = "localRoutes" ->
         Each("delete", "Route", MatchingRoutes(Existing("local")), Nothing)
    [] step \in {"floatingDepends", "localDepends"} -> ClearConfigSync
    [] step \in {"floatingMatching", "localMatching"} ->
         Each("delete", "SelfIp", mem.matching, Nothing)
    [] step \in {"floatingDelete", "localDelete"} ->
         Each("delete", "SelfIp", mem.existing, Nothing)
    [] step = "localCreate" -> Each("create", "SelfIp", NewSelfIps("local"), want["SelfIp"])
    [] step = "floatingCreate" ->
         Each("create", "SelfIp", NewSelfIps("floating"), want["SelfIp"])
    [] step = "floatingRecall" -> Recall("SelfIp", mem.floats)
    [] step = "syncRecall"     -> RestoreConfigSync
    [] step = "routesRecall"   -> Recall("Route", mem.routes)

-----------------------------------------------------------------------------
(* The steps of the delete handler *)

(* DELETABLE_CLASSES, as far as they are modelled, in their order. *)
DeletePlan ==
  << "DNS_Resolver", "Route", "SelfIp", "FirewallPolicy", "FirewallAddressList",
     "FirewallPortList", "NetAddressList", "NetPortList", "VLAN", "Trunk", "RouteMap",
     "RoutingPrefixList", "RouteDomain", "Tunnel", "RoutingAccessList", "RoutingAsPath" >>

(* An empty class means all items that were read. *)
Items(c) ==
  {i \in IF want[c] = Nothing /\ doomed[c] # {} THEN Present(cur, c) ELSE doomed[c] :
     <<c, i>> \notin Retained}

HasTwin(c, i) == c \in DOMAIN TwinOf /\ cur[TwinOf[c]][i] # None

(* deleteClass and getDeletePromise, for which what is not there has been  *)
(* deleted.  The profile of a vxlan tunnel is not waited for.              *)
Deletion(c) ==
  CASE c = "RouteDomain" -> Transaction(Commands("delete", c, Items(c), Nothing))
    [] c \in DOMAIN TwinOf ->
         {<<Awaited(<<Do("clear", IF HasTwin(c, i) THEN TwinOf[c] ELSE c, i, None)>>)>> :
            i \in Items(c)}
    [] c = "Tunnel" ->
         {IF cur[c][i].fixed \in Vxlan
            THEN <<Awaited(<<Do("clear", c, i, None)>>),
                   Unawaited(<<Do("clear", "VXLAN", i, None)>>)>>
            ELSE <<Awaited(<<Do("clear", c, i, None)>>)>> : i \in Items(c)}
    [] OTHER -> Each("clear", c, Items(c), Nothing)

(* The twin of a list that is deleted leaves the configuration of the task. *)
WithoutTwins(c) ==
  IF c \notin DOMAIN TwinOf THEN cur
  ELSE [cur EXCEPT ![TwinOf[c]] = [i \in Item |-> IF i \in Items(c) THEN None ELSE @[i]]]

-----------------------------------------------------------------------------
(* The plan *)

NetworkPlan ==
  << "Trunk", "VLAN", "RouteDomain0", "RouteDomain", "DNS_Resolver",
     "tunnelDelete", "vxlanDelete", "vxlanCreate", "tunnelCreate", "acceptIpOptions",
     "FirewallAddressList", "FirewallPortList", "FirewallPolicy", "NetAddressList",
     "NetPortList", "ManagementIpFirewall",
     "floatingRoutes", "floatingDepends", "floatingMatching", "floatingDelete",
     "localRoutes", "localDepends", "localMatching", "localDelete", "localCreate",
     "floatingCreate", "floatingRecall", "syncRecall", "routesRecall",
     "routeDelete", "routeCreate", "DagGlobals", "enableRouting", "RoutingAsPath",
     "RoutingAccessList", "RoutingPrefixList", "RouteMap", "bgpDelete", "bgpCreate" >>

LastStep == Len(NetworkPlan) + Len(DeletePlan)

Chains(step) ==
  CASE step = "Trunk"           -> handleTrunk
    [] step = "VLAN"            -> handleVlan
    [] step = "RouteDomain0"    -> RouteDomain0
    [] step = "RouteDomain"     -> RouteDomains
    [] step = "DNS_Resolver"    -> handleDnsResolver
    [] step = "tunnelDelete"    -> Each("delete", "Tunnel", Recreated, Nothing)
    [] step = "vxlanDelete"     -> Each("delete", "VXLAN", VxlanGoing, Nothing)
    [] step = "vxlanCreate"     -> Each("createOrModify", "VXLAN", VxlanTunnels, VxlanProfiles)
    [] step = "tunnelCreate"    -> handleTunnel
    [] step = "acceptIpOptions" -> AcceptIpOptions
    [] step = "FirewallAddressList"  -> handleFirewallAddressList
    [] step = "FirewallPortList"     -> handleFirewallPortList
    [] step = "FirewallPolicy"       -> handleFirewallPolicy
    [] step = "NetAddressList"       -> handleNetAddressList
    [] step = "NetPortList"          -> handleNetPortList
    [] step = "ManagementIpFirewall" -> handleManagementIpFirewall
    [] step = "routeDelete"     -> Transaction(Commands("delete", "Route", Moved, Nothing))
    [] step = "routeCreate"     -> RoutesAnew
    [] step = "DagGlobals"      -> handleDagGlobals
    [] step = "enableRouting"   -> handleEnableRouting
    [] step = "RoutingAsPath"     -> handleRoutingAsPath
    [] step = "RoutingAccessList" -> handleRoutingAccessList
    [] step = "RoutingPrefixList" -> handleRoutingPrefixList
    [] step = "RouteMap"          -> handleRouteMap
    [] step = "bgpDelete"       -> Each("delete", "RoutingBGP", GoingBgp, Nothing)
    [] step = "bgpCreate"       -> handleRoutingBGP
    [] OTHER                    -> SelfIpChains(step)

(* What step n of the plan starts, and what it changes at once. *)
DeletedClass(n) == DeletePlan[n - Len(NetworkPlan)]

Started(n) ==
  IF n <= Len(NetworkPlan) THEN Chains(NetworkPlan[n]) ELSE Deletion(DeletedClass(n))

MemoryAfter(n) == IF n <= Len(NetworkPlan) THEN Remember(NetworkPlan[n]) ELSE mem

ConfigAfter(n) == IF n <= Len(NetworkPlan) THEN cur ELSE WithoutTwins(DeletedClass(n))

Idle(n) == Started(n) = {} /\ MemoryAfter(n) = mem /\ ConfigAfter(n) = cur

-----------------------------------------------------------------------------
(* Actions *)

Reading == [c \in DeclaredClass |-> device[c]]

(* Mutant: what is no class of a declaration is taken for one. *)
ReadEverything(target) == device

(* applyFirewallAddressListFixes and its likes: the twin of a list that is *)
(* declared is taken out of what was read, to be left alone.               *)
WithoutDeclaredTwins(target) ==
  [c \in DeclaredClass |->
     IF c \in DOMAIN TwinOf
       THEN [i \in Item |-> IF target[TwinOf[c]][i] # None THEN None ELSE device[c][i]]
       ELSE device[c]]

(* DeclarationHandler.process up to the network handler; the system        *)
(* handler has set the traffic control.                                    *)
Process(target, reading, p) ==
  /\ want' = target
  /\ cur' = reading
  /\ doomed' = [c \in DeclaredClass |-> Present(cur', c) \ Present(target, c)]
  /\ device' = [device EXCEPT !["TrafficControl"] = target["TrafficControl"]]
  /\ phase' = p
  /\ pc' = 1
  /\ mem' = NoMemory

Apply ==
  /\ phase = "start"
  /\ Process(want, WithoutDeclaredTwins(want), "apply")
  /\ UNCHANGED <<before, declared, group, loose, faults, late>>

(* Mutant: the device is not read again. *)
RollBackStale ==
  /\ phase = "rejected"
  /\ Process(cur, cur, "rollback")
  /\ late' = (loose # {})
  /\ UNCHANGED <<before, declared, group, loose, faults>>

(* The catch of onboard.  The copy it takes of the configuration is        *)
(* shallow: what the handlers took out of it is gone.                      *)
RollBack ==
  /\ phase = "rejected"
  /\ Process(cur, WithoutDeclaredTwins(cur), "rollback")
  /\ late' = (loose # {})
  /\ UNCHANGED <<before, declared, group, loose, faults>>

Running == phase \in {"apply", "rollback"}

(* The next step that has something to do. *)
Begin ==
  LET busy == {n \in pc .. LastStep : ~Idle(n)}
      n == Min(busy)
  IN /\ Running
     /\ group = {}
     /\ busy # {}
     /\ pc' = n + 1
     /\ mem' = MemoryAfter(n)
     /\ cur' = ConfigAfter(n)
     /\ group' = {chain \in Started(n) : Head(chain).awaited}
     /\ loose' = loose \cup (Started(n) \ group')
     /\ UNCHANGED <<device, before, want, declared, doomed, phase, faults, late>>

Resolve ==
  /\ Running
  /\ group = {}
  /\ \A n \in pc .. LastStep : Idle(n)
  /\ phase' = IF phase = "apply" THEN "done" ELSE "rolledBack"
  /\ UNCHANGED <<device, before, want, declared, cur, doomed, pc, mem, group, loose, faults,
                 late>>

Rest(chain) == IF Tail(chain) = <<>> THEN {} ELSE {Tail(chain)}

Perform(chain) ==
  /\ Accepted(Head(chain))
  /\ device' = Outcome(Head(chain))
  /\ group' = (group \ {chain}) \cup {rest \in Rest(chain) : Head(rest).awaited}
  /\ loose' = loose \cup {rest \in Rest(chain) : ~Head(rest).awaited}
  /\ UNCHANGED <<before, want, declared, cur, doomed, phase, pc, mem, faults, late>>

(* Promise.all rejects: nobody waits for the other chains any more. *)
Reject(chain) ==
  /\ IF Accepted(Head(chain)) THEN faults < MaxFaults /\ faults' = faults + 1
                              ELSE UNCHANGED faults
  /\ phase' = IF phase = "apply" THEN "rejected" ELSE "failed"
  /\ group' = {}
  /\ loose' = loose \cup (group \ {chain})
  /\ UNCHANGED <<device, before, want, declared, cur, doomed, pc, mem, late>>

PerformLoose(chain) ==
  /\ LET accepted == Accepted(Head(chain))
     IN /\ device' = IF accepted THEN Outcome(Head(chain)) ELSE device
        /\ loose' = (loose \ {chain}) \cup (IF accepted THEN Rest(chain) ELSE {})
  /\ UNCHANGED <<before, want, declared, cur, doomed, phase, pc, mem, group, faults, late>>

Init ==
  /\ \E c \in Cases : device = c.before /\ want = c.want
  /\ before = device
  /\ declared = want
  /\ cur = Reading
  /\ doomed = [c \in DeclaredClass |-> {}]
  /\ phase = "start"
  /\ pc = 1
  /\ mem = NoMemory
  /\ group = {}
  /\ loose = {}
  /\ faults = 0
  /\ late = FALSE

Next ==
  \/ Apply \/ RollBack \/ Begin \/ Resolve
  \/ \E chain \in group : Perform(chain) \/ Reject(chain)
  \/ \E chain \in loose : PerformLoose(chain)

Spec == Init /\ [][Next]_vars

-----------------------------------------------------------------------------
(* Properties *)

TypeOK ==
  /\ device \in Device /\ before \in Device
  /\ want \in Config /\ declared \in Config /\ cur \in Config
  /\ doomed \in [DeclaredClass -> SUBSET Item]
  /\ phase \in Phase
  /\ pc \in 1 .. LastStep + 1
  /\ mem \in Memory
  /\ group \subseteq Chain /\ loose \subseteq Chain
  /\ faults \in 0 .. MaxFaults
  /\ late \in BOOLEAN

Settled == loose = {}

(* With AFM a list is there when either of its two classes has it. *)
Expected(config, c, i) ==
  IF Afm /\ c \in DOMAIN TwinOf /\ config[c][i] = None THEN config[TwinOf[c]][i]
                                                       ELSE config[c][i]

Shows(config) ==
  \A c \in DeclaredClass, i \in Item :
    device[c][i] = IF <<c, i>> \in Retained /\ config[c][i] = None
                     THEN before[c][i] ELSE Expected(config, c, i)

HasProfiles(config) ==
  \A i \in Item :
    device["VXLAN"][i] = IF config["Tunnel"][i] # None /\ config["Tunnel"][i].fixed \in Vxlan
                           THEN Profile(config["Tunnel"][i]) ELSE None

(* Handlers that resolve have made the device what was asked for, and no   *)
(* more: the routes, floating self IPs and config sync address that were   *)
(* taken away to change a self IP are back, a changed tunnel has its       *)
(* profile and has not changed the traffic control, and what the           *)
(* declaration drops is gone.                                              *)
Applied ==
  phase = "done" /\ Settled =>
    /\ Shows(declared)
    /\ HasProfiles(declared)
    /\ device["ConfigSync"] = before["ConfigSync"]

(* The handlers change self IPs in place only, and take away neither the   *)
(* config sync IP nor a floating self IP together with the one it needs.   *)
KeepsSelfIps ==
  LET old == cur["SelfIp"]
      new == want["SelfIp"]
      gone == doomed["SelfIp"]
      Is(i, kind) == old[i].fixed = kind
  IN /\ \A i \in Item : old[i] # None /\ new[i] # None =>
          old[i].fixed = new[i].fixed /\ old[i].net = new[i].net
     /\ ~ \E i, j \in gone : Is(i, "local") /\ Is(j, "floating") /\ old[i].net = old[j].net
     /\ device["ConfigSync"][Only] # None => device["ConfigSync"][Only].data \notin gone

(* No tunnel that is deleted to be created again carries a self IP. *)
KeepsTunnels ==
  \A i \in Present(cur, "SelfIp"), t \in Recreated :
    <<"Tunnel", t>> \notin cur["SelfIp"][i].refs

(* The task has taken a list out of what it will roll back to: a list that *)
(* is declared in both of its classes, or is deleted.                      *)
LosesList(c, i) ==
  /\ c \in DOMAIN TwinOf
  /\ before[c][i] # None
  /\ declared[c][i] = None <=> declared[TwinOf[c]][i] = None

LosesLists == \E c \in DOMAIN TwinOf, i \in Item : LosesList(c, i)

(* The device never refuses a call for what it would leave behind: objects *)
(* come before and go after those that refer to them, in the handlers that *)
(* apply a declaration and in those that roll it back, wherever the first  *)
(* were interrupted.                                                       *)
NothingIsRefused ==
  [][Running /\ ~late /\ phase' \in {"rejected", "failed"} /\ faults' = faults
       => ~KeepsSelfIps \/ ~KeepsTunnels \/ (phase = "rollback" /\ LosesLists)]_vars

(* A rollback that resolves has undone everything that the interrupted     *)
(* handlers had done: whatever was in flight is accounted for.  Excepted   *)
(* are lists that the task has lost, and the profile of a vxlan tunnel     *)
(* that did not come about, which no reading of the device shows.          *)
RollbackRestores ==
  phase = "rolledBack" /\ Settled /\ ~late =>
    \A c \in DeclaredClass, i \in Item : device[c][i] = before[c][i] \/ LosesList(c, i)

-----------------------------------------------------------------------------
(* What is assumed of the configurations *)

(* Lists are there twice with AFM, and else in the second of two classes.  *)
First(c) ==
  IF c \in {"FirewallAddressList", "NetAddressList"} THEN "FirewallAddressList"
                                                     ELSE "FirewallPortList"

(* Only the tunnel of its name refers to a vxlan profile. *)
Fits(c, i, v) ==
  /\ c \in {"TrafficControl", "DagGlobals"} => v.refs = {}
  /\ \A j \in Item : <<"VXLAN", j>> \in v.refs => c = "Tunnel" /\ i = j

(* Objects without names are there always or never; with AFM a list is     *)
(* there under both of its classes, and declared alike if it is declared   *)
(* under both; without AFM the first of them does not exist.               *)
DeviceFits(first, dev) ==
  /\ Sound(dev)
  /\ \A c \in Class, i \in Item : dev[c][i] # None => Fits(c, i, dev[c][i])
  /\ \A c \in SingleClass, i \in Item : dev[c][i] = None <=> first[c][i] = None
  /\ \A c \in DOMAIN TwinOf :
       IF Afm THEN dev[c] = dev[TwinOf[c]] ELSE c = First(c) => dev[c] = Nothing

ConfigFits(first, to) ==
  /\ \A c \in DeclaredClass, i \in Item : to[c][i] # None => Fits(c, i, to[c][i])
  /\ \A c \in SingleClass, i \in Item : to[c][i] = None <=> first[c][i] = None
  /\ \A c \in DOMAIN TwinOf :
       IF Afm THEN \A i \in Present(to, c) \cap Present(to, TwinOf[c]) : to[c][i] = to[TwinOf[c]][i]
              ELSE c = First(c) => to[c] = Nothing
  /\ \A i \in Present(to, "SelfIp") : to["SelfIp"][i].fixed \in {"local", "floating"}
  /\ \A i, j \in Present(to, "RoutingBGP") : i = j

(* Profiles belong to tunnels, and what the delete handler leaves alone is *)
(* there from the start.                                                   *)
CaseFits(first, to) ==
  /\ DeviceFits(first, first) /\ ConfigFits(first, to)
  /\ first["TrafficControl"][Only] # None
  /\ \A i \in Present(first, "SelfIp") : first["SelfIp"][i].fixed \in {"local", "floating"}
  /\ \A i \in Item :
       first["VXLAN"][i] = IF first["Tunnel"][i] # None /\ first["Tunnel"][i].fixed \in Vxlan
                             THEN Profile(first["Tunnel"][i]) ELSE None
  /\ \A c \in DeclaredClass, i \in Item : <<c, i>> \in Retained =>
       /\ first[c][i] # None
       /\ c = "Tunnel" => first[c][i].fixed \notin Vxlan

ASSUME CasesAssumption ==
  /\ AcceptAll.refs = {} /\ Enabled.refs = {}
  /\ \A v \in Values : "refs" \in DOMAIN v /\ v.refs \subseteq Class \X Item
  /\ \A r \in Retained : r[1] \in {"RouteDomain", "Tunnel", "DNS_Resolver"}
  /\ \A c \in Cases : CaseFits(c.before, c.want)
=============================================================================
