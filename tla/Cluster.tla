------------------------------- MODULE Cluster -------------------------------
(***************************************************************************)
(* The clustering handler (src/lib/dscHandler.js) of several BIG-IPs that  *)
(* were given the same DeviceTrust and DeviceGroup at about the same time. *)
(*                                                                         *)
(* Each device runs its own handler: it looks up who the members are, joins*)
(* the trust domain of the remote host or waits for a group, adds itself,  *)
(* and takes out of the group whoever it does not take for a member.  What *)
(* a handler has read is old when it is used.                              *)
(*                                                                         *)
(* Devices that trust each other share their groups; this, and joinCluster,*)
(* are f5-cloud-libs and TMOS.  Left out: failover and mirror addresses,   *)
(* MAC masquerade, and the rollback.                                       *)
(***************************************************************************)
EXTENDS Naturals, FiniteSets, Sequences

CONSTANTS
  Device,      \* the BIG-IPs; a device stands for its hostname, too
  Group,       \* names of device groups
  Absent,      \* a group that does not exist
  NoTrust,     \* a declaration without DeviceTrust
  Cases,       \* declarations, and what they find
  MaxFaults    \* calls that fail and waits that time out, in all

(* An address in a declaration: a hostname, a management address or the    *)
(* config sync address of a device.                                        *)
Address == [of: Device, kind: {"name", "management", "configSync"}]

DeviceGroup == [name: Group, owner: Address, members: SUBSET Address]

(* trusted: the devices that are in one trust domain already, with the     *)
(* groups in existing; active: those that are given the declaration.  The  *)
(* groups are the properties of an object, so their names differ.          *)
Case == [groups: Seq(DeviceGroup), remote: Address \cup {NoTrust}, haOrder: SUBSET Device,
         syncs: BOOLEAN, active: SUBSET Device, trusted: SUBSET Device,
         existing: [Group -> {Absent} \cup SUBSET Device]]

ASSUME ClusterAssumption ==
  /\ NoTrust \notin Address
  /\ \A devices \in SUBSET Device : devices # Absent
  /\ Cases \subseteq Case
  /\ \A c \in Cases : \A i, j \in DOMAIN c.groups : c.groups[i].name = c.groups[j].name => i = j
  /\ MaxFaults \in Nat

VARIABLES
  case,        \* the declaration
  trust,       \* the devices that each device trusts
  groups,      \* the groups that each device knows, with their members
  synced,      \* the devices that have a config sync address
  config,      \* whose configuration a device has
  haOrder,     \* the failover order in the traffic group of each device
  pc, turn,    \* the await at which a handler is; the group it is about
  converted,   \* what convertToHostnames gave
  seen,        \* the devices the last call listed
  needsSync,   \* the variable of createDeviceGroup
  faults

vars == <<case, trust, groups, synced, config, haOrder, pc, turn, converted, seen, needsSync,
          faults>>

Await == {"configSync", "trust", "convertAll", "convert", "inTrust", "create", "waitForGroup",
          "add", "join", "joinGroup", "reconvert", "list", "remove", "sync", "groupsOfTraffic",
          "trafficGroup", "done", "failed", "hung", "idle"}

Stopped == {"done", "failed", "hung", "idle"}

Converted == [members: SUBSET Device, owner: Address]

Hostname(d) == [of |-> d, kind |-> "name"]
IsIp(address) == address.kind # "name"

-----------------------------------------------------------------------------
(* The helpers of the handler *)

(* Mutant: the owner is compared as it was declared. *)
ConvertMembers(d, dg) ==
  LET devices == IF \E m \in dg.members : IsIp(m) THEN trust[d] ELSE {}
  IN [members |-> {m.of : m \in {m \in dg.members : IsIp(m) => m.of \in devices}},
      owner   |-> dg.owner]

(* convertToHostnames: the devices are listed only when some member is an  *)
(* IP address; a member that is not found is dropped.                      *)
Convert(d, dg) ==
  LET devices == IF \E m \in dg.members : IsIp(m) THEN trust[d] ELSE {}
      Found(a) == /\ a.of \in devices
                  /\ a.kind = "configSync" => a.of \in synced
      ToHostname(a) == IF IsIp(a) /\ Found(a) THEN Hostname(a.of) ELSE a
  IN [members |-> {m.of : m \in {m \in dg.members : ~IsIp(ToHostname(m))}},
      owner   |-> ToHostname(dg.owner)]

(* isRemoteHost: by hostname, management address or self IP. *)
IsRemoteHost(d) == case.remote.of = d

IsOwner(d, conv) == conv.owner = Hostname(d)

ThisGroup(d) == case.groups[turn[d]]
Members(d) == groups[d][ThisGroup(d).name]

Joins == case.remote # NoTrust /\ case.groups # <<>>

(* Mutant: one turn too many. *)
NextGroupLate(d, first) ==
  IF turn[d] <= Len(case.groups) THEN <<turn[d] + 1, first>> ELSE <<turn[d], "groupsOfTraffic">>

(* After the last group comes the traffic group. *)
NextGroup(d, first) ==
  IF turn[d] < Len(case.groups) THEN <<turn[d] + 1, first>> ELSE <<turn[d], "groupsOfTraffic">>

(* handleDeviceGroup *)
FirstOf(d, conv) == IF IsOwner(d, conv) THEN "inTrust" ELSE "waitForGroup"

Go(d, step) == pc' = [pc EXCEPT ![d] = step]

(* All devices in the domain of d see the group change. *)
SetGroup(d, g, members) ==
  groups' = [e \in Device |-> IF e \in trust[d] THEN [groups[e] EXCEPT ![g] = members]
                                                ELSE groups[e]]

(* addToTrust: d leaves its own domain for that of the remote host. *)
Domain(d, remote) == trust[remote] \cup {d}

AddToTrust(d, remote) ==
  /\ trust' = [e \in Device |-> IF e \in Domain(d, remote) THEN Domain(d, remote)
                                                           ELSE trust[e] \ {d}]
  /\ groups' = [groups EXCEPT ![d] = groups[remote]]

-----------------------------------------------------------------------------
(* The handler of device d, from one await to the next *)

(* handleConfigSync, and where handleDeviceTrustAndGroup begins. *)
ConfigSync(d) ==
  /\ pc[d] = "configSync"
  /\ synced' = IF case.syncs THEN synced \cup {d} ELSE synced
  /\ Go(d, IF Joins THEN "convert" ELSE "trust")
  /\ UNCHANGED <<case, trust, groups, config, haOrder, turn, converted, seen, needsSync, faults>>

(* handleDeviceTrust, when there are no groups. *)
DeviceTrust(d) ==
  /\ pc[d] = "trust"
  /\ IF case.remote = NoTrust \/ IsRemoteHost(d)
       THEN UNCHANGED <<trust, groups>>
       ELSE AddToTrust(d, case.remote.of)
  /\ Go(d, IF case.groups = <<>> THEN "groupsOfTraffic" ELSE "convertAll")
  /\ UNCHANGED <<case, synced, config, haOrder, turn, converted, seen, needsSync, faults>>

(* Groups without a trust: each one is converted, and the last is kept. *)
ConvertAll(d) ==
  /\ pc[d] = "convertAll"
  /\ LET conv == Convert(d, case.groups[Len(case.groups)])
     IN /\ converted' = [converted EXCEPT ![d] = conv]
        /\ Go(d, FirstOf(d, conv))
  /\ UNCHANGED <<case, trust, groups, synced, config, haOrder, turn, seen, needsSync, faults>>

(* Groups and a trust: the remote host and the owner take care of the      *)
(* group, the others join the cluster.                                     *)
ConvertOne(d) ==
  /\ pc[d] = "convert"
  /\ LET conv == Convert(d, ThisGroup(d))
     IN /\ converted' = [converted EXCEPT ![d] = conv]
        /\ Go(d, IF IsOwner(d, conv) \/ IsRemoteHost(d) THEN FirstOf(d, conv) ELSE "join")
  /\ UNCHANGED <<case, trust, groups, synced, config, haOrder, turn, seen, needsSync, faults>>

(* joinCluster waits for the group on the remote host. *)
Join(d) ==
  /\ pc[d] = "join"
  /\ groups[case.remote.of][ThisGroup(d).name] # Absent
  /\ AddToTrust(d, case.remote.of)
  /\ Go(d, "joinGroup")
  /\ UNCHANGED <<case, synced, config, haOrder, turn, converted, seen, needsSync, faults>>

JoinGroup(d) ==
  /\ pc[d] = "joinGroup"
  /\ SetGroup(d, ThisGroup(d).name, Members(d) \cup {d})
  /\ config' = [config EXCEPT ![d] = config[case.remote.of]]
  /\ Go(d, "reconvert")
  /\ UNCHANGED <<case, trust, synced, haOrder, turn, converted, seen, needsSync, faults>>

(* Mutant: what was found before joining is used after it. *)
ReconvertNothing(d) ==
  /\ pc[d] = "reconvert"
  /\ Go(d, "list")
  /\ UNCHANGED <<case, trust, groups, synced, config, haOrder, turn, converted, seen, needsSync,
                 faults>>

Reconvert(d) ==
  /\ pc[d] = "reconvert"
  /\ converted' = [converted EXCEPT ![d].members = Convert(d, ThisGroup(d)).members]
  /\ Go(d, "list")
  /\ UNCHANGED <<case, trust, groups, synced, config, haOrder, turn, seen, needsSync, faults>>

(* joinDeviceGroup *)
WaitForGroup(d) ==
  /\ pc[d] = "waitForGroup"
  /\ Members(d) # Absent
  /\ Go(d, "add")
  /\ UNCHANGED <<case, trust, groups, synced, config, haOrder, turn, converted, seen, needsSync,
                 faults>>

Add(d) ==
  /\ pc[d] = "add"
  /\ SetGroup(d, ThisGroup(d).name, Members(d) \cup {d})
  /\ Go(d, "list")
  /\ UNCHANGED <<case, trust, synced, config, haOrder, turn, converted, seen, needsSync, faults>>

(* Mutant: only a prune is followed by a sync. *)
AreInTrustQuiet(d) ==
  /\ pc[d] = "inTrust"
  /\ seen' = [seen EXCEPT ![d] = converted[d].members \cap trust[d]]
  /\ needsSync' = [needsSync EXCEPT ![d] = FALSE]
  /\ Go(d, "create")
  /\ UNCHANGED <<case, trust, groups, synced, config, haOrder, turn, converted, faults>>

(* createDeviceGroup *)
AreInTrust(d) ==
  /\ pc[d] = "inTrust"
  /\ LET devices == converted[d].members \cap trust[d]
     IN /\ seen' = [seen EXCEPT ![d] = devices]
        /\ needsSync' = [needsSync EXCEPT ![d] = devices # {}]
  /\ Go(d, "create")
  /\ UNCHANGED <<case, trust, groups, synced, config, haOrder, turn, converted, faults>>

(* Mutant: a group that exists stays as it is. *)
CreateIfAbsent(d) ==
  /\ pc[d] = "create"
  /\ IF Members(d) = Absent THEN SetGroup(d, ThisGroup(d).name, seen[d]) ELSE UNCHANGED groups
  /\ Go(d, "list")
  /\ UNCHANGED <<case, trust, synced, config, haOrder, turn, converted, seen, needsSync, faults>>

Create(d) ==
  /\ pc[d] = "create"
  /\ SetGroup(d, ThisGroup(d).name,
              IF Members(d) = Absent THEN seen[d] ELSE Members(d) \cup seen[d])
  /\ Go(d, "list")
  /\ UNCHANGED <<case, trust, synced, config, haOrder, turn, converted, seen, needsSync, faults>>

(* pruneDeviceGroup *)
AfterPrune(d) ==
  IF IsOwner(d, converted[d])
    THEN <<turn[d], "sync">>
    ELSE NextGroup(d, IF Joins THEN "convert" ELSE FirstOf(d, converted[d]))

LeavePrune(d) ==
  /\ turn' = [turn EXCEPT ![d] = AfterPrune(d)[1]]
  /\ Go(d, AfterPrune(d)[2])

(* Mutant: nobody is taken out. *)
NobodySuperfluous(d) == {}

Superfluous(d) ==
  IF converted[d].members = {} THEN {} ELSE Members(d) \ converted[d].members

PruneList(d) ==
  /\ pc[d] = "list"
  /\ seen' = [seen EXCEPT ![d] = Superfluous(d)]
  /\ IF Superfluous(d) = {} THEN LeavePrune(d)
                            ELSE Go(d, "remove") /\ UNCHANGED turn
  /\ UNCHANGED <<case, trust, groups, synced, config, haOrder, converted, needsSync, faults>>

PruneRemove(d) ==
  /\ pc[d] = "remove"
  /\ SetGroup(d, ThisGroup(d).name, Members(d) \ seen[d])
  /\ needsSync' = [needsSync EXCEPT ![d] = TRUE]
  /\ LeavePrune(d)
  /\ UNCHANGED <<case, trust, synced, config, haOrder, converted, seen, faults>>

(* The end of createDeviceGroup. *)
Sync(d) ==
  /\ pc[d] = "sync"
  /\ config' = IF needsSync[d]
                 THEN [e \in Device |-> IF e \in Members(d) THEN config[d] ELSE config[e]]
                 ELSE config
  /\ LET next == NextGroup(d, IF Joins THEN "convert" ELSE FirstOf(d, converted[d]))
     IN turn' = [turn EXCEPT ![d] = next[1]] /\ Go(d, next[2])
  /\ UNCHANGED <<case, trust, groups, synced, haOrder, converted, seen, needsSync, faults>>

(* handleTrafficGroup keeps of the declared order who is in a group. *)
GroupsOfTraffic(d) ==
  /\ pc[d] = "groupsOfTraffic"
  /\ LET existing == {g \in Group : groups[d][g] # Absent}
     IN seen' = [seen EXCEPT ![d] = UNION {groups[d][g] : g \in existing}]
  /\ Go(d, "trafficGroup")
  /\ UNCHANGED <<case, trust, groups, synced, config, haOrder, turn, converted, needsSync, faults>>

TrafficGroup(d) ==
  /\ pc[d] = "trafficGroup"
  /\ haOrder' = [haOrder EXCEPT ![d] = case.haOrder \cap seen[d]]
  /\ Go(d, "done")
  /\ UNCHANGED <<case, trust, groups, synced, config, turn, converted, seen, needsSync, faults>>

(* A call is rejected, or a wait has taken too long.  waitForDeviceGroup   *)
(* does not pass on a rejection of hasDeviceGroup: its promise never ends. *)
Fails(d) ==
  /\ pc[d] \notin Stopped
  /\ faults < MaxFaults
  /\ faults' = faults + 1
  /\ \E end \in {"failed"} \cup (IF pc[d] = "waitForGroup" THEN {"hung"} ELSE {}) : Go(d, end)
  /\ UNCHANGED <<case, trust, groups, synced, config, haOrder, turn, converted, seen, needsSync>>

Handle(d) ==
  \/ ConfigSync(d) \/ DeviceTrust(d) \/ ConvertAll(d) \/ ConvertOne(d) \/ Join(d)
  \/ JoinGroup(d) \/ Reconvert(d) \/ WaitForGroup(d) \/ Add(d) \/ AreInTrust(d) \/ Create(d)
  \/ PruneList(d) \/ PruneRemove(d) \/ Sync(d) \/ GroupsOfTraffic(d) \/ TrafficGroup(d)

Init ==
  /\ case \in Cases
  /\ trust = [d \in Device |-> IF d \in case.trusted THEN case.trusted ELSE {d}]
  /\ groups = [d \in Device |-> IF d \in case.trusted THEN case.existing
                                                      ELSE [g \in Group |-> Absent]]
  /\ synced = IF case.syncs THEN case.trusted ELSE {}
  /\ config = [d \in Device |-> d]
  /\ haOrder = [d \in Device |-> {}]
  /\ pc = [d \in Device |-> IF d \in case.active THEN "configSync" ELSE "idle"]
  /\ turn = [d \in Device |-> 1]
  /\ converted = [d \in Device |-> [members |-> {}, owner |-> Hostname(d)]]
  /\ seen = [d \in Device |-> {}]
  /\ needsSync = [d \in Device |-> FALSE]
  /\ faults = 0

Next == \E d \in Device : Handle(d) \/ Fails(d)

(* Node's event loop, and calls that are answered. *)
Spec == Init /\ [][Next]_vars /\ \A d \in Device : WF_vars(Handle(d))

-----------------------------------------------------------------------------
(* Properties *)

TypeOK ==
  /\ case \in Cases
  /\ trust \in [Device -> SUBSET Device]
  /\ groups \in [Device -> [Group -> {Absent} \cup SUBSET Device]]
  /\ synced \subseteq Device
  /\ config \in [Device -> Device]
  /\ haOrder \in [Device -> SUBSET Device]
  /\ pc \in [Device -> Await]
  /\ turn \in [Device -> 1 .. Len(case.groups) \cup {1}]
  /\ converted \in [Device -> Converted]
  /\ seen \in [Device -> SUBSET Device]
  /\ needsSync \in [Device -> BOOLEAN]
  /\ faults \in 0 .. MaxFaults

DeclaredGroups == {case.groups[i] : i \in DOMAIN case.groups}
MembersOf(dg) == {m.of : m \in dg.members}

(* The members that all handlers know by their hostnames: they are         *)
(* declared so, or were trusted before.                                    *)
KnownMembers(dg) ==
  {m.of : m \in {m \in dg.members :
     \/ ~IsIp(m)
     \/ m.of \in case.trusted /\ (m.kind = "configSync" => case.syncs)}}

(* Without a DeviceTrust all groups get the members and owner of the last. *)
SameForAll == Joins \/ \A dg, other \in DeclaredGroups :
                         dg.members = other.members /\ dg.owner = other.owner

(* The owner recognises itself.                                            *)
Recognisable(dg) ==
  IsIp(dg.owner) => /\ \E m \in dg.members : IsIp(m)
                    /\ dg.owner.kind = "configSync" => case.syncs

(* No device takes a known member out of a group that the declaration puts *)
(* it in, whatever the others do between its calls and wherever they fail: *)
(* members may be lost only where a device itself joins another domain.    *)
MembersStay ==
  [][SameForAll => \A dg \in DeclaredGroups, d \in Device :
       groups[d][dg.name] # Absent /\ (pc'[d] = pc[d] \/ trust'[d] = trust[d]) =>
         groups[d][dg.name] \cap KnownMembers(dg) \subseteq groups'[d][dg.name]]_vars

Done(d) == pc[d] = "done"

(* A device whose handler has resolved is in the groups it is declared a   *)
(* member of, in no other declared one that has members, and in its own    *)
(* failover order.                                                         *)
DoneIsMember ==
  \A d \in case.active : Done(d) /\ SameForAll => \A dg \in DeclaredGroups :
    /\ groups[d][dg.name] # Absent
    /\ d \in KnownMembers(dg) => d \in groups[d][dg.name]
    /\ KnownMembers(dg) # {} /\ d \notin MembersOf(dg) => d \notin groups[d][dg.name]
    /\ d \in KnownMembers(dg) \cap case.haOrder => d \in haOrder[d]

(* When the handlers of all devices have resolved, each group has its own  *)
(* members on each of them, as far as they are known and were there.       *)
AllDone == \A d \in case.active : Done(d)

GroupsAsDeclared ==
  AllDone /\ SameForAll => \A dg \in DeclaredGroups, d \in case.active :
    KnownMembers(dg) # {} =>
      /\ KnownMembers(dg) \cap (case.active \cup case.trusted) \subseteq groups[d][dg.name]
      /\ groups[d][dg.name] \subseteq MembersOf(dg)

(* The members of a group that the declaration establishes together with   *)
(* their trust end with the configuration of its owner.  The owner is the  *)
(* remote host in all declarations that are checked; of another one it is  *)
(* false, because who joins after the owner has synced the group has the   *)
(* configuration of the remote host (handleJoinCluster).                   *)
OwnerIsCopied ==
  AllDone /\ Joins /\ Len(case.groups) = 1 => \A dg \in DeclaredGroups :
    \A d \in KnownMembers(dg) \cap (case.active \cup case.trusted) :
      config[d] = config[dg.owner.of]

(* Nobody waits for ever for a group, or for somebody who waits: without a *)
(* failure all handlers resolve, if every owner recognises itself.         *)
EveryoneFinishes ==
  (\A dg \in DeclaredGroups : Recognisable(dg)) /\ SameForAll => <>(faults > 0 \/ AllDone)
=============================================================================
