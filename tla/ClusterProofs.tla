---------------------------- MODULE ClusterProofs ----------------------------
(* Proofs about Cluster for any number of devices and groups, every        *)
(* declaration, every interleaving of the handlers and any number of       *)
(* failures.                                                               *)
EXTENDS Cluster, TLAPS

-----------------------------------------------------------------------------
(* Type correctness *)

(* Where a handler is about one group; where it joins one; and where the   *)
(* group has been seen to exist.                                           *)
GroupPC  == {"convertAll", "convert", "inTrust", "create", "waitForGroup", "add", "join",
             "joinGroup", "reconvert", "list", "remove", "sync"}
JoinPC   == {"convert", "join", "joinGroup", "reconvert"}
MemberPC == {"add", "joinGroup", "reconvert", "list", "remove"}

Situation(d) ==
  /\ d \in trust[d]
  /\ pc[d] \in GroupPC => case.groups # <<>>
  /\ pc[d] \in JoinPC => Joins
  /\ pc[d] \in {"trust", "convertAll"} => ~Joins
  /\ pc[d] \in MemberPC => Members(d) # Absent

TypeInv == TypeOK /\ \A d \in Device : Situation(d)

LEMMA CaseType ==
  ASSUME TypeOK
  PROVE  /\ case \in Case /\ case.groups \in Seq(DeviceGroup)
         /\ case.remote # NoTrust => case.remote \in Address /\ case.remote.of \in Device
         /\ case.haOrder \subseteq Device
         /\ case.active \subseteq Device /\ case.trusted \subseteq Device
BY ClusterAssumption DEF TypeOK, Case, Address

LEMMA ThisGroupType ==
  ASSUME TypeOK, NEW d \in Device, case.groups # <<>>
  PROVE  /\ turn[d] \in 1 .. Len(case.groups)
         /\ ThisGroup(d) \in DeviceGroup /\ ThisGroup(d).name \in Group
         /\ ThisGroup(d) \in DeclaredGroups
         /\ Members(d) \in {Absent} \cup SUBSET Device
<1>1. case.groups \in Seq(DeviceGroup)
  BY CaseType
<1>2. turn[d] \in 1 .. Len(case.groups)
  BY <1>1 DEF TypeOK
<1>3. ThisGroup(d) \in DeviceGroup /\ ThisGroup(d) \in DeclaredGroups
  BY <1>1, <1>2 DEF ThisGroup, DeclaredGroups
<1> QED BY <1>2, <1>3 DEF TypeOK, Members, DeviceGroup

LEMMA ConvertType ==
  ASSUME TypeOK, NEW d \in Device, NEW dg \in DeviceGroup
  PROVE  Convert(d, dg) \in Converted
BY DEF Convert, Converted, DeviceGroup, Address, Hostname, IsIp

(* What a write of a group does to the groups of every device. *)
LEMMA SetGroupDoes ==
  ASSUME TypeOK, NEW d \in Device, NEW g \in Group, NEW members \in SUBSET Device,
         SetGroup(d, g, members)
  PROVE  /\ groups' \in [Device -> [Group -> {Absent} \cup SUBSET Device]]
         /\ \A e \in Device \ trust[d] : groups'[e] = groups[e]
         /\ \A e \in trust[d] : groups'[e][g] = members
         /\ \A e \in Device, h \in Group \ {g} : groups'[e][h] = groups[e][h]
BY DEF TypeOK, SetGroup

LEMMA AddToTrustDoes ==
  ASSUME TypeOK, NEW d \in Device, NEW r \in Device, AddToTrust(d, r)
  PROVE  /\ trust' \in [Device -> SUBSET Device]
         /\ groups' \in [Device -> [Group -> {Absent} \cup SUBSET Device]]
         /\ \A e \in Device : trust'[e] = IF e \in trust[r] \cup {d} THEN trust[r] \cup {d}
                                                                    ELSE trust[e] \ {d}
         /\ groups'[d] = groups[r] /\ \A e \in Device \ {d} : groups'[e] = groups[e]
         /\ d \in trust'[d]
BY DEF TypeOK, AddToTrust, Domain

(* A set is never the group that does not exist. *)
LEMMA SetExists ==
  ASSUME NEW members \in SUBSET Device
  PROVE  members # Absent
BY ClusterAssumption

(* Where a handler goes from a group: to the next one, or on. *)
LEMMA NextGroupType ==
  ASSUME TypeOK, NEW d \in Device, case.groups # <<>>, NEW first
  PROVE  \/ /\ NextGroup(d, first)[1] \in 1 .. Len(case.groups)
            /\ NextGroup(d, first)[2] = first
         \/ NextGroup(d, first) = <<turn[d], "groupsOfTraffic">>
BY ThisGroupType, CaseType DEF NextGroup

(* Where a handler may be, once it is through with a group. *)
Leaves(d) ==
  \E step \in {"convert", "inTrust", "waitForGroup", "sync", "groupsOfTraffic"},
     i \in 1 .. Len(case.groups) :
    /\ pc' = [pc EXCEPT ![d] = step] /\ turn' = [turn EXCEPT ![d] = i]
    /\ step = "convert" => Joins
    /\ step \in {"inTrust", "waitForGroup"} => ~Joins
    /\ step = "sync" => i = turn[d]

LEMMA NextGroupLeaves ==
  ASSUME TypeOK, NEW d \in Device, case.groups # <<>>,
         NEW first \in {"convert", "inTrust", "waitForGroup"}, first = "convert" <=> Joins,
         turn' = [turn EXCEPT ![d] = NextGroup(d, first)[1]], Go(d, NextGroup(d, first)[2])
  PROVE  Leaves(d)
<1>1. turn[d] \in 1 .. Len(case.groups)
  BY ThisGroupType
<1>2. CASE NextGroup(d, first)[1] \in 1 .. Len(case.groups) /\ NextGroup(d, first)[2] = first
  BY <1>2 DEF Leaves, Go
<1>3. CASE NextGroup(d, first) = <<turn[d], "groupsOfTraffic">>
  <2>1. /\ turn' = [turn EXCEPT ![d] = turn[d]]
        /\ pc' = [pc EXCEPT ![d] = "groupsOfTraffic"]
    BY <1>3 DEF Go
  <2> QED BY <1>1, <2>1 DEF Leaves
<1> QED BY <1>2, <1>3, NextGroupType

LEMMA LeavePruneLeaves ==
  ASSUME TypeOK, NEW d \in Device, case.groups # <<>>, LeavePrune(d)
  PROVE  Leaves(d)
<1>1. turn[d] \in 1 .. Len(case.groups)
  BY ThisGroupType
<1>2. CASE IsOwner(d, converted[d])
  BY <1>1, <1>2 DEF LeavePrune, AfterPrune, Leaves, Go
<1>3. CASE ~IsOwner(d, converted[d])
  <2>1. PICK first \in {"convert", "inTrust", "waitForGroup"} :
          /\ first = "convert" <=> Joins
          /\ AfterPrune(d) = NextGroup(d, first)
    BY <1>3 DEF AfterPrune, FirstOf
  <2> QED BY <2>1, NextGroupLeaves DEF LeavePrune
<1> QED BY <1>2, <1>3

LEMMA LeavesType ==
  ASSUME TypeOK, NEW d \in Device, Leaves(d), UNCHANGED case
  PROVE  /\ pc' \in [Device -> Await]
         /\ turn' \in [Device -> 1 .. Len(case'.groups) \cup {1}]
<1>1. PICK step \in {"convert", "inTrust", "waitForGroup", "sync", "groupsOfTraffic"},
           i \in 1 .. Len(case.groups) :
        pc' = [pc EXCEPT ![d] = step] /\ turn' = [turn EXCEPT ![d] = i]
  BY DEF Leaves
<1> QED BY <1>1 DEF TypeOK, Await

LEMMA LeavesSituation ==
  ASSUME TypeOK, NEW d \in Device, Situation(d), pc[d] \in GroupPC, Leaves(d),
         UNCHANGED <<case, trust>>
  PROVE  Situation(d)'
<1>1. PICK step \in {"convert", "inTrust", "waitForGroup", "sync", "groupsOfTraffic"} :
        pc' = [pc EXCEPT ![d] = step] /\ (step = "convert" => Joins)
  BY DEF Leaves
<1> QED BY <1>1 DEF TypeOK, Situation, Joins, GroupPC, JoinPC, MemberPC

(* The handler of d is the only one that moves; others see its groups.     *)
LEMMA OthersSituation ==
  ASSUME TypeInv, NEW d \in Device, UNCHANGED case,
         \A e \in Device \ {d} : pc'[e] = pc[e] /\ turn'[e] = turn[e],
         \/ UNCHANGED <<trust, groups>>
         \/ /\ UNCHANGED trust
            /\ \E g \in Group, members \in SUBSET Device : SetGroup(d, g, members)
         \/ \E r \in Device : AddToTrust(d, r),
         TypeOK', Situation(d)'
  PROVE  TypeInv'
<1>1. \A e \in Device \ {d}, g \in Group : groups[e][g] # Absent => groups'[e][g] # Absent
  <2>1. ASSUME NEW g \in Group, NEW members \in SUBSET Device, SetGroup(d, g, members),
               NEW e \in Device, NEW h \in Group, groups[e][h] # Absent
        PROVE  groups'[e][h] # Absent
    BY <2>1, SetGroupDoes, SetExists DEF TypeInv
  <2>2. ASSUME NEW r \in Device, AddToTrust(d, r), NEW e \in Device \ {d}
        PROVE  groups'[e] = groups[e]
    BY <2>2, AddToTrustDoes DEF TypeInv
  <2> QED BY <2>1, <2>2
<1>2. \A e \in Device \ {d} : e \in trust'[e]
  <2>1. ASSUME NEW r \in Device, AddToTrust(d, r), NEW e \in Device \ {d}
        PROVE  e \in trust'[e]
    <3>1. trust'[e] = IF e \in trust[r] \cup {d} THEN trust[r] \cup {d} ELSE trust[e] \ {d}
      <4>1. \A x \in Device : trust'[x] = IF x \in trust[r] \cup {d} THEN trust[r] \cup {d}
                                                                   ELSE trust[x] \ {d}
        BY <2>1, AddToTrustDoes DEF TypeInv
      <4> QED BY <2>1, <4>1
    <3>2. e \in trust[e]
      BY DEF TypeInv, Situation
    <3> QED BY <2>1, <3>1, <3>2
  <2> QED BY <2>1 DEF TypeInv, Situation
<1>3. ASSUME NEW e \in Device \ {d} PROVE Situation(e)'
  <2>1. Situation(e) /\ pc'[e] = pc[e] /\ turn'[e] = turn[e] /\ case' = case
    BY DEF TypeInv
  <2>2. pc[e] \in MemberPC => Members(e)' # Absent
    <3>1. pc[e] \in MemberPC => ThisGroup(e).name \in Group
      BY <2>1, ThisGroupType DEF TypeInv, Situation, MemberPC, GroupPC
    <3> QED BY <1>1, <2>1, <3>1 DEF Situation, Members, ThisGroup
  <2> QED BY <1>2, <2>1, <2>2 DEF Situation, Joins
<1> QED BY <1>3 DEF TypeInv

(* The awaits that neither write a group nor join a domain. *)
LEMMA ReadingType ==
  ASSUME TypeInv, NEW d \in Device,
         \/ ConfigSync(d) \/ ConvertAll(d) \/ ConvertOne(d) \/ Reconvert(d) \/ WaitForGroup(d)
         \/ AreInTrust(d) \/ PruneList(d) \/ Sync(d) \/ GroupsOfTraffic(d) \/ TrafficGroup(d)
         \/ Fails(d)
  PROVE  TypeInv'
<1> USE DEF Await, Stopped, GroupPC, JoinPC, MemberPC
<1>0. TypeOK /\ Situation(d)
  BY DEF TypeInv
<1>1. CASE ConfigSync(d)
  <2>1. TypeOK' /\ Situation(d)'
    BY <1>0, <1>1 DEF TypeOK, Situation, ConfigSync, Go, Joins, Members, ThisGroup
  <2> QED BY <1>1, <2>1, OthersSituation DEF TypeInv, TypeOK, ConfigSync, Go
<1>2. CASE ConvertAll(d)
  <2>1. case.groups[Len(case.groups)] \in DeviceGroup
    BY <1>0, <1>2, CaseType DEF Situation, ConvertAll
  <2>2. Convert(d, case.groups[Len(case.groups)]) \in Converted
    BY <1>0, <2>1, ConvertType
  <2>3. converted' \in [Device -> Converted]
    BY <1>0, <1>2, <2>2 DEF TypeOK, ConvertAll
  <2>4. \E step \in {"inTrust", "waitForGroup"} : Go(d, step)
    BY <1>2 DEF ConvertAll, FirstOf
  <2>5. TypeOK' /\ Situation(d)'
    BY <1>0, <1>2, <2>3, <2>4 DEF TypeOK, Situation, ConvertAll, Go, Joins, Members, ThisGroup
  <2> QED BY <1>2, <2>4, <2>5, OthersSituation DEF TypeInv, TypeOK, ConvertAll, Go
<1>3. CASE ConvertOne(d)
  <2>1. Convert(d, ThisGroup(d)) \in Converted
    BY <1>0, <1>3, ThisGroupType, ConvertType DEF Situation, ConvertOne
  <2>2. converted' \in [Device -> Converted]
    BY <1>0, <1>3, <2>1 DEF TypeOK, ConvertOne
  <2>3. \E step \in {"inTrust", "waitForGroup", "join"} : Go(d, step)
    BY <1>3 DEF ConvertOne, FirstOf
  <2>4. TypeOK' /\ Situation(d)'
    BY <1>0, <1>3, <2>2, <2>3 DEF TypeOK, Situation, ConvertOne, Go, Joins, Members, ThisGroup
  <2> QED BY <1>3, <2>3, <2>4, OthersSituation DEF TypeInv, TypeOK, ConvertOne, Go
<1>4. CASE Reconvert(d)
  <2>1. Convert(d, ThisGroup(d)).members \in SUBSET Device
    <3>1. Convert(d, ThisGroup(d)) \in Converted
      BY <1>0, <1>4, ThisGroupType, ConvertType DEF Situation, Reconvert
    <3> QED BY <3>1 DEF Converted
  <2>2. converted' \in [Device -> Converted]
    BY <1>0, <1>4, <2>1 DEF TypeOK, Reconvert, Converted
  <2>3. TypeOK' /\ Situation(d)'
    BY <1>0, <1>4, <2>2 DEF TypeOK, Situation, Reconvert, Go, Joins, Members, ThisGroup
  <2> QED BY <1>4, <2>3, OthersSituation DEF TypeInv, TypeOK, Reconvert, Go
<1>5. CASE WaitForGroup(d)
  <2>1. TypeOK' /\ Situation(d)'
    BY <1>0, <1>5 DEF TypeOK, Situation, WaitForGroup, Go, Joins, Members, ThisGroup
  <2> QED BY <1>5, <2>1, OthersSituation DEF TypeInv, TypeOK, WaitForGroup, Go
<1>6. CASE AreInTrust(d)
  <2>1. converted[d].members \cap trust[d] \in SUBSET Device
    BY <1>0 DEF TypeOK, Converted
  <2>2. TypeOK' /\ Situation(d)'
    BY <1>0, <1>6, <2>1 DEF TypeOK, Situation, AreInTrust, Go, Joins, Members, ThisGroup
  <2> QED BY <1>6, <2>2, OthersSituation DEF TypeInv, TypeOK, AreInTrust, Go
<1>7. CASE PruneList(d)
  <2>1. Superfluous(d) \in SUBSET Device
    BY <1>0, <1>7, ThisGroupType DEF Situation, PruneList, Superfluous
  <2>2. \/ Go(d, "remove") /\ UNCHANGED turn
        \/ LeavePrune(d)
    BY <1>7 DEF PruneList
  <2>3. ASSUME LeavePrune(d) PROVE Leaves(d)
    BY <1>0, <1>7, <2>3, LeavePruneLeaves DEF Situation, PruneList
  <2>4. TypeOK' /\ Situation(d)'
    <3>1. CASE Go(d, "remove") /\ UNCHANGED turn
      BY <1>0, <1>7, <2>1, <3>1
         DEF TypeOK, Situation, PruneList, Go, Joins, Members, ThisGroup
    <3>2. CASE Leaves(d)
      <4>1. UNCHANGED <<case, trust, groups, synced, config, haOrder, converted, needsSync,
                        faults>>
        BY <1>7 DEF PruneList
      <4>0. seen' \in [Device -> SUBSET Device]
        BY <1>0, <1>7, <2>1 DEF TypeOK, PruneList
      <4>2. /\ pc' \in [Device -> Await]
            /\ turn' \in [Device -> 1 .. Len(case'.groups) \cup {1}]
        BY <1>0, <3>2, <4>1, LeavesType
      <4>3. TypeOK'
        BY <1>0, <4>0, <4>1, <4>2 DEF TypeOK
      <4> QED BY <1>0, <1>7, <3>2, <4>1, <4>3, LeavesSituation DEF PruneList
    <3> QED BY <2>2, <2>3, <3>1, <3>2
  <2>5. \A e \in Device \ {d} : pc'[e] = pc[e] /\ turn'[e] = turn[e]
    BY <1>0, <2>2, <2>3 DEF TypeOK, Go, Leaves
  <2> QED BY <1>7, <2>4, <2>5, OthersSituation DEF PruneList
<1>8. CASE Sync(d)
  <2>1. PICK first \in {"convert", "inTrust", "waitForGroup"} :
          /\ first = "convert" <=> Joins
          /\ turn' = [turn EXCEPT ![d] = NextGroup(d, first)[1]]
          /\ Go(d, NextGroup(d, first)[2])
    BY <1>8 DEF Sync, FirstOf
  <2>2. Leaves(d)
    BY <1>0, <1>8, <2>1, NextGroupLeaves DEF Situation, Sync
  <2>3. config' \in [Device -> Device]
    BY <1>0, <1>8 DEF TypeOK, Sync
  <2>4. TypeOK' /\ Situation(d)'
    <3>1. UNCHANGED <<case, trust, groups, synced, haOrder, converted, seen, needsSync, faults>>
      BY <1>8 DEF Sync
    <3>2. /\ pc' \in [Device -> Await]
          /\ turn' \in [Device -> 1 .. Len(case'.groups) \cup {1}]
      BY <1>0, <2>2, <3>1, LeavesType
    <3>3. TypeOK'
      BY <1>0, <2>3, <3>1, <3>2 DEF TypeOK
    <3> QED BY <1>0, <1>8, <2>2, <3>1, <3>3, LeavesSituation DEF Sync
  <2>5. \A e \in Device \ {d} : pc'[e] = pc[e] /\ turn'[e] = turn[e]
    BY <1>0, <2>2 DEF TypeOK, Leaves
  <2> QED BY <1>8, <2>4, <2>5, OthersSituation DEF Sync
<1>9. CASE GroupsOfTraffic(d)
  <2>1. UNION {groups[d][g] : g \in {g \in Group : groups[d][g] # Absent}} \in SUBSET Device
    BY <1>0 DEF TypeOK
  <2>2. TypeOK' /\ Situation(d)'
    BY <1>0, <1>9, <2>1 DEF TypeOK, Situation, GroupsOfTraffic, Go, Joins, Members, ThisGroup
  <2> QED BY <1>9, <2>2, OthersSituation DEF TypeInv, TypeOK, GroupsOfTraffic, Go
<1>10. CASE TrafficGroup(d)
  <2>1. case.haOrder \cap seen[d] \in SUBSET Device
    BY <1>0 DEF TypeOK
  <2>2. TypeOK' /\ Situation(d)'
    BY <1>0, <1>10, <2>1 DEF TypeOK, Situation, TrafficGroup, Go, Joins, Members, ThisGroup
  <2> QED BY <1>10, <2>2, OthersSituation DEF TypeInv, TypeOK, TrafficGroup, Go
<1>11. CASE Fails(d)
  <2>1. faults' \in 0 .. MaxFaults
    BY <1>0, <1>11, ClusterAssumption DEF TypeOK, Fails
  <2>2. \E end \in {"failed", "hung"} : Go(d, end)
    BY <1>11 DEF Fails
  <2>3. TypeOK' /\ Situation(d)'
    BY <1>0, <1>11, <2>1, <2>2 DEF TypeOK, Situation, Fails, Go, Joins, Members, ThisGroup
  <2> QED BY <1>11, <2>2, <2>3, OthersSituation DEF TypeInv, TypeOK, Fails, Go
<1> QED BY <1>1, <1>2, <1>3, <1>4, <1>5, <1>6, <1>7, <1>8, <1>9, <1>10, <1>11

(* The awaits that write a group. *)
LEMMA WritingType ==
  ASSUME TypeInv, NEW d \in Device,
         JoinGroup(d) \/ Add(d) \/ Create(d) \/ PruneRemove(d)
  PROVE  /\ TypeInv'
         /\ UNCHANGED trust
         /\ \E members \in SUBSET Device : SetGroup(d, ThisGroup(d).name, members)
<1> USE DEF Await, Stopped, GroupPC, JoinPC, MemberPC
<1>1. TypeOK /\ Situation(d) /\ case.groups # <<>>
  BY DEF TypeInv, Situation, JoinGroup, Add, Create, PruneRemove
<1>2. /\ ThisGroup(d).name \in Group
      /\ Members(d) \in {Absent} \cup SUBSET Device
      /\ seen[d] \in SUBSET Device
  BY <1>1, ThisGroupType DEF TypeOK
<1>3. PICK members \in SUBSET Device : SetGroup(d, ThisGroup(d).name, members)
  <2>1. CASE JoinGroup(d)
    BY <1>1, <1>2, <2>1 DEF JoinGroup, Situation
  <2>2. CASE Add(d)
    BY <1>1, <1>2, <2>2 DEF Add, Situation
  <2>3. CASE Create(d)
    <3>1. CASE Members(d) = Absent
      BY <1>2, <2>3, <3>1 DEF Create
    <3>2. CASE Members(d) # Absent
      BY <1>2, <2>3, <3>2 DEF Create
    <3> QED BY <3>1, <3>2
  <2>4. CASE PruneRemove(d)
    BY <1>1, <1>2, <2>4 DEF PruneRemove, Situation
  <2> QED BY <2>1, <2>2, <2>3, <2>4
<1>4. UNCHANGED <<case, trust, synced, haOrder, converted, seen, faults>>
  BY DEF JoinGroup, Add, Create, PruneRemove
<1>5. groups' \in [Device -> [Group -> {Absent} \cup SUBSET Device]]
  BY <1>1, <1>2, <1>3, SetGroupDoes
<1>6. groups'[d][ThisGroup(d).name] # Absent
  BY <1>1, <1>2, <1>3, SetGroupDoes, SetExists DEF Situation
<1>7. TypeOK' /\ Situation(d)' /\ \A e \in Device \ {d} : pc'[e] = pc[e] /\ turn'[e] = turn[e]
  <2>1. CASE JoinGroup(d)
    <3>1. config' \in [Device -> Device]
      BY <1>1, <2>1, CaseType DEF TypeOK, JoinGroup, Situation, Joins
    <3> QED BY <1>1, <1>4, <1>5, <1>6, <2>1, <3>1
            DEF TypeOK, Situation, JoinGroup, Go, Joins, Members, ThisGroup
  <2>2. CASE Add(d)
    BY <1>1, <1>4, <1>5, <1>6, <2>2 DEF TypeOK, Situation, Add, Go, Joins, Members, ThisGroup
  <2>3. CASE Create(d)
    BY <1>1, <1>4, <1>5, <1>6, <2>3 DEF TypeOK, Situation, Create, Go, Joins, Members, ThisGroup
  <2>4. CASE PruneRemove(d)
    <3>1. Leaves(d)
      BY <1>1, <2>4, LeavePruneLeaves DEF PruneRemove
    <3>2. /\ pc' \in [Device -> Await]
          /\ turn' \in [Device -> 1 .. Len(case'.groups) \cup {1}]
      BY <1>1, <1>4, <3>1, LeavesType
    <3>3. UNCHANGED config /\ needsSync' \in [Device -> BOOLEAN]
      BY <1>1, <2>4 DEF TypeOK, PruneRemove
    <3>4. TypeOK'
      BY <1>1, <1>4, <1>5, <3>2, <3>3 DEF TypeOK
    <3>5. Situation(d)'
      BY <1>1, <1>4, <2>4, <3>1, LeavesSituation DEF PruneRemove
    <3>6. \A e \in Device \ {d} : pc'[e] = pc[e] /\ turn'[e] = turn[e]
      BY <1>1, <3>1 DEF TypeOK, Leaves
    <3> QED BY <3>4, <3>5, <3>6
  <2> QED BY <2>1, <2>2, <2>3, <2>4
<1>8. TypeInv'
  BY <1>2, <1>3, <1>4, <1>7, OthersSituation
<1> QED BY <1>3, <1>4, <1>8

(* The awaits at which a device leaves its domain for another one. *)
LEMMA JoiningType ==
  ASSUME TypeInv, NEW d \in Device, DeviceTrust(d) \/ Join(d)
  PROVE  TypeInv'
<1> USE DEF Await, Stopped, GroupPC, JoinPC, MemberPC
<1>1. TypeOK /\ Situation(d)
  BY DEF TypeInv
<1>2. UNCHANGED <<case, synced, config, haOrder, turn, converted, seen, needsSync, faults>>
  BY DEF DeviceTrust, Join
<1>3. CASE DeviceTrust(d)
  <2>1. \/ UNCHANGED <<trust, groups>>
        \/ \E r \in Device : AddToTrust(d, r)
    <3>1. CASE case.remote = NoTrust \/ IsRemoteHost(d)
      BY <1>3, <3>1 DEF DeviceTrust
    <3>2. CASE ~(case.remote = NoTrust \/ IsRemoteHost(d))
      BY <1>1, <1>3, <3>2, CaseType DEF DeviceTrust
    <3> QED BY <3>1, <3>2
  <2>2. /\ trust' \in [Device -> SUBSET Device]
        /\ groups' \in [Device -> [Group -> {Absent} \cup SUBSET Device]]
        /\ d \in trust'[d]
    BY <1>1, <2>1, AddToTrustDoes DEF TypeOK, Situation
  <2>3. TypeOK' /\ Situation(d)' /\ \A e \in Device \ {d} : pc'[e] = pc[e]
    BY <1>1, <1>2, <1>3, <2>2 DEF TypeOK, Situation, DeviceTrust, Go, Joins
  <2> QED BY <1>2, <2>1, <2>3, OthersSituation
<1>4. CASE Join(d)
  <2>1. case.groups # <<>> /\ case.remote.of \in Device
    BY <1>1, <1>4, CaseType DEF Join, Situation, Joins
  <2>2. ThisGroup(d).name \in Group
    BY <1>1, <2>1, ThisGroupType
  <2>3. AddToTrust(d, case.remote.of)
    BY <1>4 DEF Join
  <2>4. /\ trust' \in [Device -> SUBSET Device]
        /\ groups' \in [Device -> [Group -> {Absent} \cup SUBSET Device]]
        /\ groups'[d] = groups[case.remote.of]
    BY <1>1, <2>1, <2>3, AddToTrustDoes
  <2>5. d \in trust'[d]
    BY <1>1, <2>1, <2>3, AddToTrustDoes
  <2>6. Members(d)' # Absent
    BY <1>2, <1>4, <2>4 DEF Join, Members, ThisGroup
  <2>7. TypeOK' /\ Situation(d)' /\ \A e \in Device \ {d} : pc'[e] = pc[e]
    BY <1>1, <1>2, <1>4, <2>4, <2>5, <2>6 DEF TypeOK, Situation, Join, Go, Joins
  <2> QED BY <1>2, <2>1, <2>3, <2>7, OthersSituation
<1> QED BY <1>3, <1>4

LEMMA InitType == Init => TypeInv
<1> SUFFICES ASSUME Init PROVE TypeInv
  OBVIOUS
<1>1. case \in Case
  BY ClusterAssumption DEF Init
<1>2. /\ trust \in [Device -> SUBSET Device]
      /\ groups \in [Device -> [Group -> {Absent} \cup SUBSET Device]]
      /\ converted \in [Device -> Converted]
  BY <1>1 DEF Init, Case, Converted, Address, Hostname
<1>3. TypeOK
  BY <1>1, <1>2, ClusterAssumption DEF Init, TypeOK, Case, Await
<1>4. \A d \in Device : Situation(d)
  BY <1>3 DEF Init, Situation, GroupPC, JoinPC, MemberPC
<1> QED BY <1>3, <1>4 DEF TypeInv

LEMMA NextType ==
  ASSUME TypeInv, [Next]_vars
  PROVE  TypeInv'
<1>1. CASE UNCHANGED vars
  BY <1>1 DEF vars, TypeInv, TypeOK, Situation, Joins, Members, ThisGroup
<1>2. ASSUME NEW d \in Device, Handle(d) \/ Fails(d)
      PROVE  TypeInv'
  BY <1>2, ReadingType, WritingType, JoiningType DEF Handle
<1> QED BY <1>1, <1>2 DEF Next

(* Every variable has its type, in every reachable state: a handler that   *)
(* is about a group is about a declared one, joinCluster is only reached   *)
(* with a remote host, and the members that are taken out of a group or    *)
(* added to it are those of a group that exists.                           *)
THEOREM TypeCorrect == Spec => []TypeOK
<1>1. TypeInv /\ [Next]_vars => TypeInv'
  BY NextType
<1>2. TypeInv => TypeOK
  BY DEF TypeInv
<1> QED BY <1>1, <1>2, InitType, PTL DEF Spec

-----------------------------------------------------------------------------
(* Members stay *)

(* A remote host that is in a trust domain already is in the one that the  *)
(* other members are in: nobody is taken out of that domain.               *)
Orderly ==
  \A c \in Cases : c.remote # NoTrust /\ c.trusted # {} => c.remote.of \in c.trusted

(* A device is in the domain that was there before, or alone.              *)
Inside(d) == case.trusted \subseteq trust[d]

Outside(d) ==
  /\ d \notin case.trusted /\ trust[d] = {d}
  /\ \A g \in Group : groups[d][g] # Absent => groups[d][g] \subseteq {d}

(* Where a handler uses what convertToHostnames gave.                      *)
UsesPC == {"inTrust", "create", "waitForGroup", "add", "list", "remove", "sync"}

(* Devices of a domain agree on who is in it, and on its groups.           *)
OneDomain ==
  \A d \in Device : \A e \in trust[d] : trust[e] = trust[d] /\ groups[e] = groups[d]

TrustedAreSynced == case.syncs => case.trusted \subseteq synced

(* Nobody who is known is missing from what a handler goes by, except for  *)
(* a device on its own, which has nobody else in its groups.               *)
Knows(d) ==
  /\ Inside(d) \/ Outside(d)
  /\ pc[d] = "create" => Inside(d) \/ seen[d] \subseteq {d}
  /\ SameForAll /\ pc[d] \in UsesPC =>
       \A x \in KnownMembers(ThisGroup(d)) :
         x \in converted[d].members \/ (x # d /\ ~Inside(d))
  /\ SameForAll /\ pc[d] = "remove" => seen[d] \cap KnownMembers(ThisGroup(d)) = {}

KeepInv == TypeInv /\ OneDomain /\ TrustedAreSynced /\ \A d \in Device : Knows(d)

LEMMA SameCase ==
  ASSUME UNCHANGED case
  PROVE  /\ DeclaredGroups' = DeclaredGroups /\ (Joins <=> Joins') /\ (SameForAll <=> SameForAll')
         /\ \A dg : KnownMembers(dg)' = KnownMembers(dg)
BY DEF DeclaredGroups, Joins, SameForAll, KnownMembers, IsIp

LEMMA RemoteIsTrusted ==
  ASSUME Orderly, TypeOK, case.remote # NoTrust, case.trusted # {}
  PROVE  case.remote.of \in case.trusted
BY DEF Orderly, TypeOK

(* What convertToHostnames keeps of the members that are known. *)
LEMMA KnownAreConverted ==
  ASSUME TypeInv, TrustedAreSynced, NEW d \in Device, NEW dg \in DeviceGroup,
         NEW x \in KnownMembers(dg)
  PROVE  x \in Convert(d, dg).members \/ (x # d /\ ~Inside(d))
<1>1. PICK m \in dg.members :
        /\ x = m.of
        /\ IsIp(m) => m.of \in case.trusted /\ (m.kind = "configSync" => case.syncs)
  BY DEF KnownMembers
<1>2. d \in trust[d]
  BY DEF TypeInv, Situation
<1>3. CASE ~IsIp(m)
  BY <1>1, <1>3 DEF Convert
<1>4. CASE IsIp(m) /\ m.of \in trust[d]
  <2>1. m.kind = "configSync" => m.of \in synced
    BY <1>1, <1>4 DEF TrustedAreSynced
  <2>2. ~IsIp(Hostname(m.of))
    BY DEF IsIp, Hostname
  <2> QED BY <1>1, <1>4, <2>1, <2>2 DEF Convert
<1>5. CASE IsIp(m) /\ m.of \notin trust[d]
  BY <1>1, <1>2, <1>5 DEF Inside
<1> QED BY <1>3, <1>4, <1>5

(* A device joins the domain of the remote host. *)
LEMMA JoinKeepsDomains ==
  ASSUME Orderly, KeepInv, NEW d \in Device, NEW r \in Device, case.remote # NoTrust,
         case.remote.of = r, AddToTrust(d, r), UNCHANGED case
  PROVE  /\ OneDomain'
         /\ \A e \in Device : Inside(e)' \/ Outside(e)'
         /\ \A e \in Device \ {d} : Inside(e)' <=> Inside(e)
         /\ trust'[d] = trust[d] => groups'[d] = groups[d]
<1> DEFINE Dom == trust[r] \cup {d}
<1>1. /\ TypeOK /\ OneDomain
      /\ \A e \in Device : e \in trust[e] /\ trust[e] \in SUBSET Device
      /\ \A e \in Device : Inside(e) \/ Outside(e)
  BY DEF KeepInv, TypeInv, TypeOK, Situation, Knows
<1>2. /\ \A e \in Device : e \in Dom => trust'[e] = Dom
      /\ \A e \in Device : e \notin Dom => trust'[e] = trust[e] \ {d}
      /\ groups'[d] = groups[r]
      /\ \A e \in Device \ {d} : groups'[e] = groups[e]
  <2>1. TypeOK
    BY <1>1
  <2>2. /\ \A e \in Device : trust'[e] = IF e \in trust[r] \cup {d} THEN trust[r] \cup {d}
                                                                 ELSE trust[e] \ {d}
        /\ groups'[d] = groups[r] /\ \A e \in Device \ {d} : groups'[e] = groups[e]
    BY <2>1 DEF TypeOK, AddToTrust, Domain
  <2>3. ASSUME NEW e \in Device PROVE e \in Dom => trust'[e] = Dom
    BY <2>2
  <2>4. ASSUME NEW e \in Device PROVE e \notin Dom => trust'[e] = trust[e] \ {d}
    BY <2>2
  <2> QED BY <2>2, <2>3, <2>4
<1>3. \A e \in Device \ {d} : trust[e] = trust[r] <=> e \in Dom
  BY <1>1 DEF OneDomain
<1>4. OneDomain'
  <2>1. ASSUME NEW e \in Device, e \in Dom, NEW f \in Dom
        PROVE  trust'[f] = Dom /\ groups'[f] = groups[r]
    BY <1>1, <1>2, <2>1 DEF OneDomain
  <2>2. ASSUME NEW e \in Device, e \notin Dom, NEW f \in trust[e] \ {d}
        PROVE  trust'[f] = trust[e] \ {d} /\ groups'[f] = groups[e]
    <3>1. f \in Device \ {d} /\ trust[f] = trust[e] /\ groups[f] = groups[e]
      BY <1>1, <2>2 DEF OneDomain
    <3>2. f \notin Dom
      BY <1>1, <1>3, <2>2, <3>1 DEF OneDomain
    <3> QED BY <1>2, <3>1, <3>2
  <2>3. ASSUME NEW e \in Device, NEW f \in trust'[e]
        PROVE  trust'[f] = trust'[e] /\ groups'[f] = groups'[e]
    <3>1. CASE e \in Dom
      BY <1>2, <2>1, <2>3, <3>1
    <3>2. CASE e \notin Dom
      <4>1. trust'[e] = trust[e] \ {d} /\ groups'[e] = groups[e] /\ f \in trust[e] \ {d}
        BY <1>2, <2>3, <3>2
      <4> QED BY <2>2, <2>3, <3>2, <4>1
    <3> QED BY <3>1, <3>2
  <2> QED BY <2>3 DEF OneDomain
<1>5. Inside(r) /\ (case.trusted # {} => r \in case.trusted)
  BY <1>1, RemoteIsTrusted DEF Inside, Outside
<1>6. Inside(d)'
  BY <1>2, <1>5 DEF Inside
<1>7. ASSUME NEW e \in Device \ {d}
      PROVE  (Inside(e)' \/ Outside(e)') /\ (Inside(e)' <=> Inside(e))
  <2>1. CASE case.trusted = {}
    BY <2>1 DEF Inside
  <2>2. CASE case.trusted # {} /\ Inside(e)
    <3>1. e \in Dom
      BY <1>1, <1>3, <1>5, <2>2 DEF Inside, OneDomain
    <3> QED BY <1>2, <1>5, <2>2, <3>1 DEF Inside
  <2>3. CASE case.trusted # {} /\ ~Inside(e)
    <3>1. Outside(e) /\ e # r
      BY <1>1, <1>5, <2>3
    <3>2. e \notin Dom
      BY <1>1, <3>1 DEF OneDomain, Outside
    <3>3. trust'[e] = {e} /\ groups'[e] = groups[e]
      BY <1>2, <3>1, <3>2 DEF Outside
    <3>4. Outside(e)'
      BY <3>1, <3>3 DEF Outside
    <3> QED BY <2>3, <3>1, <3>3, <3>4 DEF Inside, Outside
  <2> QED BY <2>1, <2>2, <2>3
<1>8. trust'[d] = trust[d] => groups'[d] = groups[d]
  BY <1>1, <1>2 DEF OneDomain
<1> QED BY <1>4, <1>6, <1>7, <1>8

(* A group is written on all devices of a domain. *)
LEMMA WriteKeepsDomains ==
  ASSUME KeepInv, NEW d \in Device, NEW g \in Group, NEW members \in SUBSET Device,
         Inside(d) \/ members \subseteq {d}, SetGroup(d, g, members), UNCHANGED <<case, trust>>
  PROVE  /\ OneDomain'
         /\ \A e \in Device : Inside(e)' \/ Outside(e)'
         /\ \A e \in Device : Inside(e)' <=> Inside(e)
<1>1. /\ TypeOK /\ OneDomain
      /\ \A e \in Device : e \in trust[e] /\ trust[e] \in SUBSET Device
      /\ \A e \in Device : Inside(e) \/ Outside(e)
  BY DEF KeepInv, TypeInv, TypeOK, Situation, Knows
<1>2. /\ \A e \in Device \ trust[d] : groups'[e] = groups[e]
      /\ \A e \in trust[d] : groups'[e] = [groups[e] EXCEPT ![g] = members]
      /\ \A h \in Group : groups'[d][h] = IF h = g THEN members ELSE groups[d][h]
  BY <1>1 DEF SetGroup, TypeOK
<1>3. OneDomain'
  <2>1. ASSUME NEW e \in Device, NEW f \in trust[e]
        PROVE  groups'[f] = groups'[e]
    <3>1. f \in Device /\ trust[f] = trust[e] /\ groups[f] = groups[e]
      BY <1>1, <2>1 DEF OneDomain
    <3>2. e \in trust[d] <=> f \in trust[d]
      BY <1>1, <3>1 DEF OneDomain
    <3>3. CASE e \in trust[d]
      <4>1. /\ groups'[e] = [groups[e] EXCEPT ![g] = members]
            /\ groups'[f] = [groups[f] EXCEPT ![g] = members]
        BY <1>2, <3>2, <3>3
      <4> QED BY <3>1, <4>1
    <3>4. CASE e \notin trust[d]
      BY <1>2, <2>1, <3>1, <3>2, <3>4
    <3> QED BY <3>3, <3>4
  <2> QED BY <1>1, <2>1 DEF OneDomain
<1>4. \A e \in Device : Inside(e)' <=> Inside(e)
  BY DEF Inside
<1>5. ASSUME NEW e \in Device, Outside(e)
      PROVE  Inside(e)' \/ Outside(e)'
  <2>1. CASE e = d
    BY <1>2, <1>4, <1>5, <2>1 DEF Outside
  <2>2. CASE e # d
    <3>1. groups'[e] = groups[e]
      BY <1>1, <1>2, <1>5, <2>2 DEF Outside, OneDomain
    <3> QED BY <1>5, <3>1 DEF Outside
  <2> QED BY <2>1, <2>2
<1> QED BY <1>1, <1>3, <1>4, <1>5

(* The handler of d is the only one that moves.                            *)
LEMMA OthersKnow ==
  ASSUME KeepInv, NEW d \in Device, UNCHANGED case,
         \A e \in Device \ {d} : /\ pc'[e] = pc[e] /\ turn'[e] = turn[e]
                                 /\ converted'[e] = converted[e] /\ seen'[e] = seen[e]
                                 /\ Inside(e)' <=> Inside(e),
         \A e \in Device : Inside(e)' \/ Outside(e)',
         TypeInv', OneDomain', TrustedAreSynced', Knows(d)'
  PROVE  KeepInv'
<1>1. ASSUME NEW e \in Device \ {d} PROVE Knows(e)'
  <2>1. /\ Knows(e) /\ (Inside(e)' \/ Outside(e)') /\ (Inside(e)' <=> Inside(e))
        /\ pc'[e] = pc[e] /\ turn'[e] = turn[e]
        /\ converted'[e] = converted[e] /\ seen'[e] = seen[e]
    BY DEF KeepInv
  <2>2. KnownMembers(ThisGroup(e))' = KnownMembers(ThisGroup(e))
    <3>1. ThisGroup(e)' = ThisGroup(e)
      BY <2>1 DEF ThisGroup
    <3> QED BY <3>1, SameCase
  <2>3. SameForAll' <=> SameForAll
    BY SameCase
  <2> QED BY <2>1, <2>2, <2>3 DEF Knows
<1> QED BY <1>1 DEF KeepInv

(* On the way from a group, what was converted serves for the next one. *)
LEMMA LeavesKnows ==
  ASSUME KeepInv, NEW d \in Device, pc[d] \in {"list", "remove", "sync"}, Leaves(d),
         UNCHANGED <<case, converted>>, Inside(d)' <=> Inside(d), Inside(d)' \/ Outside(d)'
  PROVE  Knows(d)'
<1>1. PICK step \in {"convert", "inTrust", "waitForGroup", "sync", "groupsOfTraffic"},
           i \in 1 .. Len(case.groups) :
        /\ pc' = [pc EXCEPT ![d] = step] /\ turn' = [turn EXCEPT ![d] = i]
        /\ step \in {"inTrust", "waitForGroup"} => ~Joins
        /\ step = "sync" => i = turn[d]
  BY DEF Leaves
<1>2. TypeOK /\ pc'[d] = step /\ turn'[d] = i /\ case.groups # <<>>
  BY <1>1 DEF KeepInv, TypeInv, TypeOK, Situation, GroupPC
<1>3. SameForAll /\ step \in UsesPC => KnownMembers(ThisGroup(d))' = KnownMembers(ThisGroup(d))
  <2>1. CASE step = "sync"
    <3>1. ThisGroup(d)' = ThisGroup(d)
      BY <1>1, <1>2, <2>1 DEF ThisGroup
    <3> QED BY <3>1, SameCase
  <2>2. CASE SameForAll /\ step \in {"inTrust", "waitForGroup"}
    <3>1. ThisGroup(d)' = case.groups[i] /\ case.groups[i] \in DeclaredGroups
      BY <1>2, CaseType DEF ThisGroup, DeclaredGroups
    <3>2. ThisGroup(d) \in DeclaredGroups
      BY <1>2, ThisGroupType
    <3>3. case.groups[i].members = ThisGroup(d).members
      BY <1>1, <2>2, <3>1, <3>2 DEF SameForAll
    <3>4. KnownMembers(case.groups[i]) = KnownMembers(ThisGroup(d))
      BY <3>3 DEF KnownMembers
    <3> QED BY <3>1, <3>4, SameCase
  <2> QED BY <2>1, <2>2 DEF UsesPC
<1>4. SameForAll' <=> SameForAll
  BY SameCase
<1>5. Knows(d) /\ pc[d] \in UsesPC
  BY DEF KeepInv, UsesPC
<1> QED BY <1>2, <1>3, <1>4, <1>5 DEF Knows

(* The awaits that neither write a group nor join a domain. *)
LEMMA ReadingKnows ==
  ASSUME KeepInv, NEW d \in Device,
         \/ ConfigSync(d) \/ ConvertAll(d) \/ ConvertOne(d) \/ Reconvert(d) \/ WaitForGroup(d)
         \/ AreInTrust(d) \/ PruneList(d) \/ Sync(d) \/ GroupsOfTraffic(d) \/ TrafficGroup(d)
         \/ Fails(d)
  PROVE  KeepInv'
<1> USE DEF UsesPC
<1>1. /\ TypeInv /\ TypeOK /\ Situation(d) /\ Knows(d)
      /\ OneDomain /\ TrustedAreSynced /\ \A e \in Device : Inside(e) \/ Outside(e)
  BY DEF KeepInv, TypeInv, Knows
<1>2. TypeInv'
  BY <1>1, ReadingType
<1>3. UNCHANGED <<case, trust, groups>> /\ synced \subseteq synced'
  BY <1>1 DEF TypeOK, ConfigSync, ConvertAll, ConvertOne, Reconvert, WaitForGroup, AreInTrust,
              PruneList, Sync, GroupsOfTraffic, TrafficGroup, Fails
<1>4. OneDomain' /\ TrustedAreSynced'
  BY <1>1, <1>3 DEF OneDomain, TrustedAreSynced
<1>5. \A e \in Device : (Inside(e)' \/ Outside(e)') /\ (Inside(e)' <=> Inside(e))
  BY <1>1, <1>3 DEF Inside, Outside
<1>6. SameForAll' <=> SameForAll
  BY <1>3, SameCase
<1>7. turn' = turn => KnownMembers(ThisGroup(d))' = KnownMembers(ThisGroup(d))
  <2>1. turn' = turn => ThisGroup(d)' = ThisGroup(d)
    BY <1>3 DEF ThisGroup
  <2> QED BY <1>3, <2>1, SameCase
<1>8. /\ Knows(d)'
      /\ \A e \in Device \ {d} : /\ pc'[e] = pc[e] /\ turn'[e] = turn[e]
                                  /\ converted'[e] = converted[e] /\ seen'[e] = seen[e]
  <2>1. CASE ConfigSync(d) \/ GroupsOfTraffic(d) \/ TrafficGroup(d) \/ Fails(d)
    <3>1. pc'[d] \notin UsesPC
      BY <1>1, <2>1 DEF TypeOK, ConfigSync, GroupsOfTraffic, TrafficGroup, Fails, Go
    <3>2. \A e \in Device \ {d} : /\ pc'[e] = pc[e] /\ turn'[e] = turn[e]
                                  /\ converted'[e] = converted[e] /\ seen'[e] = seen[e]
      BY <1>1, <2>1 DEF TypeOK, ConfigSync, GroupsOfTraffic, TrafficGroup, Fails, Go
    <3> QED BY <1>5, <3>1, <3>2 DEF Knows
  <2>2. CASE ConvertAll(d)
    <3> DEFINE last == case.groups[Len(case.groups)]
    <3>1. case.groups # <<>> /\ ~Joins
      BY <1>1, <2>2 DEF ConvertAll, Situation, GroupPC
    <3>2. /\ UNCHANGED <<turn, seen>> /\ pc'[d] \in {"inTrust", "waitForGroup"}
          /\ converted'[d] = Convert(d, last)
          /\ \A e \in Device \ {d} : pc'[e] = pc[e] /\ converted'[e] = converted[e]
      BY <1>1, <2>2 DEF TypeOK, ConvertAll, FirstOf, Go
    <3>3. last \in DeviceGroup /\ last \in DeclaredGroups /\ ThisGroup(d) \in DeclaredGroups
      BY <1>1, <3>1, CaseType, ThisGroupType DEF DeclaredGroups
    <3>4. SameForAll => last.members = ThisGroup(d).members
      BY <3>1, <3>3 DEF SameForAll
    <3>5. SameForAll => KnownMembers(last) = KnownMembers(ThisGroup(d))
      BY <3>4 DEF KnownMembers
    <3>6. \A x \in KnownMembers(last) :
            x \in Convert(d, last).members \/ (x # d /\ ~Inside(d))
      BY <1>1, <3>3, KnownAreConverted
    <3>7. Knows(d)'
      BY <1>5, <1>6, <1>7, <3>2, <3>5, <3>6 DEF Knows
    <3> QED BY <3>2, <3>7
  <2>3. CASE ConvertOne(d)
    <3>1. case.groups # <<>>
      BY <1>1, <2>3 DEF ConvertOne, Situation, GroupPC
    <3>2. /\ UNCHANGED <<turn, seen>> /\ pc'[d] \in {"inTrust", "waitForGroup", "join"}
          /\ converted'[d] = Convert(d, ThisGroup(d))
          /\ \A e \in Device \ {d} : pc'[e] = pc[e] /\ converted'[e] = converted[e]
      BY <1>1, <2>3 DEF TypeOK, ConvertOne, FirstOf, Go
    <3>3. \A x \in KnownMembers(ThisGroup(d)) :
            x \in Convert(d, ThisGroup(d)).members \/ (x # d /\ ~Inside(d))
      BY <1>1, <3>1, ThisGroupType, KnownAreConverted
    <3>4. Knows(d)'
      BY <1>5, <1>6, <1>7, <3>2, <3>3 DEF Knows
    <3> QED BY <3>2, <3>4
  <2>4. CASE Reconvert(d)
    <3>1. case.groups # <<>>
      BY <1>1, <2>4 DEF Reconvert, Situation, GroupPC
    <3>2. /\ UNCHANGED <<turn, seen>> /\ pc'[d] = "list"
          /\ converted'[d].members = Convert(d, ThisGroup(d)).members
          /\ \A e \in Device \ {d} : pc'[e] = pc[e] /\ converted'[e] = converted[e]
      BY <1>1, <2>4 DEF TypeOK, Reconvert, Go, Converted
    <3>3. \A x \in KnownMembers(ThisGroup(d)) :
            x \in Convert(d, ThisGroup(d)).members \/ (x # d /\ ~Inside(d))
      BY <1>1, <3>1, ThisGroupType, KnownAreConverted
    <3>4. Knows(d)'
      BY <1>5, <1>6, <1>7, <3>2, <3>3 DEF Knows
    <3> QED BY <3>2, <3>4
  <2>5. CASE WaitForGroup(d)
    <3>1. /\ UNCHANGED <<turn, seen, converted>> /\ pc'[d] = "add" /\ pc[d] \in UsesPC
          /\ \A e \in Device \ {d} : pc'[e] = pc[e]
      BY <1>1, <2>5 DEF TypeOK, WaitForGroup, Go
    <3>2. Knows(d)'
      BY <1>1, <1>5, <1>6, <1>7, <3>1 DEF Knows
    <3> QED BY <3>1, <3>2
  <2>6. CASE AreInTrust(d)
    <3>1. /\ UNCHANGED <<turn, converted>> /\ pc'[d] = "create" /\ pc[d] \in UsesPC
          /\ seen'[d] \subseteq trust[d]
          /\ \A e \in Device \ {d} : pc'[e] = pc[e] /\ seen'[e] = seen[e]
      BY <1>1, <2>6 DEF TypeOK, AreInTrust, Go
    <3>2. Inside(d)' \/ seen'[d] \subseteq {d}
      BY <1>3, <1>5, <3>1 DEF Outside
    <3>3. Knows(d)'
      BY <1>1, <1>5, <1>6, <1>7, <3>1, <3>2 DEF Knows
    <3> QED BY <3>1, <3>3
  <2>7. CASE PruneList(d)
    <3>1. /\ UNCHANGED converted /\ pc[d] = "list" /\ seen'[d] = Superfluous(d)
          /\ \A e \in Device \ {d} : seen'[e] = seen[e]
      BY <1>1, <2>7 DEF TypeOK, PruneList
    <3>2. CASE Go(d, "remove") /\ UNCHANGED turn
      <4>1. pc'[d] = "remove" /\ \A e \in Device \ {d} : pc'[e] = pc[e]
        BY <1>1, <3>2 DEF TypeOK, Go
      <4>2. ASSUME SameForAll, NEW x \in KnownMembers(ThisGroup(d)), x \in Superfluous(d)
            PROVE  FALSE
        <5>1. x \in Members(d) /\ x \notin converted[d].members
          BY <4>2 DEF Superfluous
        <5>2. x # d /\ ~Inside(d)
          BY <1>1, <3>1, <4>2, <5>1 DEF Knows
        <5>3. Members(d) # Absent /\ ThisGroup(d).name \in Group
          BY <1>1, <3>1, ThisGroupType DEF Situation, MemberPC, GroupPC
        <5>4. Outside(d)
          BY <1>1, <5>2
        <5> QED BY <5>1, <5>2, <5>3, <5>4 DEF Outside, Members
      <4>3. Knows(d)'
        BY <1>1, <1>5, <1>6, <1>7, <3>1, <3>2, <4>1, <4>2 DEF Knows
      <4> QED BY <3>1, <3>2, <4>1, <4>3
    <3>3. CASE LeavePrune(d)
      <4>1. Leaves(d)
        BY <1>1, <3>1, <3>3, LeavePruneLeaves DEF Situation, GroupPC
      <4>2. Knows(d)'
        BY <1>3, <1>5, <3>1, <4>1, LeavesKnows
      <4>3. \A e \in Device \ {d} : pc'[e] = pc[e] /\ turn'[e] = turn[e]
        BY <1>1, <4>1 DEF TypeOK, Leaves
      <4> QED BY <3>1, <4>2, <4>3
    <3> QED BY <2>7, <3>2, <3>3 DEF PruneList
  <2>8. CASE Sync(d)
    <3>1. PICK first \in {"convert", "inTrust", "waitForGroup"} :
            /\ first = "convert" <=> Joins
            /\ turn' = [turn EXCEPT ![d] = NextGroup(d, first)[1]]
            /\ Go(d, NextGroup(d, first)[2])
      BY <2>8 DEF Sync, FirstOf
    <3>2. Leaves(d)
      BY <1>1, <2>8, <3>1, NextGroupLeaves DEF Situation, Sync, GroupPC
    <3>3. UNCHANGED <<converted, seen>> /\ pc[d] = "sync"
      BY <2>8 DEF Sync
    <3>4. Knows(d)'
      BY <1>3, <1>5, <3>2, <3>3, LeavesKnows
    <3>5. \A e \in Device \ {d} : pc'[e] = pc[e] /\ turn'[e] = turn[e]
      BY <1>1, <3>2 DEF TypeOK, Leaves
    <3> QED BY <3>3, <3>4, <3>5
  <2> QED BY <2>1, <2>2, <2>3, <2>4, <2>5, <2>6, <2>7, <2>8
<1> QED BY <1>2, <1>3, <1>4, <1>5, <1>8, OthersKnow

(* The awaits that write a group, and what they write. *)
LEMMA WritingKnows ==
  ASSUME KeepInv, NEW d \in Device,
         JoinGroup(d) \/ Add(d) \/ Create(d) \/ PruneRemove(d)
  PROVE  /\ KeepInv'
         /\ \E members \in SUBSET Device :
              /\ SetGroup(d, ThisGroup(d).name, members)
              /\ SameForAll /\ Members(d) # Absent =>
                   Members(d) \cap KnownMembers(ThisGroup(d)) \subseteq members
<1> USE DEF UsesPC
<1>1. /\ TypeInv /\ TypeOK /\ Situation(d) /\ Knows(d) /\ TrustedAreSynced
      /\ case.groups # <<>>
      /\ \A e \in Device : Inside(e) \/ Outside(e)
  BY DEF KeepInv, TypeInv, Knows, Situation, JoinGroup, Add, Create, PruneRemove, GroupPC
<1>2. TypeInv' /\ UNCHANGED <<case, trust, synced, converted, seen>>
  BY <1>1, WritingType DEF JoinGroup, Add, Create, PruneRemove
<1>3. /\ ThisGroup(d).name \in Group
      /\ Members(d) \in {Absent} \cup SUBSET Device
      /\ seen[d] \in SUBSET Device
  BY <1>1, ThisGroupType DEF TypeOK
<1>4. Outside(d) /\ Members(d) # Absent => Members(d) \subseteq {d}
  BY <1>3 DEF Outside, Members
<1>5. PICK members \in SUBSET Device :
        /\ SetGroup(d, ThisGroup(d).name, members)
        /\ SameForAll /\ Members(d) # Absent =>
             Members(d) \cap KnownMembers(ThisGroup(d)) \subseteq members
        /\ Inside(d) \/ members \subseteq {d}
  <2>1. CASE JoinGroup(d)
    <3>1. Members(d) # Absent
      BY <1>1, <2>1 DEF JoinGroup, Situation, MemberPC
    <3> QED BY <1>1, <1>3, <1>4, <2>1, <3>1 DEF JoinGroup
  <2>2. CASE Add(d)
    <3>1. Members(d) # Absent
      BY <1>1, <2>2 DEF Add, Situation, MemberPC
    <3> QED BY <1>1, <1>3, <1>4, <2>2, <3>1 DEF Add
  <2>3. CASE Create(d)
    <3>1. Inside(d) \/ seen[d] \subseteq {d}
      BY <1>1, <2>3 DEF Create, Knows
    <3>2. CASE Members(d) = Absent
      BY <1>3, <2>3, <3>1, <3>2 DEF Create
    <3>3. CASE Members(d) # Absent
      BY <1>1, <1>3, <1>4, <2>3, <3>1, <3>3 DEF Create
    <3> QED BY <3>2, <3>3
  <2>4. CASE PruneRemove(d)
    <3>1. Members(d) # Absent
      BY <1>1, <2>4 DEF PruneRemove, Situation, MemberPC
    <3>2. SameForAll => seen[d] \cap KnownMembers(ThisGroup(d)) = {}
      BY <1>1, <2>4 DEF PruneRemove, Knows
    <3> QED BY <1>1, <1>3, <1>4, <2>4, <3>1, <3>2 DEF PruneRemove
  <2> QED BY <2>1, <2>2, <2>3, <2>4
<1>6. /\ OneDomain'
      /\ \A e \in Device : Inside(e)' \/ Outside(e)'
      /\ \A e \in Device : Inside(e)' <=> Inside(e)
  BY <1>2, <1>3, <1>5, WriteKeepsDomains
<1>7. SameForAll' <=> SameForAll
  BY <1>2, SameCase
<1>8. turn' = turn => KnownMembers(ThisGroup(d))' = KnownMembers(ThisGroup(d))
  <2>1. turn' = turn => ThisGroup(d)' = ThisGroup(d)
    BY <1>2 DEF ThisGroup
  <2> QED BY <1>2, <2>1, SameCase
<1>9. /\ Knows(d)'
      /\ \A e \in Device \ {d} : pc'[e] = pc[e] /\ turn'[e] = turn[e]
  <2>1. CASE JoinGroup(d)
    <3>1. /\ UNCHANGED turn /\ pc'[d] = "reconvert"
          /\ \A e \in Device \ {d} : pc'[e] = pc[e]
      BY <1>1, <2>1 DEF TypeOK, JoinGroup, Go
    <3> QED BY <1>6, <3>1 DEF Knows
  <2>2. CASE Add(d) \/ Create(d)
    <3>1. /\ UNCHANGED turn /\ pc'[d] = "list" /\ pc[d] \in UsesPC
          /\ \A e \in Device \ {d} : pc'[e] = pc[e]
      BY <1>1, <2>2 DEF TypeOK, Add, Create, Go
    <3> QED BY <1>1, <1>2, <1>6, <1>7, <1>8, <3>1 DEF Knows
  <2>3. CASE PruneRemove(d)
    <3>1. Leaves(d) /\ pc[d] = "remove"
      BY <1>1, <2>3, LeavePruneLeaves DEF PruneRemove
    <3>2. \A e \in Device \ {d} : pc'[e] = pc[e] /\ turn'[e] = turn[e]
      BY <1>1, <3>1 DEF TypeOK, Leaves
    <3>3. Knows(d)'
      BY <1>2, <1>6, <3>1, LeavesKnows
    <3> QED BY <3>2, <3>3
  <2> QED BY <2>1, <2>2, <2>3
<1>10. TrustedAreSynced'
  BY <1>1, <1>2 DEF TrustedAreSynced
<1>11. KeepInv'
  BY <1>2, <1>6, <1>9, <1>10, OthersKnow
<1> QED BY <1>5, <1>11

(* The awaits at which a device leaves its domain for another one. *)
LEMMA JoiningKnows ==
  ASSUME Orderly, KeepInv, NEW d \in Device, DeviceTrust(d) \/ Join(d)
  PROVE  /\ KeepInv'
         /\ pc'[d] # pc[d]
         /\ \A e \in Device \ {d} : groups'[e] = groups[e]
         /\ trust'[d] = trust[d] => groups'[d] = groups[d]
<1>1. /\ TypeInv /\ TypeOK /\ Situation(d) /\ OneDomain /\ TrustedAreSynced
      /\ \A e \in Device : Inside(e) \/ Outside(e)
  BY DEF KeepInv, TypeInv, Knows
<1>2. TypeInv' /\ UNCHANGED <<case, synced, turn, converted, seen>>
  BY <1>1, JoiningType DEF DeviceTrust, Join
<1>3. \/ UNCHANGED <<trust, groups>>
      \/ /\ case.remote # NoTrust /\ case.remote.of \in Device
         /\ AddToTrust(d, case.remote.of)
  <2>1. CASE Join(d)
    BY <1>1, <2>1, CaseType DEF Join, Situation, Joins, JoinPC
  <2>2. CASE DeviceTrust(d)
    BY <1>1, <2>2, CaseType DEF DeviceTrust
  <2> QED BY <2>1, <2>2
<1>4. /\ OneDomain'
      /\ \A e \in Device : Inside(e)' \/ Outside(e)'
      /\ \A e \in Device \ {d} : Inside(e)' <=> Inside(e)
      /\ \A e \in Device \ {d} : groups'[e] = groups[e]
      /\ trust'[d] = trust[d] => groups'[d] = groups[d]
  <2>1. CASE UNCHANGED <<trust, groups>>
    BY <1>1, <1>2, <2>1 DEF OneDomain, Inside, Outside
  <2>2. CASE /\ case.remote # NoTrust /\ case.remote.of \in Device
             /\ AddToTrust(d, case.remote.of)
    <3>1. \A e \in Device \ {d} : groups'[e] = groups[e]
      BY <1>1, <2>2, AddToTrustDoes
    <3> QED BY <1>1, <1>2, <2>2, <3>1, JoinKeepsDomains
  <2> QED BY <1>3, <2>1, <2>2
<1>5. /\ pc'[d] \in {"groupsOfTraffic", "convertAll", "joinGroup"} /\ pc'[d] # pc[d]
      /\ \A e \in Device \ {d} : pc'[e] = pc[e]
  BY <1>1 DEF TypeOK, DeviceTrust, Join, Go
<1>6. Knows(d)'
  BY <1>4, <1>5 DEF Knows, UsesPC
<1>7. TrustedAreSynced'
  BY <1>1, <1>2 DEF TrustedAreSynced
<1>8. KeepInv'
  BY <1>2, <1>4, <1>5, <1>6, <1>7, OthersKnow
<1> QED BY <1>4, <1>5, <1>8

LEMMA InitKnows == Init => KeepInv
<1> SUFFICES ASSUME Init PROVE KeepInv
  OBVIOUS
<1>1. TypeInv
  BY InitType
<1>2. OneDomain /\ TrustedAreSynced
  <2>1. ASSUME NEW d \in Device, NEW e \in trust[d]
        PROVE  trust[e] = trust[d] /\ groups[e] = groups[d]
    <3>1. e \in Device
      BY <1>1, <2>1 DEF TypeInv, TypeOK
    <3>2. CASE d \in case.trusted
      BY <2>1, <3>1, <3>2 DEF Init
    <3>3. CASE d \notin case.trusted
      BY <2>1, <3>1, <3>3 DEF Init
    <3> QED BY <3>2, <3>3
  <2> QED BY <2>1 DEF Init, OneDomain, TrustedAreSynced
<1>3. ASSUME NEW d \in Device PROVE Knows(d)
  <2>1. pc[d] \in {"configSync", "idle"}
    BY DEF Init
  <2>2. Inside(d) \/ Outside(d)
    BY DEF Init, Inside, Outside
  <2> QED BY <2>1, <2>2 DEF Knows, UsesPC
<1> QED BY <1>1, <1>2, <1>3 DEF KeepInv

LEMMA NextKnows ==
  ASSUME Orderly, KeepInv, [Next]_vars
  PROVE  KeepInv'
<1>1. CASE UNCHANGED vars
  <2>1. UNCHANGED <<case, trust, groups, synced, pc, turn, converted, seen>>
    BY <1>1 DEF vars
  <2>2. TypeInv'
    BY NextType DEF KeepInv
  <2>3. \A d \in Device : (Inside(d)' <=> Inside(d)) /\ (Outside(d)' <=> Outside(d))
    BY <2>1 DEF Inside, Outside
  <2>4. OneDomain' /\ TrustedAreSynced'
    BY <2>1 DEF KeepInv, OneDomain, TrustedAreSynced
  <2>5. ASSUME NEW d \in Device PROVE Knows(d)'
    <3>1. KnownMembers(ThisGroup(d))' = KnownMembers(ThisGroup(d))
      <4>1. ThisGroup(d)' = ThisGroup(d)
        BY <2>1 DEF ThisGroup
      <4> QED BY <2>1, <4>1, SameCase
    <3>2. SameForAll' <=> SameForAll
      BY <2>1, SameCase
    <3>3. Knows(d)
      BY DEF KeepInv
    <3> QED BY <2>1, <2>3, <3>1, <3>2, <3>3 DEF Knows
  <2> QED BY <2>2, <2>4, <2>5 DEF KeepInv
<1>2. ASSUME NEW d \in Device, Handle(d) \/ Fails(d)
      PROVE  KeepInv'
  BY <1>2, ReadingKnows, WritingKnows, JoiningKnows DEF Handle
<1> QED BY <1>1, <1>2 DEF Next

(* What a step does to the members of a group on one device.               *)
LEMMA StepKeepsMembers ==
  ASSUME Orderly, KeepInv, [Next]_vars, SameForAll, NEW dg \in DeclaredGroups, NEW d \in Device,
         groups[d][dg.name] # Absent, pc'[d] = pc[d] \/ trust'[d] = trust[d]
  PROVE  groups[d][dg.name] \cap KnownMembers(dg) \subseteq groups'[d][dg.name]
<1>1. TypeOK /\ OneDomain
  BY DEF KeepInv, TypeInv
<1>2. CASE UNCHANGED groups
  BY <1>2
<1>3. ASSUME NEW a \in Device, DeviceTrust(a) \/ Join(a)
      PROVE  groups'[d] = groups[d]
  <2>1. a = d => trust'[d] = trust[d]
    BY <1>3, JoiningKnows
  <2> QED BY <1>3, <2>1, JoiningKnows
<1>4. ASSUME NEW a \in Device, JoinGroup(a) \/ Add(a) \/ Create(a) \/ PruneRemove(a)
      PROVE  groups[d][dg.name] \cap KnownMembers(dg) \subseteq groups'[d][dg.name]
  <2>1. PICK members \in SUBSET Device :
          /\ SetGroup(a, ThisGroup(a).name, members)
          /\ Members(a) # Absent =>
               Members(a) \cap KnownMembers(ThisGroup(a)) \subseteq members
    BY <1>4, WritingKnows
  <2>2. case.groups # <<>>
    BY <1>4 DEF KeepInv, TypeInv, Situation, GroupPC, JoinGroup, Add, Create, PruneRemove
  <2>3. ThisGroup(a).name \in Group /\ ThisGroup(a) \in DeclaredGroups
    BY <1>1, <2>2, ThisGroupType
  <2>4. dg.name \in Group
    <3>1. case.groups \in Seq(DeviceGroup)
      BY <1>1, CaseType
    <3>2. dg \in DeviceGroup
      BY <3>1 DEF DeclaredGroups
    <3> QED BY <3>2 DEF DeviceGroup
  <2>5. CASE d \in trust[a] /\ dg.name = ThisGroup(a).name
    <3>1. dg = ThisGroup(a)
      BY <1>1, <2>3, <2>5, ClusterAssumption DEF DeclaredGroups, TypeOK
    <3>2. groups[a] = groups[d]
      BY <1>1, <2>5 DEF OneDomain
    <3>3. groups'[d][dg.name] = members
      BY <1>1, <2>1, <2>3, <2>5, SetGroupDoes
    <3> QED BY <2>1, <3>1, <3>2, <3>3 DEF Members
  <2>6. CASE d \notin trust[a]
    BY <1>1, <2>1, <2>3, <2>6, SetGroupDoes
  <2>7. CASE dg.name # ThisGroup(a).name
    BY <1>1, <2>1, <2>3, <2>4, <2>7, SetGroupDoes
  <2> QED BY <2>5, <2>6, <2>7
<1>5. ASSUME NEW a \in Device, Handle(a) \/ Fails(a)
      PROVE  groups[d][dg.name] \cap KnownMembers(dg) \subseteq groups'[d][dg.name]
  <2>1. CASE UNCHANGED groups
    BY <2>1
  <2>2. CASE ~UNCHANGED groups
    <3>1. \/ DeviceTrust(a) \/ Join(a)
          \/ JoinGroup(a) \/ Add(a) \/ Create(a) \/ PruneRemove(a)
      BY <1>5, <2>2 DEF Handle, ConfigSync, ConvertAll, ConvertOne, Reconvert, WaitForGroup,
         AreInTrust, PruneList, Sync, GroupsOfTraffic, TrafficGroup, Fails
    <3> QED BY <1>3, <1>4, <3>1
  <2> QED BY <2>1, <2>2
<1> QED BY <1>2, <1>5 DEF Next, vars

(* No device takes a member out of a group that the declaration puts it in *)
(* and every handler can name, wherever the handlers are between their     *)
(* calls and wherever they fail, if the remote host is in the domain that  *)
(* was there before.                                                       *)
THEOREM MembersAreKept == ASSUME Orderly PROVE Spec => MembersStay
<1>1. ASSUME KeepInv, [Next]_vars
      PROVE  SameForAll => \A dg \in DeclaredGroups, d \in Device :
               groups[d][dg.name] # Absent /\ (pc'[d] = pc[d] \/ trust'[d] = trust[d]) =>
                 groups[d][dg.name] \cap KnownMembers(dg) \subseteq groups'[d][dg.name]
  BY <1>1, StepKeepsMembers
<1>2. KeepInv /\ [Next]_vars => KeepInv'
  BY NextKnows
<1> QED BY <1>1, <1>2, InitKnows, PTL DEF Spec, MembersStay
-----------------------------------------------------------------------------
(* Where the handlers end *)

(* The groups are begun where the others will look for them: by the remote *)
(* host or a device that trusts it, and without a remote host by devices   *)
(* that trust each other.                                                  *)
Rooted ==
  \A c \in Cases : c.groups # <<>> =>
    IF c.remote = NoTrust THEN c.active \subseteq c.trusted
                          ELSE c.groups[1].owner.of \in {c.remote.of} \cup c.trusted

FinalPC == {"groupsOfTraffic", "trafficGroup", "done"}

(* The handler of d has dealt with group i.                                *)
Passed(d, i) == i < turn[d] \/ (i = turn[d] /\ pc[d] = "sync") \/ pc[d] \in FinalPC

(* Whoever deals with a group is in the domain of the remote host.         *)
Home(d) ==
  /\ pc[d] # "idle" \/ turn[d] > 1 => d \in case.active
  /\ Joins /\ (turn[d] > 1 \/ pc[d] \in UsesPC \cup {"joinGroup", "reconvert"} \cup FinalPC) =>
       d \in trust[case.remote.of]

(* A device sets its config sync address first.                            *)
SyncsFirst(d) == case.syncs /\ pc[d] \notin {"configSync"} \cup Stopped => d \in synced

(* Whom a device puts into a group: itself, and if it is the owner those   *)
(* who are there already.                                                  *)
Owns(d, dg) == dg.owner.of = d /\ Recognisable(dg)
Due(d, dg) == {x \in KnownMembers(dg) : x = d \/ (x \in case.trusted /\ Owns(d, dg))}

(* Whom it takes out, and nobody will add.                                 *)
Gone(d, dg) ==
  {x \in Device \ MembersOf(dg) : KnownMembers(dg) # {} /\ (x = d \/ x \notin case.active)}

(* A device has brought a group about.                                     *)
Entered(d, dg) ==
  /\ groups[d][dg.name] # Absent
  /\ Due(d, dg) \subseteq groups[d][dg.name]
  /\ Gone(d, dg) \cap groups[d][dg.name] = {}

(* On the way there.                                                       *)
Enters(d, dg) ==
  /\ pc[d] \in UsesPC => converted[d].members \subseteq MembersOf(dg)
  /\ pc[d] = "create" => seen[d] \subseteq MembersOf(dg) /\ Due(d, dg) \subseteq seen[d]
  /\ pc[d] \in {"reconvert", "list", "remove"} => Due(d, dg) \subseteq Members(d)
  /\ pc[d] = "remove" => Gone(d, dg) \cap Members(d) \subseteq seen[d]

(* The owner is not among those who wait.                                  *)
Leads(d, dg) ==
  Owns(d, dg) => /\ pc[d] \notin {"waitForGroup", "add", "join", "joinGroup", "reconvert"}
                 /\ pc[d] \in UsesPC => IsOwner(d, converted[d])

Ends(d) ==
  /\ \A i \in DOMAIN case.groups : Passed(d, i) => Entered(d, case.groups[i])
  /\ pc[d] \in {"trafficGroup", "done"} => \A dg \in DeclaredGroups :
       d \in KnownMembers(dg) => IF pc[d] = "done" THEN d \in case.haOrder => d \in haOrder[d]
                                                   ELSE d \in seen[d]

EndInv ==
  /\ KeepInv
  /\ \A d \in Device : Home(d) /\ SyncsFirst(d)
  /\ SameForAll => \A d \in Device : Enters(d, ThisGroup(d)) /\ Leads(d, ThisGroup(d)) /\ Ends(d)

(* In the first state nobody has dealt with a group.                       *)
LEMMA InitEnds == Init => EndInv
<1> SUFFICES ASSUME Init PROVE EndInv
  OBVIOUS
<1>1. KeepInv
  BY InitKnows
<1>2. ASSUME NEW d \in Device
      PROVE  /\ pc[d] \in {"configSync", "idle"} /\ turn[d] = 1
             /\ pc[d] # "idle" => d \in case.active
  BY DEF Init
<1>3. \A d \in Device, i \in DOMAIN case.groups : ~Passed(d, i)
  <2>1. case.groups \in Seq(DeviceGroup)
    BY <1>1, CaseType DEF KeepInv, TypeInv
  <2> QED BY <1>2, <2>1 DEF Passed, FinalPC
<1> QED BY <1>1, <1>2, <1>3 DEF EndInv, Home, SyncsFirst, Enters, Leads, Ends, UsesPC,
                              FinalPC, Stopped

(* What a device owes to a group depends on the declaration alone.         *)
LEMMA SameDues ==
  ASSUME UNCHANGED case
  PROVE  \A d, dg : /\ Due(d, dg)' = Due(d, dg) /\ Gone(d, dg)' = Gone(d, dg)
                    /\ Owns(d, dg)' <=> Owns(d, dg)
                    /\ KnownMembers(dg)' = KnownMembers(dg) /\ MembersOf(dg)' = MembersOf(dg)
BY SameCase DEF Due, Gone, Owns, Recognisable, MembersOf, KnownMembers

(* A step leaves the handlers of the other devices alone.                  *)
LEMMA StepDoes ==
  ASSUME TypeOK, NEW a \in Device, Handle(a) \/ Fails(a)
  PROVE  /\ UNCHANGED case
         /\ \A d \in Device \ {a} : /\ pc'[d] = pc[d] /\ turn'[d] = turn[d]
                                    /\ converted'[d] = converted[d] /\ seen'[d] = seen[d]
                                    /\ haOrder'[d] = haOrder[d] /\ needsSync'[d] = needsSync[d]
         /\ pc[a] \notin {"idle", "done"}
<1> USE DEF TypeOK
<1>1. CASE ConfigSync(a) \/ DeviceTrust(a) \/ ConvertAll(a) \/ ConvertOne(a) \/ Join(a)
  BY <1>1 DEF ConfigSync, DeviceTrust, ConvertAll, ConvertOne, Join, Go
<1>2. CASE JoinGroup(a) \/ Reconvert(a) \/ WaitForGroup(a) \/ Add(a) \/ AreInTrust(a) \/ Create(a)
  BY <1>2 DEF JoinGroup, Reconvert, WaitForGroup, Add, AreInTrust, Create, Go
<1>3. CASE PruneList(a) \/ PruneRemove(a) \/ Sync(a)
  BY <1>3 DEF PruneList, PruneRemove, Sync, LeavePrune, Go
<1>4. CASE GroupsOfTraffic(a) \/ TrafficGroup(a) \/ Fails(a)
  BY <1>4 DEF GroupsOfTraffic, TrafficGroup, Fails, Go, Stopped
<1> QED BY <1>1, <1>2, <1>3, <1>4 DEF Handle

(* Which step writes a group or leaves a domain.                           *)
LEMMA Writers ==
  ASSUME TypeOK, NEW a \in Device, Handle(a) \/ Fails(a)
  PROVE  \/ UNCHANGED <<trust, groups>>
         \/ DeviceTrust(a) \/ Join(a)
         \/ JoinGroup(a) \/ Add(a) \/ Create(a) \/ PruneRemove(a)
BY DEF Handle, ConfigSync, ConvertAll, ConvertOne, Reconvert, WaitForGroup,
       AreInTrust, PruneList, Sync, GroupsOfTraffic, TrafficGroup, Fails

(* What a device writes.                                                   *)
LEMMA WriterDoes ==
  ASSUME KeepInv, NEW a \in Device, JoinGroup(a) \/ Add(a) \/ Create(a) \/ PruneRemove(a)
  PROVE  /\ case.groups # <<>> /\ ThisGroup(a).name \in Group /\ ThisGroup(a) \in DeclaredGroups
         /\ UNCHANGED trust
         /\ \A d \in Device \ trust[a] : groups'[d] = groups[d]
         /\ \A d \in Device, g \in Group \ {ThisGroup(a).name} : groups'[d][g] = groups[d][g]
         /\ \E members \in SUBSET Device :
              /\ \A d \in trust[a] : groups'[d][ThisGroup(a).name] = members
              /\ members = CASE pc[a] \in {"joinGroup", "add"} -> Members(a) \cup {a}
                             [] pc[a] = "create" ->
                                  (IF Members(a) = Absent THEN {} ELSE Members(a)) \cup seen[a]
                             [] pc[a] = "remove" -> Members(a) \ seen[a]
<1>1. TypeOK /\ case.groups # <<>>
  BY DEF KeepInv, TypeInv, Situation, GroupPC, JoinGroup, Add, Create, PruneRemove
<1>2. /\ ThisGroup(a).name \in Group /\ ThisGroup(a) \in DeclaredGroups
      /\ Members(a) \in {Absent} \cup SUBSET Device
      /\ seen[a] \in SUBSET Device /\ UNCHANGED trust
  BY <1>1, ThisGroupType DEF TypeOK, JoinGroup, Add, Create, PruneRemove
<1>3. pc[a] \in {"joinGroup", "add", "remove"} => Members(a) \in SUBSET Device
  BY <1>2 DEF KeepInv, TypeInv, Situation, MemberPC
<1>4. ASSUME NEW members \in SUBSET Device, SetGroup(a, ThisGroup(a).name, members)
      PROVE  /\ \A d \in Device \ trust[a] : groups'[d] = groups[d]
             /\ \A d \in Device, g \in Group \ {ThisGroup(a).name} : groups'[d][g] = groups[d][g]
             /\ \A d \in trust[a] : groups'[d][ThisGroup(a).name] = members
  BY <1>1, <1>2, <1>4, SetGroupDoes
<1>5. CASE JoinGroup(a) \/ Add(a)
  <2>1. pc[a] \in {"joinGroup", "add"}
    BY <1>5 DEF JoinGroup, Add
  <2>2. SetGroup(a, ThisGroup(a).name, Members(a) \cup {a}) /\ Members(a) \cup {a} \in SUBSET Device
    BY <1>3, <1>5, <2>1 DEF JoinGroup, Add
  <2> QED BY <1>1, <1>2, <1>4, <2>1, <2>2
<1>6. CASE Create(a)
  <2> DEFINE members == (IF Members(a) = Absent THEN {} ELSE Members(a)) \cup seen[a]
  <2>1. pc[a] = "create" /\ SetGroup(a, ThisGroup(a).name, members) /\ members \in SUBSET Device
    BY <1>2, <1>6 DEF Create
  <2>2. /\ \A d \in Device \ trust[a] : groups'[d] = groups[d]
        /\ \A d \in Device, g \in Group \ {ThisGroup(a).name} : groups'[d][g] = groups[d][g]
        /\ \A d \in trust[a] : groups'[d][ThisGroup(a).name] = members
    BY <1>4, <2>1
  <2> QED BY <1>1, <1>2, <2>1, <2>2
<1>7. CASE PruneRemove(a)
  <2>1. pc[a] = "remove" /\ SetGroup(a, ThisGroup(a).name, Members(a) \ seen[a])
        /\ Members(a) \ seen[a] \in SUBSET Device
    BY <1>3, <1>7 DEF PruneRemove
  <2> QED BY <1>1, <1>2, <1>4, <2>1
<1> QED BY <1>5, <1>6, <1>7

(* Declared groups differ in their names.                                  *)
LEMMA GroupNames ==
  ASSUME TypeOK
  PROVE  /\ \A dg \in DeclaredGroups : dg \in DeviceGroup /\ dg.name \in Group
         /\ \A i \in DOMAIN case.groups : case.groups[i] \in DeclaredGroups
         /\ \A dg, other \in DeclaredGroups : dg.name = other.name => dg = other
         /\ \A i, j \in DOMAIN case.groups : case.groups[i].name = case.groups[j].name => i = j
<1>1. case.groups \in Seq(DeviceGroup)
  BY CaseType
<1>2. \A dg \in DeclaredGroups : dg \in DeviceGroup
  BY <1>1 DEF DeclaredGroups
<1>3. \A i, j \in DOMAIN case.groups : case.groups[i].name = case.groups[j].name => i = j
  BY ClusterAssumption DEF TypeOK
<1> QED BY <1>2, <1>3 DEF DeviceGroup, DeclaredGroups

(* Whoever deals with a group is inside.                                   *)
LEMMA HomeIsInside ==
  ASSUME Orderly, Rooted, EndInv, NEW d \in Device,
         \/ pc[d] \in UsesPC \cup {"joinGroup", "reconvert"}
         \/ case.groups # <<>> /\ (turn[d] > 1 \/ pc[d] \in FinalPC)
  PROVE  /\ Inside(d)
         /\ Joins => d \in trust[case.remote.of] /\ trust[d] = trust[case.remote.of]
<1>1. TypeOK /\ OneDomain /\ Home(d) /\ (Inside(d) \/ Outside(d)) /\ Situation(d)
  BY DEF EndInv, KeepInv, Knows, TypeInv
<1>2. CASE Joins
  <2>1. case.remote.of \in Device /\ d \in trust[case.remote.of]
    BY <1>1, <1>2, CaseType DEF Home, Joins
  <2>2. trust[d] = trust[case.remote.of] /\ case.remote.of \in trust[case.remote.of]
    BY <1>1, <2>1 DEF OneDomain, EndInv, KeepInv, TypeInv, Situation
  <2>3. Inside(d)
    BY <1>1, <1>2, <2>1, <2>2, RemoteIsTrusted DEF Inside, Outside, Joins
  <2> QED BY <2>1, <2>2, <2>3
<1>3. CASE ~Joins
  <2>1. case.groups # <<>>
    BY <1>1 DEF Situation, UsesPC, GroupPC
  <2>2. case.remote = NoTrust
    BY <1>3, <2>1 DEF Joins
  <2>3. case.active \subseteq case.trusted
    BY <1>1, <2>1, <2>2 DEF Rooted, TypeOK
  <2>4. pc[d] # "idle" \/ turn[d] > 1
    BY <1>1 DEF UsesPC, FinalPC
  <2> QED BY <1>1, <1>3, <2>3, <2>4 DEF Home, Outside
<1> QED BY <1>2, <1>3

(* A write brings into a group the writer and members that are declared.   *)
LEMMA WriteBrings ==
  ASSUME Orderly, EndInv, SameForAll, NEW a \in Device,
         JoinGroup(a) \/ Add(a) \/ Create(a) \/ PruneRemove(a),
         NEW dg \in DeclaredGroups, NEW d \in Device
  PROVE  /\ groups'[d][dg.name] = Absent => groups[d][dg.name] = Absent
         /\ groups[d][dg.name] # Absent => \A x \in groups'[d][dg.name] :
              \/ x \in groups[d][dg.name] \cup MembersOf(dg)
              \/ x = a /\ d \in trust[a] /\ pc[a] \in {"joinGroup", "add"} /\ dg = ThisGroup(a)
<1>1. TypeOK /\ OneDomain /\ Enters(a, ThisGroup(a))
  BY DEF EndInv, KeepInv, TypeInv
<1>2. dg.name \in Group /\ ThisGroup(a) \in DeclaredGroups
  BY <1>1, GroupNames, WriterDoes DEF EndInv
<1>3. CASE d \notin trust[a] \/ dg.name # ThisGroup(a).name
  <2>1. groups'[d][dg.name] = groups[d][dg.name]
    BY <1>2, <1>3, WriterDoes DEF EndInv
  <2> QED BY <2>1
<1>4. CASE d \in trust[a] /\ dg.name = ThisGroup(a).name
  <2>1. dg = ThisGroup(a) /\ groups[d] = groups[a]
    BY <1>1, <1>2, <1>4, GroupNames DEF OneDomain
  <2>2. PICK members \in SUBSET Device :
          /\ groups'[d][dg.name] = members
          /\ members = CASE pc[a] \in {"joinGroup", "add"} -> Members(a) \cup {a}
                         [] pc[a] = "create" ->
                              (IF Members(a) = Absent THEN {} ELSE Members(a)) \cup seen[a]
                         [] pc[a] = "remove" -> Members(a) \ seen[a]
    BY <1>4, WriterDoes DEF EndInv
  <2>3. pc[a] \in {"joinGroup", "add", "create", "remove"}
    BY DEF JoinGroup, Add, Create, PruneRemove
  <2>4. pc[a] = "create" => seen[a] \subseteq MembersOf(dg)
    BY <1>1, <2>1 DEF Enters
  <2>5. Members(a) = groups[d][dg.name]
    BY <2>1 DEF Members
  <2>6. groups[d][dg.name] # Absent => \A x \in members :
          \/ x \in groups[d][dg.name] \cup MembersOf(dg)
          \/ x = a /\ pc[a] \in {"joinGroup", "add"}
    BY <2>2, <2>3, <2>4, <2>5
  <2>7. members # Absent
    BY <2>2, SetExists
  <2> QED BY <1>4, <2>1, <2>2, <2>6, <2>7
<1> QED BY <1>3, <1>4

(* What the other devices leave as it is.                                  *)
LEMMA OthersKeepEntry ==
  ASSUME Orderly, EndInv, SameForAll, NEW a \in Device, Handle(a) \/ Fails(a),
         NEW dg \in DeclaredGroups, NEW d \in Device \ {a}, groups[d][dg.name] # Absent
  PROVE  /\ groups'[d][dg.name] # Absent
         /\ KnownMembers(dg) \cap groups[d][dg.name] \subseteq groups'[d][dg.name]
         /\ Gone(d, dg) \cap groups'[d][dg.name] \subseteq groups[d][dg.name]
<1>1. KeepInv /\ TypeOK /\ pc'[d] = pc[d] /\ a \in case.active
  BY StepDoes DEF EndInv, KeepInv, TypeInv, Home
<1>2. groups[d][dg.name] \cap KnownMembers(dg) \subseteq groups'[d][dg.name]
  <2>1. [Next]_vars
    BY DEF Next
  <2> QED BY <1>1, <2>1, StepKeepsMembers
<1>3. CASE groups'[d] = groups[d]
  BY <1>3
<1>4. CASE DeviceTrust(a) \/ Join(a)
  BY <1>1, <1>3, <1>4, JoiningKnows
<1>5. CASE JoinGroup(a) \/ Add(a) \/ Create(a) \/ PruneRemove(a)
  <2>1. groups'[d][dg.name] # Absent
    BY <1>5, WriteBrings
  <2>2. a \notin Gone(d, dg) /\ Gone(d, dg) \cap MembersOf(dg) = {}
    BY <1>1 DEF Gone
  <2>3. \A x \in groups'[d][dg.name] : x \in groups[d][dg.name] \cup MembersOf(dg) \/ x = a
    BY <1>5, WriteBrings
  <2> QED BY <1>2, <2>1, <2>2, <2>3
<1> QED BY <1>1, <1>2, <1>3, <1>4, <1>5, Writers

(* A device keeps itself what it has done before.                          *)
LEMMA OwnerKeepsEntry ==
  ASSUME Orderly, Rooted, EndInv, SameForAll, NEW d \in Device, Handle(d) \/ Fails(d),
         NEW i \in DOMAIN case.groups, Passed(d, i), Entered(d, case.groups[i])
  PROVE  Entered(d, case.groups[i])'
<1> DEFINE dg == case.groups[i]
<1>1. /\ KeepInv /\ TypeOK /\ Situation(d) /\ dg \in DeclaredGroups /\ UNCHANGED case
      /\ case.groups # <<>> /\ i \in 1 .. Len(case.groups)
  <2>1. case.groups \in Seq(DeviceGroup)
    BY CaseType DEF EndInv, KeepInv, TypeInv
  <2> QED BY <2>1, StepDoes, GroupNames DEF EndInv, KeepInv, TypeInv
<1>2. ASSUME groups'[d][dg.name] # Absent,
             KnownMembers(dg) \cap groups[d][dg.name] \subseteq groups'[d][dg.name],
             Gone(d, dg) \cap groups'[d][dg.name] \subseteq groups[d][dg.name]
      PROVE  Entered(d, case.groups[i])'
  <2>1. Due(d, dg)' = Due(d, dg) /\ Gone(d, dg)' = Gone(d, dg) /\ (case.groups[i])' = dg
    BY <1>1, SameDues
  <2>2. Due(d, dg) \subseteq KnownMembers(dg)
    BY DEF Due
  <2> QED BY <1>2, <2>1, <2>2 DEF Entered
<1>3. CASE groups'[d] = groups[d]
  BY <1>2, <1>3 DEF Entered
<1>4. CASE DeviceTrust(d) \/ Join(d)
  <2>1. CASE DeviceTrust(d)
    <3>1. case.remote = NoTrust
      BY <1>1, <2>1 DEF DeviceTrust, Situation, Joins
    <3> QED BY <1>3, <2>1, <3>1 DEF DeviceTrust
  <2>2. CASE Join(d)
    <3>1. pc[d] = "join" /\ Joins /\ AddToTrust(d, case.remote.of) /\ case.remote.of \in Device
      BY <1>1, <2>2, CaseType DEF Join, Situation, Joins, JoinPC
    <3>2. turn[d] > 1
      <4>1. i < turn[d]
        BY <3>1 DEF Passed, FinalPC
      <4> QED BY <1>1, <4>1 DEF TypeOK
    <3>3. d \in trust[case.remote.of] /\ trust[d] = trust[case.remote.of]
      BY <1>1, <3>1, <3>2, HomeIsInside
    <3>4. trust'[d] = trust[d]
      <4>1. trust'[d] = trust[case.remote.of] \cup {d}
        <5>1. trust' = [e \in Device |-> IF e \in trust[case.remote.of] \cup {d}
                                           THEN trust[case.remote.of] \cup {d}
                                           ELSE trust[e] \ {d}]
          BY <3>1 DEF AddToTrust, Domain
        <5> QED BY <5>1
      <4> QED BY <3>3, <4>1
    <3> QED BY <1>1, <1>3, <2>2, <3>4, JoiningKnows
  <2> QED BY <1>4, <2>1, <2>2
<1>5. CASE JoinGroup(d) \/ Add(d) \/ Create(d) \/ PruneRemove(d)
  <2>1. trust'[d] = trust[d] /\ [Next]_vars
    BY <1>5, WriterDoes DEF EndInv, Next
  <2>2. groups[d][dg.name] \cap KnownMembers(dg) \subseteq groups'[d][dg.name]
    BY <1>1, <2>1, StepKeepsMembers DEF Entered
  <2>3. dg # ThisGroup(d)
    <3>1. pc[d] \notin FinalPC \cup {"sync"}
      BY <1>5 DEF JoinGroup, Add, Create, PruneRemove, FinalPC
    <3>2. i < turn[d] /\ turn[d] \in 1 .. Len(case.groups)
      BY <1>1, <3>1, ThisGroupType DEF Passed
    <3>3. turn[d] \in DOMAIN case.groups /\ i # turn[d]
      BY <1>1, <3>2, CaseType
    <3> QED BY <1>1, <3>3, GroupNames DEF ThisGroup
  <2>4. /\ groups'[d][dg.name] # Absent
        /\ \A x \in groups'[d][dg.name] : x \in groups[d][dg.name] \cup MembersOf(dg)
    BY <1>1, <1>5, <2>3, WriteBrings DEF Entered
  <2>5. Gone(d, dg) \cap MembersOf(dg) = {}
    BY DEF Gone
  <2> HIDE DEF dg
  <2> QED BY <1>2, <2>2, <2>4, <2>5
<1> QED BY <1>1, <1>3, <1>4, <1>5, Writers

(* Where a handler goes from a group.                                      *)
LEMMA NextGroupTurns ==
  ASSUME TypeOK, NEW d \in Device, case.groups # <<>>, UNCHANGED case,
         NEW first \in {"convert", "inTrust", "waitForGroup"},
         turn' = [turn EXCEPT ![d] = NextGroup(d, first)[1]], Go(d, NextGroup(d, first)[2])
  PROVE  /\ pc'[d] \in {first, "groupsOfTraffic"} /\ turn'[d] >= turn[d]
         /\ pc'[d] = first => turn'[d] \in 1 .. Len(case.groups)
         /\ \A i \in DOMAIN case.groups : Passed(d, i)' => i <= turn[d]
<1>1. turn[d] \in 1 .. Len(case.groups) /\ case.groups \in Seq(DeviceGroup)
  BY ThisGroupType, CaseType
<1>2. CASE turn[d] < Len(case.groups)
  <2>1. turn'[d] = turn[d] + 1 /\ pc'[d] = first
    BY <1>2 DEF NextGroup, Go, TypeOK
  <2> QED BY <1>1, <1>2, <2>1 DEF Passed, FinalPC
<1>3. CASE ~(turn[d] < Len(case.groups))
  <2>1. turn'[d] = turn[d] /\ pc'[d] = "groupsOfTraffic"
    BY <1>3 DEF NextGroup, Go, TypeOK
  <2>2. turn[d] = Len(case.groups)
    BY <1>1, <1>3
  <2> QED BY <1>1, <2>1, <2>2
<1> QED BY <1>2, <1>3

LEMMA LeaveTurns ==
  ASSUME TypeOK, NEW d \in Device, case.groups # <<>>, UNCHANGED case,
         LeavePrune(d) \/ Sync(d)
  PROVE  /\ turn'[d] >= turn[d]
         /\ pc'[d] \in {"sync", "convert", "inTrust", "waitForGroup", "groupsOfTraffic"}
         /\ pc'[d] = "convert" => Joins
         /\ pc'[d] \in {"inTrust", "waitForGroup"} => ~Joins
         /\ pc'[d] = "sync" => turn'[d] = turn[d]
         /\ pc'[d] = "waitForGroup" => ~IsOwner(d, converted[d])
         /\ pc'[d] = "sync" => IsOwner(d, converted[d])
         /\ \A i \in DOMAIN case.groups : Passed(d, i)' => i <= turn[d]
<1>1. turn[d] \in 1 .. Len(case.groups) /\ case.groups \in Seq(DeviceGroup)
  BY ThisGroupType, CaseType
<1>2. ASSUME NEW first \in {"convert", "inTrust", "waitForGroup"}, first = "convert" <=> Joins,
             first = "waitForGroup" => ~IsOwner(d, converted[d]),
             turn' = [turn EXCEPT ![d] = NextGroup(d, first)[1]], Go(d, NextGroup(d, first)[2])
      PROVE  /\ turn'[d] >= turn[d]
             /\ pc'[d] \in {"sync", "convert", "inTrust", "waitForGroup", "groupsOfTraffic"}
             /\ pc'[d] = "convert" => Joins
             /\ pc'[d] \in {"inTrust", "waitForGroup"} => ~Joins
             /\ pc'[d] = "sync" => turn'[d] = turn[d]
             /\ pc'[d] = "waitForGroup" => ~IsOwner(d, converted[d])
             /\ pc'[d] = "sync" => IsOwner(d, converted[d])
             /\ \A i \in DOMAIN case.groups : Passed(d, i)' => i <= turn[d]
  BY <1>2, NextGroupTurns
<1>3. (IF Joins THEN "convert" ELSE FirstOf(d, converted[d])) \in
        {"convert", "inTrust", "waitForGroup"}
  BY DEF FirstOf
<1>4. (IF Joins THEN "convert" ELSE FirstOf(d, converted[d])) = "convert" <=> Joins
  BY DEF FirstOf
<1>5. (IF Joins THEN "convert" ELSE FirstOf(d, converted[d])) = "waitForGroup" =>
        ~IsOwner(d, converted[d])
  BY DEF FirstOf
<1>6. CASE LeavePrune(d) /\ IsOwner(d, converted[d])
  <2>1. turn'[d] = turn[d] /\ pc'[d] = "sync"
    BY <1>6 DEF LeavePrune, AfterPrune, Go, TypeOK
  <2> QED BY <1>1, <1>6, <2>1 DEF Passed, FinalPC
<1>7. CASE LeavePrune(d) /\ ~IsOwner(d, converted[d])
  <2> DEFINE first == IF Joins THEN "convert" ELSE FirstOf(d, converted[d])
  <2>1. /\ turn' = [turn EXCEPT ![d] = NextGroup(d, first)[1]]
        /\ Go(d, NextGroup(d, first)[2])
    BY <1>7 DEF LeavePrune, AfterPrune
  <2> HIDE DEF first
  <2>2. first \in {"convert", "inTrust", "waitForGroup"} /\ (first = "convert" <=> Joins)
        /\ (first = "waitForGroup" => ~IsOwner(d, converted[d]))
    BY <1>3, <1>4, <1>5 DEF first
  <2> QED BY <1>2, <2>1, <2>2
<1>8. CASE Sync(d)
  <2> DEFINE first == IF Joins THEN "convert" ELSE FirstOf(d, converted[d])
  <2>1. /\ turn' = [turn EXCEPT ![d] = NextGroup(d, first)[1]]
        /\ Go(d, NextGroup(d, first)[2])
    BY <1>8 DEF Sync
  <2> HIDE DEF first
  <2>2. first \in {"convert", "inTrust", "waitForGroup"} /\ (first = "convert" <=> Joins)
        /\ (first = "waitForGroup" => ~IsOwner(d, converted[d]))
    BY <1>3, <1>4, <1>5 DEF first
  <2> QED BY <1>2, <2>1, <2>2
<1> QED BY <1>6, <1>7, <1>8

(* A handler has passed a group when it has pruned it.                     *)
LEMMA StepPasses ==
  ASSUME TypeInv, NEW d \in Device, Handle(d) \/ Fails(d), NEW i \in DOMAIN case.groups,
         Passed(d, i)'
  PROVE  \/ Passed(d, i)
         \/ i = turn[d] /\ ((PruneList(d) /\ Superfluous(d) = {}) \/ PruneRemove(d))
<1>1. TypeOK /\ Situation(d) /\ UNCHANGED case /\ i \in 1 .. Len(case.groups)
      /\ turn[d] \in Nat
  <2>1. case.groups \in Seq(DeviceGroup)
    BY CaseType DEF TypeInv
  <2> QED BY <2>1, StepDoes DEF TypeInv, TypeOK
<1>2. CASE UNCHANGED turn /\ pc'[d] \notin FinalPC \cup {"sync"}
  BY <1>2 DEF Passed
<1>3. CASE UNCHANGED turn /\ pc[d] \in FinalPC
  BY <1>3 DEF Passed
<1>4. CASE PruneList(d) \/ PruneRemove(d) \/ Sync(d)
  <2>1. case.groups # <<>>
    BY <1>1, <1>4 DEF PruneList, PruneRemove, Sync, Situation, GroupPC
  <2>2. CASE PruneList(d) /\ Superfluous(d) # {}
    BY <1>1, <1>2, <2>2 DEF PruneList, Go, TypeOK, FinalPC
  <2>3. CASE (PruneList(d) /\ Superfluous(d) = {}) \/ PruneRemove(d)
    <3>1. i <= turn[d]
      BY <1>1, <2>1, <2>3, LeaveTurns DEF PruneList, PruneRemove
    <3> QED BY <1>1, <2>3, <3>1 DEF Passed
  <2>4. CASE Sync(d)
    <3>1. i <= turn[d] /\ pc[d] = "sync"
      BY <1>1, <2>1, <2>4, LeaveTurns DEF Sync
    <3> QED BY <1>1, <3>1 DEF Passed
  <2> QED BY <1>4, <2>2, <2>3, <2>4
<1>5. CASE ConfigSync(d) \/ ConvertAll(d) \/ ConvertOne(d) \/ Join(d)
  <2>1. UNCHANGED turn /\ pc'[d] \notin FinalPC \cup {"sync"}
    BY <1>1, <1>5 DEF ConfigSync, ConvertAll, ConvertOne, Join, Go, FirstOf, TypeOK, FinalPC
  <2> QED BY <1>2, <2>1
<1>6. CASE DeviceTrust(d)
  <2>1. UNCHANGED turn /\ pc'[d] \notin FinalPC \cup {"sync"}
    BY <1>1, <1>6 DEF DeviceTrust, Go, TypeOK, FinalPC
  <2> QED BY <1>2, <2>1
<1>7. CASE JoinGroup(d) \/ Reconvert(d) \/ WaitForGroup(d) \/ Add(d) \/ AreInTrust(d) \/ Create(d)
           \/ Fails(d)
  <2>1. UNCHANGED turn /\ pc'[d] \notin FinalPC \cup {"sync"}
    BY <1>1, <1>7 DEF JoinGroup, Reconvert, WaitForGroup, Add, AreInTrust, Create, Fails, Go,
                      TypeOK, FinalPC
  <2> QED BY <1>2, <2>1
<1>8. CASE GroupsOfTraffic(d) \/ TrafficGroup(d)
  BY <1>3, <1>8 DEF GroupsOfTraffic, TrafficGroup, FinalPC
<1> QED BY <1>4, <1>5, <1>6, <1>7, <1>8 DEF Handle

(* The domain of the remote host only grows.                               *)
LEMMA RemoteKeeps ==
  ASSUME EndInv, NEW a \in Device, Handle(a) \/ Fails(a), Joins
  PROVE  /\ trust[case.remote.of] \subseteq trust'[case.remote.of]
         /\ Join(a) => a \in trust'[case.remote.of]
<1> DEFINE r == case.remote.of
<1>1. TypeOK /\ r \in Device /\ Situation(a) /\ r \in trust[r]
  BY CaseType DEF EndInv, KeepInv, TypeInv, Situation, Joins
<1>2. CASE UNCHANGED trust /\ ~Join(a)
  BY <1>2
<1>3. CASE DeviceTrust(a)
  <2>1. pc[a] = "trust"
    BY <1>3 DEF DeviceTrust
  <2> QED BY <1>1, <2>1 DEF Situation
<1>4. CASE Join(a)
  <2>1. trust' = [e \in Device |-> IF e \in trust[r] \cup {a} THEN trust[r] \cup {a}
                                                            ELSE trust[e] \ {a}]
    BY <1>4 DEF Join, AddToTrust, Domain
  <2>2. trust'[r] = trust[r] \cup {a}
    BY <1>1, <2>1
  <2> QED BY <2>2
<1>5. ~Join(a) /\ (JoinGroup(a) \/ Add(a) \/ Create(a) \/ PruneRemove(a)) => UNCHANGED trust
  BY DEF JoinGroup, Add, Create, PruneRemove
<1> QED BY <1>1, <1>2, <1>3, <1>4, <1>5, Writers

(* A device joins the remote host before it deals with a group.            *)
LEMMA StepHome ==
  ASSUME Orderly, Rooted, EndInv, NEW a \in Device, Handle(a) \/ Fails(a)
  PROVE  \A d \in Device : Home(d)'
<1>1. /\ TypeOK /\ TypeInv /\ Situation(a) /\ UNCHANGED case /\ (Joins' <=> Joins)
      /\ OneDomain /\ \A d \in Device : Home(d) /\ (Inside(d) \/ Outside(d))
  BY StepDoes, SameCase DEF EndInv, KeepInv, TypeInv, Knows
<1>2. ASSUME NEW d \in Device \ {a} PROVE Home(d)'
  BY <1>1, StepDoes, RemoteKeeps DEF Home
<1> SUFFICES Home(a)'
  BY <1>2
<1>3. a \in case.active
  BY <1>1, StepDoes DEF Home
<1>4. ASSUME Joins, \/ a \in trust[case.remote.of]
                    \/ Join(a)
      PROVE  Home(a)'
  BY <1>1, <1>3, <1>4, RemoteKeeps DEF Home
<1>5. CASE Joins /\ (turn[a] > 1 \/ pc[a] \in UsesPC \cup {"joinGroup", "reconvert"} \cup FinalPC)
  BY <1>1, <1>4, <1>5 DEF Home
<1>6. CASE ~Joins
  BY <1>1, <1>3, <1>6 DEF Home
<1>7. CASE Joins /\ ~(turn[a] > 1 \/ pc[a] \in UsesPC \cup {"joinGroup", "reconvert"} \cup FinalPC)
  <2>1. CASE Join(a)
    BY <1>4, <1>7, <2>1
  <2>2. CASE ConvertOne(a)
    <3>1. CASE IsOwner(a, Convert(a, ThisGroup(a))) \/ IsRemoteHost(a)
      <4>1. CASE IsRemoteHost(a)
        BY <1>1, <1>4, <1>7, <4>1 DEF IsRemoteHost, Situation
      <4>2. CASE IsOwner(a, Convert(a, ThisGroup(a)))
        <5>1. Convert(a, ThisGroup(a)).owner = Hostname(a)
          BY <4>2 DEF IsOwner
        <5>2. ThisGroup(a).owner.of = a
          BY <5>1 DEF Convert, Hostname
        <5>3. turn[a] = 1 /\ case.groups # <<>> /\ case.remote # NoTrust
          <6>1. case.groups # <<>> /\ case.remote # NoTrust
            BY <1>7 DEF Joins
          <6> QED BY <1>1, <1>7, <6>1, ThisGroupType, CaseType
        <5>4. a \in {case.remote.of} \cup case.trusted
          BY <1>1, <5>2, <5>3 DEF Rooted, ThisGroup, TypeOK
        <5>5. CASE a \in case.trusted
          <6>1. case.remote.of \in case.trusted
            BY <1>1, <5>3, <5>5, RemoteIsTrusted
          <6>2. Inside(a) /\ case.remote.of \in trust[a] /\ a \in trust[a]
            BY <1>1, <5>5, <6>1 DEF Inside, Outside, Situation
          <6>3. a \in trust[case.remote.of]
            BY <1>1, <6>2 DEF OneDomain
          <6> QED BY <1>4, <1>7, <6>3
        <5>6. CASE a = case.remote.of
          BY <1>1, <1>4, <1>7, <5>6 DEF Situation
        <5> QED BY <5>4, <5>5, <5>6
      <4> QED BY <3>1, <4>1, <4>2
    <3>2. CASE ~(IsOwner(a, Convert(a, ThisGroup(a))) \/ IsRemoteHost(a))
      <4>1. pc'[a] = "join" /\ turn' = turn
        BY <1>1, <2>2, <3>2 DEF ConvertOne, Go, TypeOK
      <4> QED BY <1>1, <1>3, <1>7, <4>1 DEF Home, UsesPC, FinalPC
    <3> QED BY <3>1, <3>2
  <2>3. CASE ConfigSync(a) \/ Fails(a)
    <3>1. pc'[a] \in {"convert", "trust", "failed", "hung"} /\ turn' = turn
      BY <1>1, <2>3 DEF ConfigSync, Fails, Go, TypeOK
    <3> QED BY <1>1, <1>3, <1>7, <3>1 DEF Home, UsesPC, FinalPC
  <2>4. ~DeviceTrust(a) /\ ~ConvertAll(a)
    BY <1>1, <1>7 DEF DeviceTrust, ConvertAll, Situation
  <2>5. ~(JoinGroup(a) \/ Reconvert(a) \/ WaitForGroup(a) \/ Add(a) \/ AreInTrust(a) \/ Create(a)
          \/ PruneList(a) \/ PruneRemove(a) \/ Sync(a) \/ GroupsOfTraffic(a) \/ TrafficGroup(a))
    BY <1>7 DEF JoinGroup, Reconvert, WaitForGroup, Add, AreInTrust, Create, PruneList, PruneRemove,
                Sync, GroupsOfTraffic, TrafficGroup, UsesPC, FinalPC
  <2> QED BY <2>1, <2>2, <2>3, <2>4, <2>5 DEF Handle
<1> QED BY <1>5, <1>6, <1>7

LEMMA StepSyncsFirst ==
  ASSUME EndInv, NEW a \in Device, Handle(a) \/ Fails(a)
  PROVE  \A d \in Device : SyncsFirst(d)'
<1>1. TypeOK /\ UNCHANGED case /\ \A d \in Device : SyncsFirst(d)
  BY StepDoes DEF EndInv, KeepInv, TypeInv
<1>2. synced \subseteq synced'
  BY DEF Handle, ConfigSync, DeviceTrust, ConvertAll, ConvertOne, Join, JoinGroup, Reconvert,
         WaitForGroup, Add, AreInTrust, Create, PruneList, PruneRemove, Sync, GroupsOfTraffic,
         TrafficGroup, Fails
<1>3. ASSUME NEW d \in Device \ {a} PROVE SyncsFirst(d)'
  BY <1>1, <1>2, StepDoes DEF SyncsFirst
<1>4. SyncsFirst(a)'
  <2>1. CASE ConfigSync(a)
    BY <1>1, <2>1 DEF ConfigSync, SyncsFirst
  <2>2. CASE Fails(a)
    BY <1>1, <2>2 DEF Fails, Go, TypeOK, SyncsFirst, Stopped
  <2>3. CASE ~ConfigSync(a) /\ ~Fails(a)
    <3>1. pc[a] \notin {"configSync"} \cup Stopped
      BY <2>3 DEF Handle, DeviceTrust, ConvertAll, ConvertOne, Join, JoinGroup, Reconvert,
             WaitForGroup, Add, AreInTrust, Create, PruneList, PruneRemove, Sync, GroupsOfTraffic,
             TrafficGroup, Stopped
    <3> QED BY <1>1, <1>2, <3>1 DEF SyncsFirst
  <2> QED BY <2>1, <2>2, <2>3
<1> QED BY <1>3, <1>4

(* What a device has done or is about to do survives what others do.       *)
LEMMA OthersEnd ==
  ASSUME Orderly, EndInv, SameForAll, NEW a \in Device, Handle(a) \/ Fails(a),
         NEW d \in Device \ {a}
  PROVE  Enters(d, ThisGroup(d))' /\ Leads(d, ThisGroup(d))' /\ Ends(d)'
<1>1. /\ TypeOK /\ Situation(d) /\ Enters(d, ThisGroup(d)) /\ Ends(d)
      /\ Leads(d, ThisGroup(d))
      /\ UNCHANGED <<case, pc[d], turn[d], converted[d], seen[d], haOrder[d]>>
      /\ DeclaredGroups' = DeclaredGroups
      /\ \A dg : /\ Due(d, dg)' = Due(d, dg) /\ Gone(d, dg)' = Gone(d, dg)
                 /\ Owns(d, dg)' <=> Owns(d, dg)
                 /\ KnownMembers(dg)' = KnownMembers(dg) /\ MembersOf(dg)' = MembersOf(dg)
                 /\ Due(d, dg) \subseteq KnownMembers(dg)
  BY StepDoes, SameCase, SameDues DEF EndInv, KeepInv, TypeInv, Due
<1>2. ASSUME NEW dg \in DeclaredGroups, groups[d][dg.name] # Absent
      PROVE  /\ groups'[d][dg.name] # Absent
             /\ KnownMembers(dg) \cap groups[d][dg.name] \subseteq groups'[d][dg.name]
             /\ Gone(d, dg) \cap groups'[d][dg.name] \subseteq groups[d][dg.name]
  BY <1>2, OthersKeepEntry
<1>3. ThisGroup(d)' = ThisGroup(d)
  BY <1>1 DEF ThisGroup
<1>4. Enters(d, ThisGroup(d))'
  <2> DEFINE dg == ThisGroup(d)
  <2>1. pc[d] \in {"reconvert", "list", "remove"} =>
          /\ KnownMembers(dg) \cap Members(d) \subseteq groups'[d][dg.name]
          /\ Gone(d, dg) \cap groups'[d][dg.name] \subseteq Members(d)
    <3> SUFFICES ASSUME pc[d] \in {"reconvert", "list", "remove"}
                 PROVE  /\ KnownMembers(dg) \cap Members(d) \subseteq groups'[d][dg.name]
                        /\ Gone(d, dg) \cap groups'[d][dg.name] \subseteq Members(d)
      OBVIOUS
    <3>1. dg \in DeclaredGroups /\ groups[d][dg.name] # Absent
      <4>1. case.groups # <<>>
        BY <1>1 DEF Situation, GroupPC
      <4>2. dg \in DeclaredGroups
        BY <1>1, <4>1, ThisGroupType
      <4> QED BY <1>1, <4>2 DEF Situation, MemberPC, Members
    <3>2. Members(d) = groups[d][dg.name]
      BY DEF Members
    <3> HIDE DEF dg
    <3> QED BY <1>2, <3>1, <3>2
  <2>2. Members(d)' = groups'[d][dg.name]
    BY <1>3 DEF Members
  <2>3. Enters(d, dg)
    BY <1>1
  <2>4. /\ pc[d] \in UsesPC => converted[d].members \subseteq MembersOf(dg)
        /\ pc[d] = "create" => seen[d] \subseteq MembersOf(dg) /\ Due(d, dg) \subseteq seen[d]
        /\ pc[d] \in {"reconvert", "list", "remove"} => Due(d, dg) \subseteq Members(d)
        /\ pc[d] = "remove" => Gone(d, dg) \cap Members(d) \subseteq seen[d]
    <3> HIDE DEF dg
    <3> QED BY <2>3 DEF Enters
  <2>5. /\ Due(d, ThisGroup(d))' = Due(d, dg) /\ Gone(d, ThisGroup(d))' = Gone(d, dg)
        /\ MembersOf(ThisGroup(d))' = MembersOf(dg) /\ Due(d, dg) \subseteq KnownMembers(dg)
    BY <1>1, <1>3, SameDues DEF Due, Gone, Owns, MembersOf, Recognisable, KnownMembers
  <2> HIDE DEF dg
  <2>6. (pc[d] \in {"reconvert", "list", "remove"} => Due(d, ThisGroup(d)) \subseteq Members(d))'
    BY <1>1, <2>1, <2>2, <2>4, <2>5
  <2>7. (pc[d] = "remove" => Gone(d, ThisGroup(d)) \cap Members(d) \subseteq seen[d])'
    BY <1>1, <2>1, <2>2, <2>4, <2>5
  <2> QED BY <1>1, <2>4, <2>5, <2>6, <2>7 DEF Enters
<1>5. Ends(d)'
  <2>1. \A i \in DOMAIN case.groups : Passed(d, i)' => Passed(d, i)
    BY <1>1 DEF Passed
  <2>2. ASSUME NEW i \in DOMAIN case.groups, Entered(d, case.groups[i])
        PROVE  Entered(d, case.groups[i])'
    <3>1. case.groups[i] \in DeclaredGroups
      BY <1>1, GroupNames
    <3>2. (case.groups[i])' = case.groups[i]
      BY <1>1
    <3>3. /\ Due(d, case.groups[i])' = Due(d, case.groups[i])
          /\ Gone(d, case.groups[i])' = Gone(d, case.groups[i])
      BY <1>1, <3>2
    <3> QED BY <1>1, <1>2, <2>2, <3>1, <3>2, <3>3 DEF Entered
  <2>3. \A i \in DOMAIN case.groups : Passed(d, i)' => Entered(d, case.groups[i])'
    BY <1>1, <2>1, <2>2 DEF Ends
  <2>4. (\A i \in DOMAIN case.groups : Passed(d, i) => Entered(d, case.groups[i]))'
    BY <1>1, <2>3
  <2>5. pc'[d] \in {"trafficGroup", "done"} => \A dg \in DeclaredGroups :
          d \in KnownMembers(dg) => IF pc'[d] = "done" THEN d \in case.haOrder => d \in haOrder'[d]
                                                      ELSE d \in seen'[d]
    BY <1>1 DEF Ends
  <2>6. (pc[d] \in {"trafficGroup", "done"} => \A dg \in DeclaredGroups :
           d \in KnownMembers(dg) => IF pc[d] = "done" THEN d \in case.haOrder => d \in haOrder[d]
                                                       ELSE d \in seen[d])'
    BY <1>1, <2>5
  <2> QED BY <2>4, <2>6 DEF Ends
<1>6. Leads(d, ThisGroup(d))'
  <2>1. Owns(d, ThisGroup(d))' <=> Owns(d, ThisGroup(d))
    BY <1>1, <1>3 DEF Owns, Recognisable
  <2> QED BY <1>1, <2>1 DEF Leads, IsOwner
<1> QED BY <1>4, <1>5, <1>6

(* The owner finds itself in what convertToHostnames gives.                *)
LEMMA Recognises ==
  ASSUME TypeInv, NEW d \in Device, NEW dg \in DeviceGroup, Owns(d, dg), case.syncs => d \in synced
  PROVE  IsOwner(d, Convert(d, dg))
<1>1. d \in trust[d] /\ dg.owner \in Address /\ dg.owner.of = d
  BY DEF TypeInv, Situation, Owns, DeviceGroup
<1>2. CASE ~IsIp(dg.owner)
  <2>1. dg.owner = Hostname(d)
    BY <1>1, <1>2 DEF Address, Hostname, IsIp
  <2> QED BY <1>2, <2>1 DEF Convert, IsOwner
<1>3. CASE IsIp(dg.owner)
  <2>1. (\E m \in dg.members : IsIp(m)) /\ (dg.owner.kind = "configSync" => d \in synced)
    BY <1>3 DEF Owns, Recognisable
  <2> QED BY <1>1, <1>3, <2>1 DEF Convert, IsOwner
<1> QED BY <1>2, <1>3

(* The group that a handler turns to is declared.                          *)
LEMMA NextGroupIsDeclared ==
  ASSUME TypeInv, NEW d \in Device, Handle(d) \/ Fails(d), case.groups # <<>>
  PROVE  ThisGroup(d)' \in DeclaredGroups
<1>1. TypeOK /\ TypeOK' /\ UNCHANGED case
  BY NextType, StepDoes DEF TypeInv, Next
<1>2. case.groups \in Seq(DeviceGroup) /\ turn'[d] \in 1 .. Len(case.groups) \cup {1}
  BY <1>1, CaseType DEF TypeOK
<1>3. turn'[d] \in DOMAIN case.groups
  BY <1>2
<1> QED BY <1>1, <1>3 DEF ThisGroup, DeclaredGroups

(* The owner never waits for the group that it is to create.               *)
LEMMA OwnLeads ==
  ASSUME EndInv, SameForAll, NEW d \in Device, Handle(d) \/ Fails(d)
  PROVE  Leads(d, ThisGroup(d))'
<1>1. /\ TypeInv /\ TypeOK /\ Situation(d) /\ Leads(d, ThisGroup(d)) /\ SyncsFirst(d)
      /\ UNCHANGED case
  BY StepDoes DEF EndInv, KeepInv, TypeInv
<1>2. turn'[d] = turn[d] => (Owns(d, ThisGroup(d))' <=> Owns(d, ThisGroup(d)))
  BY <1>1 DEF Owns, Recognisable, ThisGroup
<1>3. pc[d] \in GroupPC => /\ ThisGroup(d) \in DeclaredGroups /\ ThisGroup(d) \in DeviceGroup
                           /\ case.groups # <<>>
  BY <1>1, ThisGroupType DEF Situation
<1>4. pc[d] \in {"convert", "convertAll"} /\ case.syncs => d \in synced
  BY <1>1 DEF SyncsFirst, Stopped
<1>5. CASE ConvertAll(d)
  <2> DEFINE last == case.groups[Len(case.groups)]
  <2>1. /\ pc[d] = "convertAll" /\ ThisGroup(d) \in DeclaredGroups /\ case.groups # <<>>
        /\ case.groups \in Seq(DeviceGroup) /\ ~Joins
    BY <1>1, <1>3, <1>5, CaseType DEF ConvertAll, GroupPC, Situation
  <2>2. last \in DeclaredGroups /\ last \in DeviceGroup
    BY <2>1 DEF DeclaredGroups
  <2>3. Owns(d, ThisGroup(d)) => Owns(d, last)
    BY <2>1, <2>2 DEF SameForAll, Owns, Recognisable
  <2>4. Owns(d, ThisGroup(d)) => IsOwner(d, Convert(d, last))
    BY <1>1, <1>4, <2>1, <2>2, <2>3, Recognises
  <2>5. /\ converted'[d] = Convert(d, last) /\ turn'[d] = turn[d]
        /\ pc'[d] = FirstOf(d, Convert(d, last))
    BY <1>1, <1>5 DEF ConvertAll, Go, TypeOK
  <2> HIDE DEF last
  <2>6. IsOwner(d, converted[d])' <=> IsOwner(d, Convert(d, last))
    BY <2>5 DEF IsOwner
  <2>7. Owns(d, ThisGroup(d))' => IsOwner(d, converted[d])' /\ pc'[d] = "inTrust"
    BY <1>2, <2>4, <2>5, <2>6 DEF FirstOf
  <2> QED BY <2>7 DEF Leads
<1>6. CASE ConvertOne(d)
  <2> DEFINE conv == Convert(d, ThisGroup(d))
  <2>1. pc[d] = "convert" /\ ThisGroup(d) \in DeviceGroup
    BY <1>3, <1>6 DEF ConvertOne, GroupPC
  <2>2. Owns(d, ThisGroup(d)) => IsOwner(d, conv)
    BY <1>1, <1>4, <2>1, Recognises
  <2>3. /\ converted'[d] = conv /\ turn'[d] = turn[d]
        /\ IsOwner(d, conv) => pc'[d] = FirstOf(d, conv)
    BY <1>1, <1>6 DEF ConvertOne, Go, TypeOK
  <2> HIDE DEF conv
  <2>4. IsOwner(d, converted[d])' <=> IsOwner(d, conv)
    BY <2>3 DEF IsOwner
  <2>5. Owns(d, ThisGroup(d))' => IsOwner(d, converted[d])' /\ pc'[d] = "inTrust"
    BY <1>2, <2>2, <2>3, <2>4 DEF FirstOf
  <2> QED BY <2>5 DEF Leads
<1>7. CASE Join(d) \/ JoinGroup(d) \/ Reconvert(d) \/ WaitForGroup(d) \/ Add(d)
  <2>1. /\ pc[d] \in {"waitForGroup", "add", "join", "joinGroup", "reconvert"}
        /\ turn'[d] = turn[d]
    BY <1>7 DEF Join, JoinGroup, Reconvert, WaitForGroup, Add
  <2> QED BY <1>1, <1>2, <2>1 DEF Leads
<1>8. CASE AreInTrust(d) \/ Create(d) \/ (PruneList(d) /\ Superfluous(d) # {})
  <2>1. /\ pc[d] \in UsesPC /\ pc'[d] \in {"create", "list", "remove"}
        /\ turn'[d] = turn[d] /\ converted'[d] = converted[d]
    BY <1>1, <1>8 DEF AreInTrust, Create, PruneList, Go, TypeOK, UsesPC
  <2> QED BY <1>1, <1>2, <2>1 DEF Leads, IsOwner
<1>9. CASE (PruneList(d) /\ Superfluous(d) = {}) \/ PruneRemove(d) \/ Sync(d)
  <2>1. /\ UNCHANGED converted /\ pc[d] \in {"list", "remove", "sync"}
        /\ LeavePrune(d) \/ Sync(d)
    BY <1>9 DEF PruneList, PruneRemove, Sync
  <2>2. case.groups # <<>> /\ ThisGroup(d) \in DeclaredGroups
    BY <1>3, <2>1 DEF GroupPC
  <2>3. /\ pc'[d] \in {"sync", "convert", "inTrust", "waitForGroup", "groupsOfTraffic"}
        /\ pc'[d] \in {"inTrust", "waitForGroup"} => ~Joins
        /\ pc'[d] = "sync" => turn'[d] = turn[d]
        /\ pc'[d] = "waitForGroup" => ~IsOwner(d, converted[d])
    BY <1>1, <2>1, <2>2, LeaveTurns
  <2>4. pc'[d] \in UsesPC /\ Owns(d, ThisGroup(d))' => Owns(d, ThisGroup(d))
    <3>1. CASE pc'[d] = "sync"
      BY <1>2, <2>3, <3>1
    <3>2. CASE pc'[d] \in {"inTrust", "waitForGroup"}
      <4>1. ThisGroup(d)' \in DeclaredGroups
        BY <1>1, <2>2, NextGroupIsDeclared
      <4>2. ThisGroup(d)'.owner = ThisGroup(d).owner /\ ThisGroup(d)'.members = ThisGroup(d).members
        BY <2>2, <2>3, <3>2, <4>1 DEF SameForAll
      <4> QED BY <1>1, <4>2 DEF Owns, Recognisable
    <3> QED BY <2>3, <3>1, <3>2 DEF UsesPC
  <2>5. pc'[d] \in UsesPC /\ Owns(d, ThisGroup(d))' => IsOwner(d, converted[d])
    BY <1>1, <2>1, <2>4 DEF Leads, UsesPC
  <2>6. IsOwner(d, converted[d])' <=> IsOwner(d, converted[d])
    BY <2>1 DEF IsOwner
  <2>7. pc'[d] \notin {"add", "join", "joinGroup", "reconvert"}
        /\ (pc'[d] = "waitForGroup" => pc'[d] \in UsesPC)
    BY <2>3 DEF UsesPC
  <2> QED BY <2>3, <2>5, <2>6, <2>7 DEF Leads
<1>10. CASE ConfigSync(d) \/ DeviceTrust(d) \/ GroupsOfTraffic(d) \/ TrafficGroup(d) \/ Fails(d)
  <2>1. pc'[d] \notin UsesPC \cup {"join", "joinGroup", "reconvert"}
    BY <1>1, <1>10 DEF ConfigSync, DeviceTrust, GroupsOfTraffic, TrafficGroup, Fails, Go, TypeOK,
                       UsesPC
  <2> QED BY <2>1 DEF Leads, UsesPC
<1> QED BY <1>5, <1>6, <1>7, <1>8, <1>9, <1>10 DEF Handle

(* What convertToHostnames gives are members.                              *)
LEMMA ConvertedAreMembers ==
  ASSUME NEW d \in Device, NEW dg
  PROVE  Convert(d, dg).members \subseteq MembersOf(dg)
BY DEF Convert, MembersOf

(* Without a trust all groups are to have the same members.                *)
LEMMA SameMembers ==
  ASSUME TypeOK, SameForAll, ~Joins, NEW dg \in DeclaredGroups, NEW other \in DeclaredGroups
  PROVE  MembersOf(dg) = MembersOf(other) /\ KnownMembers(dg) = KnownMembers(other)
<1>1. dg.members = other.members
  BY DEF SameForAll
<1> QED BY <1>1 DEF MembersOf, KnownMembers

(* A device on its way into a group.                                       *)
LEMMA OwnEnters ==
  ASSUME Orderly, Rooted, EndInv, SameForAll, NEW d \in Device, Handle(d) \/ Fails(d)
  PROVE  Enters(d, ThisGroup(d))'
<1>1. /\ KeepInv /\ TypeInv /\ TypeOK /\ Situation(d) /\ Knows(d) /\ Enters(d, ThisGroup(d))
      /\ Situation(d)' /\ UNCHANGED case
      /\ Leads(d, ThisGroup(d)) /\ \A dg : MembersOf(dg)' = MembersOf(dg)
  <2>1. TypeInv'
    BY NextType DEF EndInv, KeepInv, Next
  <2> QED BY <2>1, StepDoes DEF EndInv, KeepInv, TypeInv, MembersOf
<1>2. turn' = turn => /\ ThisGroup(d)' = ThisGroup(d)
                      /\ Due(d, ThisGroup(d))' = Due(d, ThisGroup(d))
                      /\ Gone(d, ThisGroup(d))' = Gone(d, ThisGroup(d))
                      /\ MembersOf(ThisGroup(d))' = MembersOf(ThisGroup(d))
                      /\ groups' = groups => Members(d)' = Members(d)
  <2>1. turn' = turn => ThisGroup(d)' = ThisGroup(d)
    BY <1>1 DEF ThisGroup
  <2>2. turn' = turn => KnownMembers(ThisGroup(d))' = KnownMembers(ThisGroup(d))
    BY <1>1, <2>1 DEF KnownMembers
  <2>3. turn' = turn => (Owns(d, ThisGroup(d))' <=> Owns(d, ThisGroup(d)))
    BY <1>1, <2>1 DEF Owns, Recognisable
  <2> QED BY <1>1, <2>1, <2>2, <2>3 DEF Members, Due, Gone, MembersOf
<1>3. pc[d] \in GroupPC => ThisGroup(d) \in DeclaredGroups /\ case.groups # <<>>
                             /\ ThisGroup(d).name \in Group
  BY <1>1, ThisGroupType DEF Situation
<1>4. CASE pc'[d] \notin UsesPC \cup {"reconvert"}
  BY <1>4 DEF Enters, UsesPC
<1>5. CASE ConvertAll(d)
  <2> DEFINE last == case.groups[Len(case.groups)]
  <2>1. last \in DeclaredGroups /\ ThisGroup(d) \in DeclaredGroups /\ ~Joins
    <3>1. case.groups \in Seq(DeviceGroup) /\ pc[d] = "convertAll"
      BY <1>1, <1>5, CaseType DEF ConvertAll
    <3>2. case.groups # <<>> /\ ThisGroup(d) \in DeclaredGroups
      BY <1>3, <3>1 DEF GroupPC
    <3> QED BY <1>1, <3>1, <3>2 DEF Situation, DeclaredGroups
  <2>2. converted'[d] = Convert(d, last) /\ turn' = turn /\ pc'[d] \in {"inTrust", "waitForGroup"}
    BY <1>1, <1>5 DEF ConvertAll, TypeOK, Go, FirstOf
  <2>3. converted'[d].members \subseteq MembersOf(ThisGroup(d))
    BY <1>1, <2>1, <2>2, SameMembers, ConvertedAreMembers
  <2> QED BY <1>2, <2>2, <2>3 DEF Enters
<1>6. CASE ConvertOne(d)
  <2>1. /\ converted'[d] = Convert(d, ThisGroup(d)) /\ turn' = turn
        /\ pc'[d] \in {"inTrust", "waitForGroup", "join"}
    BY <1>1, <1>6 DEF ConvertOne, TypeOK, Go, FirstOf
  <2>2. converted'[d].members \subseteq MembersOf(ThisGroup(d))
    BY <2>1, ConvertedAreMembers
  <2> QED BY <1>2, <2>1, <2>2 DEF Enters
<1>7. CASE Reconvert(d)
  <2>1. /\ converted'[d].members = Convert(d, ThisGroup(d)).members /\ turn' = turn
        /\ pc'[d] = "list" /\ pc[d] = "reconvert" /\ groups' = groups
    BY <1>1, <1>7 DEF Reconvert, TypeOK, Go, Converted
  <2>2. converted'[d].members \subseteq MembersOf(ThisGroup(d))
    BY <2>1, ConvertedAreMembers
  <2>3. Due(d, ThisGroup(d)) \subseteq Members(d)
    BY <1>1, <2>1 DEF Enters
  <2> QED BY <1>2, <2>1, <2>2, <2>3 DEF Enters
<1>8. CASE WaitForGroup(d)
  <2>1. /\ UNCHANGED <<turn, converted>> /\ pc[d] = "waitForGroup" /\ pc'[d] = "add"
    BY <1>1, <1>8 DEF WaitForGroup, TypeOK, Go
  <2>2. converted[d].members \subseteq MembersOf(ThisGroup(d))
    BY <1>1, <2>1 DEF Enters, UsesPC
  <2> QED BY <1>2, <2>1, <2>2 DEF Enters
<1>9. CASE AreInTrust(d)
  <2>1. /\ UNCHANGED <<turn, converted>> /\ pc[d] = "inTrust" /\ pc'[d] = "create"
        /\ seen'[d] = converted[d].members \cap trust[d]
    BY <1>1, <1>9 DEF AreInTrust, TypeOK, Go
  <2>2. converted[d].members \subseteq MembersOf(ThisGroup(d))
    BY <1>1, <2>1 DEF Enters, UsesPC
  <2>3. Inside(d) /\ d \in trust[d]
    BY <1>1, <2>1, HomeIsInside DEF UsesPC, Situation
  <2>4. Due(d, ThisGroup(d)) \subseteq converted[d].members \cap trust[d]
    <3>1. KnownMembers(ThisGroup(d)) \subseteq converted[d].members
      BY <1>1, <2>1, <2>3 DEF Knows, UsesPC
    <3> QED BY <2>3, <3>1 DEF Due, Inside
  <2> QED BY <1>2, <2>1, <2>2, <2>3, <2>4 DEF Enters
<1>10. CASE JoinGroup(d) \/ Add(d) \/ Create(d)
  <2>1. /\ UNCHANGED <<turn, converted>> /\ pc[d] \in {"joinGroup", "add", "create"}
        /\ pc'[d] \in {"reconvert", "list"} /\ (pc[d] = "joinGroup" => pc'[d] = "reconvert")
    BY <1>1, <1>10 DEF JoinGroup, Add, Create, TypeOK, Go
  <2>2. pc[d] \in {"add", "create"} => converted[d].members \subseteq MembersOf(ThisGroup(d))
    BY <1>1, <2>1 DEF Enters, UsesPC
  <2>3. PICK members \in SUBSET Device :
          /\ \A e \in trust[d] : groups'[e][ThisGroup(d).name] = members
          /\ members = CASE pc[d] \in {"joinGroup", "add"} -> Members(d) \cup {d}
                         [] pc[d] = "create" ->
                              (IF Members(d) = Absent THEN {} ELSE Members(d)) \cup seen[d]
                         [] pc[d] = "remove" -> Members(d) \ seen[d]
    BY <1>1, <1>10, WriterDoes
  <2>4. groups'[d][ThisGroup(d).name] = members
    BY <1>1, <2>3 DEF Situation
  <2>5. /\ pc[d] = "create" => Due(d, ThisGroup(d)) \subseteq seen[d]
        /\ pc[d] # "create" => Due(d, ThisGroup(d)) \subseteq {d}
    BY <1>1, <2>1 DEF Enters, Leads, Due
  <2>6. Due(d, ThisGroup(d)) \subseteq members
    BY <2>1, <2>3, <2>5
  <2>7. Members(d)' = members
    BY <1>2, <2>1, <2>4 DEF Members
  <2>8. pc'[d] \in UsesPC => converted'[d].members \subseteq MembersOf(ThisGroup(d))'
    BY <1>2, <2>1, <2>2 DEF UsesPC
  <2>9. pc'[d] # "create" /\ pc'[d] # "remove"
    BY <2>1
  <2>10. Due(d, ThisGroup(d))' \subseteq Members(d)'
    BY <1>2, <2>1, <2>6, <2>7
  <2> QED BY <2>8, <2>9, <2>10 DEF Enters
<1>11. CASE PruneList(d) /\ Superfluous(d) # {}
  <2>1. /\ UNCHANGED <<turn, converted, groups>> /\ pc[d] = "list" /\ pc'[d] = "remove"
        /\ seen'[d] = Superfluous(d)
    BY <1>1, <1>11 DEF PruneList, TypeOK, Go
  <2>2. /\ converted[d].members \subseteq MembersOf(ThisGroup(d))
        /\ Due(d, ThisGroup(d)) \subseteq Members(d)
    BY <1>1, <2>1 DEF Enters, UsesPC
  <2>3. Gone(d, ThisGroup(d)) \cap Members(d) \subseteq Superfluous(d)
    BY <1>11, <2>2 DEF Superfluous, Gone
  <2> QED BY <1>2, <2>1, <2>2, <2>3 DEF Enters
<1>12. CASE (PruneList(d) /\ Superfluous(d) = {}) \/ PruneRemove(d) \/ Sync(d)
  <2>1. /\ UNCHANGED converted /\ pc[d] \in {"list", "remove", "sync"}
        /\ LeavePrune(d) \/ Sync(d)
    BY <1>12 DEF PruneList, PruneRemove, Sync
  <2>2. case.groups # <<>> /\ ThisGroup(d) \in DeclaredGroups
    BY <1>3, <2>1 DEF GroupPC
  <2>3. converted[d].members \subseteq MembersOf(ThisGroup(d))
    BY <1>1, <2>1 DEF Enters, UsesPC
  <2>4. /\ pc'[d] \in {"sync", "convert", "inTrust", "waitForGroup", "groupsOfTraffic"}
        /\ pc'[d] \in {"inTrust", "waitForGroup"} => ~Joins
        /\ pc'[d] = "sync" => turn'[d] = turn[d]
    BY <1>1, <2>1, <2>2, LeaveTurns
  <2>5. pc'[d] \in UsesPC => MembersOf(ThisGroup(d))' = MembersOf(ThisGroup(d))
    <3>1. CASE pc'[d] = "sync"
      <4>1. ThisGroup(d)' = ThisGroup(d)
        BY <1>1, <2>4, <3>1 DEF ThisGroup
      <4> QED BY <4>1 DEF MembersOf
    <3>2. CASE pc'[d] \in {"inTrust", "waitForGroup"}
      <4>1. ThisGroup(d)' \in DeclaredGroups
        BY <1>1, <2>2, NextGroupIsDeclared
      <4>2. MembersOf(ThisGroup(d)') = MembersOf(ThisGroup(d))
        BY <1>1, <2>2, <2>4, <3>2, <4>1, SameMembers
      <4> QED BY <4>2 DEF MembersOf
    <3> QED BY <2>4, <3>1, <3>2 DEF UsesPC
  <2> QED BY <2>1, <2>3, <2>4, <2>5 DEF Enters
<1>13. CASE ConfigSync(d) \/ DeviceTrust(d) \/ Join(d) \/ GroupsOfTraffic(d) \/ TrafficGroup(d)
            \/ Fails(d)
  <2>1. pc'[d] \notin UsesPC \cup {"reconvert"}
    BY <1>1, <1>13 DEF ConfigSync, DeviceTrust, Join, GroupsOfTraffic, TrafficGroup, Fails, Go,
                       TypeOK, UsesPC
  <2> QED BY <1>4, <2>1
<1> QED BY <1>5, <1>6, <1>7, <1>8, <1>9, <1>10, <1>11, <1>12, <1>13 DEF Handle

(* A device leaves a group with the members that are declared.             *)
LEMMA PassesEntered ==
  ASSUME Orderly, Rooted, EndInv, SameForAll, NEW d \in Device,
         NEW i \in DOMAIN case.groups, i = turn[d],
         (PruneList(d) /\ Superfluous(d) = {}) \/ PruneRemove(d)
  PROVE  Entered(d, case.groups[i])'
<1> DEFINE dg == case.groups[i]
<1>1. /\ TypeOK /\ Situation(d) /\ Knows(d) /\ Enters(d, ThisGroup(d)) /\ ThisGroup(d) = dg
      /\ pc[d] \in {"list", "remove"} /\ KeepInv
  BY DEF EndInv, KeepInv, TypeInv, PruneList, PruneRemove, ThisGroup
<1>2. UNCHANGED case
  BY DEF PruneList, PruneRemove
<1>3. dg \in DeclaredGroups /\ dg \in DeviceGroup /\ Members(d) \in SUBSET Device
  <2>1. case.groups # <<>>
    BY <1>1 DEF Situation, GroupPC
  <2> QED BY <1>1, <2>1, ThisGroupType, SetExists DEF Situation, MemberPC
<1>4. Inside(d)
  BY <1>1, HomeIsInside DEF UsesPC
<1>5. /\ \A x \in KnownMembers(dg) : x \in converted[d].members
      /\ pc[d] = "remove" => seen[d] \cap KnownMembers(dg) = {}
  BY <1>1, <1>4 DEF Knows, UsesPC
<1>6. /\ Due(d, dg) \subseteq Members(d) /\ Due(d, dg) \subseteq KnownMembers(dg)
      /\ converted[d].members \subseteq MembersOf(dg)
      /\ pc[d] = "remove" => Gone(d, dg) \cap Members(d) \subseteq seen[d]
      /\ Gone(d, dg) \cap MembersOf(dg) = {} /\ (KnownMembers(dg) = {} => Gone(d, dg) = {})
  BY <1>1 DEF Enters, UsesPC, Due, Gone
<1>7. Due(d, dg)' = Due(d, dg) /\ Gone(d, dg)' = Gone(d, dg) /\ (case.groups[i])' = dg
  BY <1>2, SameDues
<1>8. ASSUME groups'[d][dg.name] # Absent, Due(d, dg) \subseteq groups'[d][dg.name],
             Gone(d, dg) \cap groups'[d][dg.name] = {}
      PROVE  Entered(d, case.groups[i])'
  BY <1>7, <1>8 DEF Entered
<1>9. CASE PruneList(d) /\ Superfluous(d) = {}
  <2>1. groups'[d][dg.name] = Members(d) /\ Members(d) # Absent
    BY <1>1, <1>3, <1>9, SetExists DEF PruneList, Members
  <2>2. KnownMembers(dg) # {} => Members(d) \subseteq converted[d].members
    BY <1>3, <1>5, <1>9 DEF Superfluous
  <2> HIDE DEF dg
  <2> QED BY <1>6, <1>8, <2>1, <2>2
<1>10. CASE PruneRemove(d)
  <2>1. PICK members \in SUBSET Device :
          /\ \A e \in trust[d] : groups'[e][ThisGroup(d).name] = members
          /\ members = CASE pc[d] \in {"joinGroup", "add"} -> Members(d) \cup {d}
                         [] pc[d] = "create" ->
                              (IF Members(d) = Absent THEN {} ELSE Members(d)) \cup seen[d]
                         [] pc[d] = "remove" -> Members(d) \ seen[d]
    BY <1>1, <1>10, WriterDoes
  <2>2. pc[d] = "remove"
    BY <1>10 DEF PruneRemove
  <2>3. groups'[d][dg.name] = Members(d) \ seen[d] /\ Members(d) \ seen[d] # Absent
    <3>1. members = Members(d) \ seen[d]
      BY <2>1, <2>2
    <3>2. groups'[d][dg.name] = members
      BY <1>1, <2>1 DEF Situation
    <3> QED BY <3>1, <3>2, SetExists
  <2> HIDE DEF dg
  <2> QED BY <1>5, <1>6, <1>8, <2>2, <2>3
<1> QED BY <1>9, <1>10

(* What a device has at the end of its own step.                           *)
LEMMA OwnEnds ==
  ASSUME Orderly, Rooted, EndInv, SameForAll, NEW d \in Device, Handle(d) \/ Fails(d)
  PROVE  Ends(d)'
<1>1. /\ TypeOK /\ TypeInv /\ Situation(d) /\ Ends(d) /\ UNCHANGED case
      /\ pc[d] # "done" /\ DeclaredGroups' = DeclaredGroups
      /\ \A dg : KnownMembers(dg)' = KnownMembers(dg)
  BY StepDoes, SameCase DEF EndInv, KeepInv, TypeInv
<1>2. ASSUME NEW i \in DOMAIN case.groups, Passed(d, i)'
      PROVE  Entered(d, case.groups[i])'
  <2>1. CASE Passed(d, i)
    <3>1. Entered(d, case.groups[i])
      BY <1>1, <2>1 DEF Ends
    <3> QED BY <2>1, <3>1, OwnerKeepsEntry
  <2>2. CASE i = turn[d] /\ ((PruneList(d) /\ Superfluous(d) = {}) \/ PruneRemove(d))
    BY <2>2, PassesEntered
  <2> QED BY <1>1, <1>2, <2>1, <2>2, StepPasses
<1>3. (\A i \in DOMAIN case.groups : Passed(d, i) => Entered(d, case.groups[i]))'
  BY <1>1, <1>2
<1>4. pc'[d] \in {"trafficGroup", "done"} => \A dg \in DeclaredGroups :
        d \in KnownMembers(dg) => IF pc'[d] = "done" THEN d \in case.haOrder => d \in haOrder'[d]
                                                    ELSE d \in seen'[d]
  <2>1. CASE GroupsOfTraffic(d)
    <3>1. /\ pc[d] = "groupsOfTraffic" /\ pc'[d] = "trafficGroup"
          /\ seen'[d] = UNION {groups[d][g] : g \in {g \in Group : groups[d][g] # Absent}}
      BY <1>1, <2>1 DEF GroupsOfTraffic, Go, TypeOK
    <3>2. ASSUME NEW dg \in DeclaredGroups, d \in KnownMembers(dg)
          PROVE  d \in seen'[d]
      <4>1. PICK i \in DOMAIN case.groups : dg = case.groups[i]
        BY DEF DeclaredGroups
      <4>2. Entered(d, dg)
        BY <1>1, <3>1, <4>1 DEF Ends, Passed, FinalPC
      <4>3. dg.name \in Group /\ groups[d][dg.name] # Absent /\ d \in groups[d][dg.name]
        BY <1>1, <3>2, <4>2, GroupNames DEF Entered, Due
      <4> QED BY <3>1, <4>3
    <3> QED BY <3>1, <3>2
  <2>2. CASE TrafficGroup(d)
    <3>1. /\ pc[d] = "trafficGroup" /\ pc'[d] = "done"
          /\ haOrder'[d] = case.haOrder \cap seen[d]
      BY <1>1, <2>2 DEF TrafficGroup, Go, TypeOK
    <3>2. ASSUME NEW dg \in DeclaredGroups, d \in KnownMembers(dg)
          PROVE  d \in seen[d]
      BY <1>1, <3>1, <3>2 DEF Ends
    <3> QED BY <3>1, <3>2
  <2>3. CASE ~GroupsOfTraffic(d) /\ ~TrafficGroup(d)
    <3>1. pc'[d] \notin {"trafficGroup", "done"}
      <4>1. CASE PruneList(d) \/ PruneRemove(d) \/ Sync(d)
        <5>1. case.groups # <<>>
          BY <1>1, <4>1 DEF PruneList, PruneRemove, Sync, Situation, GroupPC
        <5>2. CASE PruneList(d) /\ Superfluous(d) # {}
          BY <1>1, <5>2 DEF PruneList, Go, TypeOK
        <5>3. CASE LeavePrune(d) \/ Sync(d)
          BY <1>1, <5>1, <5>3, LeaveTurns
        <5> QED BY <4>1, <5>2, <5>3 DEF PruneList, PruneRemove
      <4>2. CASE ConfigSync(d) \/ DeviceTrust(d) \/ ConvertAll(d) \/ ConvertOne(d) \/ Join(d)
        BY <1>1, <4>2 DEF ConfigSync, DeviceTrust, ConvertAll, ConvertOne, Join, Go, FirstOf, TypeOK
      <4>3. CASE JoinGroup(d) \/ Reconvert(d) \/ WaitForGroup(d) \/ Add(d) \/ AreInTrust(d)
                 \/ Create(d) \/ Fails(d)
        BY <1>1, <4>3 DEF JoinGroup, Reconvert, WaitForGroup, Add, AreInTrust, Create, Fails, Go,
                          TypeOK
      <4> QED BY <2>3, <4>1, <4>2, <4>3 DEF Handle
    <3> QED BY <3>1
  <2> QED BY <2>1, <2>2, <2>3
<1>5. (pc[d] \in {"trafficGroup", "done"} => \A dg \in DeclaredGroups :
         d \in KnownMembers(dg) => IF pc[d] = "done" THEN d \in case.haOrder => d \in haOrder[d]
                                                     ELSE d \in seen[d])'
  BY <1>1, <1>4
<1> QED BY <1>3, <1>5 DEF Ends

(* Every step keeps it.                                                    *)
LEMMA NextEnds ==
  ASSUME Orderly, Rooted, EndInv, [Next]_vars
  PROVE  EndInv'
<1>1. KeepInv'
  BY NextKnows DEF EndInv
<1>2. CASE UNCHANGED vars
  <2>1. /\ UNCHANGED <<case, trust, groups, pc, turn, converted, seen, haOrder>>
        /\ (SameForAll' <=> SameForAll) /\ (Joins' <=> Joins) /\ DeclaredGroups' = DeclaredGroups
        /\ \A d, dg : /\ Due(d, dg)' = Due(d, dg) /\ Gone(d, dg)' = Gone(d, dg)
                      /\ Owns(d, dg)' <=> Owns(d, dg)
                      /\ KnownMembers(dg)' = KnownMembers(dg)
    BY <1>2, SameCase, SameDues DEF vars
  <2>2. ASSUME NEW d \in Device PROVE Home(d)' /\ SyncsFirst(d)'
    BY <1>2, <2>1 DEF EndInv, Home, SyncsFirst, vars
  <2>3. ASSUME SameForAll', NEW d \in Device
        PROVE  Enters(d, ThisGroup(d))' /\ Leads(d, ThisGroup(d))' /\ Ends(d)'
    <3>1. Enters(d, ThisGroup(d)) /\ Leads(d, ThisGroup(d)) /\ Ends(d)
      BY <2>1, <2>3 DEF EndInv
    <3>2. /\ ThisGroup(d)' = ThisGroup(d) /\ Members(d)' = Members(d)
          /\ MembersOf(ThisGroup(d))' = MembersOf(ThisGroup(d))
          /\ KnownMembers(ThisGroup(d))' = KnownMembers(ThisGroup(d))
          /\ Owns(d, ThisGroup(d))' <=> Owns(d, ThisGroup(d))
      BY <2>1 DEF ThisGroup, MembersOf, Members, KnownMembers, Owns, Recognisable
    <3>3. /\ Due(d, ThisGroup(d))' = Due(d, ThisGroup(d))
          /\ Gone(d, ThisGroup(d))' = Gone(d, ThisGroup(d))
      BY <2>1, <3>2 DEF Due, Gone
    <3>4. Enters(d, ThisGroup(d))' /\ Leads(d, ThisGroup(d))'
      BY <2>1, <3>1, <3>2, <3>3 DEF Enters, Leads, IsOwner
    <3>5. \A i \in DOMAIN case.groups :
            /\ Passed(d, i)' <=> Passed(d, i)
            /\ Entered(d, case.groups[i])' <=> Entered(d, case.groups[i])
      BY <2>1 DEF Passed, Entered
    <3>6. (\A i \in DOMAIN case.groups : Passed(d, i) => Entered(d, case.groups[i]))'
      BY <2>1, <3>1, <3>5 DEF Ends
    <3> QED BY <2>1, <3>1, <3>4, <3>6 DEF Ends
  <2> QED BY <1>1, <2>2, <2>3 DEF EndInv
<1>3. ASSUME NEW a \in Device, Handle(a) \/ Fails(a) PROVE EndInv'
  <2>1. \A d \in Device : Home(d)' /\ SyncsFirst(d)'
    BY <1>3, StepHome, StepSyncsFirst
  <2>2. SameForAll' <=> SameForAll
    BY <1>3, StepDoes, SameCase DEF EndInv, KeepInv, TypeInv
  <2>3. ASSUME SameForAll, NEW d \in Device
        PROVE  Enters(d, ThisGroup(d))' /\ Leads(d, ThisGroup(d))' /\ Ends(d)'
    <3>1. CASE d = a
      BY <1>3, <2>3, <3>1, OwnEnters, OwnLeads, OwnEnds
    <3>2. CASE d # a
      BY <1>3, <2>3, <3>2, OthersEnd
    <3> QED BY <3>1, <3>2
  <2> QED BY <1>1, <2>1, <2>2, <2>3 DEF EndInv
<1> QED BY <1>2, <1>3 DEF Next

(* A device whose handler has resolved has dealt with every group.         *)
LEMMA DoneHasEntered ==
  ASSUME EndInv, SameForAll, NEW d \in case.active, Done(d), NEW dg \in DeclaredGroups
  PROVE  d \in Device /\ pc[d] = "done" /\ Ends(d) /\ Entered(d, dg)
<1>1. d \in Device /\ pc[d] = "done" /\ Ends(d)
  BY CaseType DEF EndInv, KeepInv, TypeInv, Done
<1>2. PICK i \in DOMAIN case.groups : dg = case.groups[i]
  BY DEF DeclaredGroups
<1> QED BY <1>1, <1>2 DEF Ends, Passed, FinalPC

(* When the handler of a device has resolved, the device is in the groups  *)
(* it is a member of and in no others that are declared, and its traffic   *)
(* group lists it if the declared order does, whatever the handlers of the *)
(* other devices do at the same time.                                      *)
THEOREM DoneAreMembers == ASSUME Orderly, Rooted PROVE Spec => []DoneIsMember
<1>1. EndInv => DoneIsMember
  <2> SUFFICES ASSUME EndInv, NEW d \in case.active, Done(d), SameForAll,
                      NEW dg \in DeclaredGroups
               PROVE  /\ groups[d][dg.name] # Absent
                      /\ d \in KnownMembers(dg) => d \in groups[d][dg.name]
                      /\ KnownMembers(dg) # {} /\ d \notin MembersOf(dg) =>
                           d \notin groups[d][dg.name]
                      /\ d \in KnownMembers(dg) \cap case.haOrder => d \in haOrder[d]
    BY DEF DoneIsMember
  <2>1. d \in Device /\ pc[d] = "done" /\ Ends(d) /\ Entered(d, dg)
    BY DoneHasEntered
  <2> QED BY <2>1 DEF Entered, Ends, Due, Gone
<1> QED BY <1>1, InitEnds, NextEnds, PTL DEF Spec

(* Handlers that have resolved have the same groups.                       *)
LEMMA DoneTogether ==
  ASSUME Orderly, Rooted, EndInv, NEW d \in case.active, NEW e \in case.active, Done(d), Done(e),
         case.groups # <<>>
  PROVE  groups[d] = groups[e]
<1>1. /\ TypeOK /\ OneDomain /\ d \in Device /\ e \in Device /\ e \in trust[e]
      /\ pc[d] \in FinalPC /\ pc[e] \in FinalPC
  BY CaseType DEF EndInv, KeepInv, TypeInv, Situation, Done, FinalPC
<1>2. CASE Joins
  <2>1. trust[d] = trust[case.remote.of] /\ trust[e] = trust[case.remote.of]
    BY <1>1, <1>2, HomeIsInside
  <2> QED BY <1>1, <2>1 DEF OneDomain
<1>3. CASE ~Joins
  <2>1. case.active \subseteq case.trusted
    BY <1>1, <1>3 DEF Joins, Rooted, TypeOK
  <2>2. case.trusted \subseteq trust[d]
    BY <1>1, HomeIsInside DEF Inside
  <2> QED BY <1>1, <2>1, <2>2 DEF OneDomain
<1> QED BY <1>2, <1>3

(* Those who were there already are given the declaration, too, or the     *)
(* owner is, and will find itself.                                         *)
Owned ==
  \A c \in Cases : \/ c.trusted \subseteq c.active
                   \/ \A i \in DOMAIN c.groups :
                        LET owner == c.groups[i].owner
                        IN /\ owner.of \in c.active
                           /\ IsIp(owner) => /\ \E m \in c.groups[i].members : IsIp(m)
                                             /\ owner.kind = "configSync" => c.syncs

(* The owner answers for those who were there and do nothing themselves.   *)
LEMMA OwnerIsThere ==
  ASSUME Owned, TypeOK, NEW dg \in DeclaredGroups, NEW x \in KnownMembers(dg),
         x \in case.trusted \ case.active
  PROVE  dg.owner.of \in case.active /\ x \in Due(dg.owner.of, dg)
<1>1. PICK i \in DOMAIN case.groups : dg = case.groups[i]
  BY DEF DeclaredGroups
<1>2. dg.owner.of \in case.active /\ Recognisable(dg)
  BY <1>1 DEF Owned, TypeOK, Recognisable
<1> QED BY <1>2 DEF Due, Owns

(* When the handlers of all devices have resolved, each declared group has *)
(* its known members, and nobody else, on each device.                     *)
THEOREM GroupsEndAsDeclared ==
  ASSUME Orderly, Rooted, Owned PROVE Spec => []GroupsAsDeclared
<1>1. EndInv => GroupsAsDeclared
  <2> SUFFICES ASSUME EndInv, AllDone, SameForAll, NEW dg \in DeclaredGroups,
                      NEW d \in case.active, KnownMembers(dg) # {}
               PROVE  /\ KnownMembers(dg) \cap (case.active \cup case.trusted) \subseteq
                            groups[d][dg.name]
                      /\ groups[d][dg.name] \subseteq MembersOf(dg)
    BY DEF GroupsAsDeclared
  <2>1. TypeOK /\ dg.name \in Group /\ case.groups # <<>>
    BY GroupNames, CaseType DEF EndInv, KeepInv, TypeInv, DeclaredGroups
  <2>2. ASSUME NEW e \in case.active PROVE Entered(e, dg) /\ groups[e] = groups[d]
    BY <2>1, <2>2, DoneHasEntered, DoneTogether DEF AllDone
  <2>3. ASSUME NEW x \in KnownMembers(dg), x \in case.active \cup case.trusted
        PROVE  x \in groups[d][dg.name]
    <3>1. PICK e \in case.active : x \in Due(e, dg)
      <4>1. CASE x \in case.active
        BY <4>1 DEF Due
      <4>2. CASE x \notin case.active
        BY <2>1, <2>3, <4>2, OwnerIsThere
      <4> QED BY <4>1, <4>2
    <3> QED BY <2>2, <3>1 DEF Entered
  <2>4. ASSUME NEW y \in groups[d][dg.name], y \notin MembersOf(dg) PROVE FALSE
    <3>1. y \in Device
      <4>1. groups[d][dg.name] \in {Absent} \cup SUBSET Device /\ groups[d][dg.name] # Absent
        BY <2>1, <2>2, CaseType DEF TypeOK, Entered
      <4> QED BY <4>1
    <3>2. PICK e \in case.active : y \in Gone(e, dg)
      BY <2>4, <3>1 DEF Gone
    <3> QED BY <2>2, <2>4, <3>2 DEF Entered
  <2> QED BY <2>3, <2>4
<1> QED BY <1>1, InitEnds, NextEnds, PTL DEF Spec

-----------------------------------------------------------------------------
(* Whose configuration the devices end with *)

(* A single group that is declared with a trust is owned by its remote     *)
(* host.                                                                   *)
Led ==
  \A c \in Cases : Len(c.groups) = 1 /\ c.remote # NoTrust =>
    c.groups[1].owner.of = c.remote.of

Copying == Joins /\ Len(case.groups) = 1

(* The remote host syncs, and all others copy.                             *)
Copies(d) ==
  /\ pc[d] \in {"join", "joinGroup", "reconvert"} => ~IsRemoteHost(d)
  /\ pc[d] \in UsesPC \cup {"join", "joinGroup", "reconvert"} =>
       converted[d].owner.of = case.remote.of
  /\ pc[d] = "sync" => IsOwner(d, converted[d])
  /\ ~IsRemoteHost(d) /\ pc[d] \in UsesPC \cup {"reconvert"} \cup FinalPC =>
       config[d] = case.remote.of

(* Those who were there before are copied to when the owner syncs.         *)
Synchronises(d) ==
  Owns(d, ThisGroup(d)) =>
    /\ pc[d] \in {"create", "list", "remove", "sync"} /\ Due(d, ThisGroup(d)) # {} => needsSync[d]
    /\ pc[d] \in FinalPC => \A x \in Due(d, ThisGroup(d)) : config[x] = case.remote.of

CopyInv ==
  /\ EndInv
  /\ Copying => /\ config[case.remote.of] = case.remote.of
                /\ \A d \in Device : Copies(d) /\ Synchronises(d)

(* In the first state nobody has copied.                                   *)
LEMMA InitCopies == Init => CopyInv
<1> SUFFICES ASSUME Init PROVE CopyInv
  OBVIOUS
<1>1. EndInv
  BY InitEnds
<1>2. Joins => case.remote.of \in Device
  BY <1>1, CaseType DEF EndInv, KeepInv, TypeInv, Joins
<1>3. config = [d \in Device |-> d] /\ \A d \in Device : pc[d] \in {"configSync", "idle"}
  BY DEF Init
<1> QED BY <1>1, <1>2, <1>3 DEF CopyInv, Copying, Copies, Synchronises, UsesPC, FinalPC

(* With one group all handlers are about that one.                         *)
LEMMA OnlyGroup ==
  ASSUME TypeOK, Copying, NEW d \in Device
  PROVE  /\ turn[d] = 1 /\ ThisGroup(d) = case.groups[1] /\ case.groups # <<>>
         /\ ThisGroup(d) \in DeclaredGroups /\ ThisGroup(d).name \in Group
         /\ case.remote.of \in Device /\ SameForAll
<1>1. case.groups # <<>> /\ case.remote.of \in Device
  BY CaseType DEF Copying, Joins
<1>2. turn[d] = 1
  BY <1>1, ThisGroupType DEF Copying
<1> QED BY <1>1, <1>2, ThisGroupType DEF ThisGroup, SameForAll, Copying

(* Nobody ends with a third configuration.                                 *)
LEMMA StepConfig ==
  ASSUME CopyInv, Copying, NEW a \in Device, Handle(a) \/ Fails(a)
  PROVE  \A e \in Device : config'[e] \in {config[e], case.remote.of}
<1>1. TypeOK /\ Copies(a) /\ config[case.remote.of] = case.remote.of
  BY DEF CopyInv, EndInv, KeepInv, TypeInv
<1>2. CASE JoinGroup(a)
  BY <1>1, <1>2 DEF JoinGroup, TypeOK
<1>3. CASE Sync(a)
  <2>1. converted[a].owner = Hostname(a) /\ converted[a].owner.of = case.remote.of
    BY <1>1, <1>3 DEF Sync, Copies, UsesPC, IsOwner
  <2>2. config[a] = case.remote.of
    BY <1>1, <2>1 DEF Hostname
  <2> QED BY <1>1, <1>3, <2>2 DEF Sync, TypeOK
<1>4. CASE UNCHANGED config
  BY <1>4
<1> QED BY <1>2, <1>3, <1>4 DEF Handle, ConfigSync, DeviceTrust, ConvertAll, ConvertOne, Join,
         Reconvert, WaitForGroup, Add, AreInTrust, Create, PruneList, PruneRemove, GroupsOfTraffic,
         TrafficGroup, Fails

(* The other devices copy what they copied.                                *)
LEMMA OthersCopy ==
  ASSUME CopyInv, Copying, NEW a \in Device, Handle(a) \/ Fails(a), NEW d \in Device \ {a}
  PROVE  Copies(d)' /\ Synchronises(d)'
<1>1. /\ TypeOK /\ Copies(d) /\ Synchronises(d)
      /\ UNCHANGED <<case, pc[d], turn[d], converted[d], needsSync[d]>>
      /\ \A e \in Device : config'[e] \in {config[e], case.remote.of}
  BY StepDoes, StepConfig DEF CopyInv, EndInv, KeepInv, TypeInv
<1>2. /\ (IsRemoteHost(d)' <=> IsRemoteHost(d))
      /\ (IsOwner(d, converted[d])' <=> IsOwner(d, converted[d]))
      /\ ThisGroup(d)' = ThisGroup(d)
  BY <1>1 DEF IsRemoteHost, IsOwner, ThisGroup
<1>3. Copies(d)'
  BY <1>1, <1>2 DEF Copies
<1>4. /\ Due(d, ThisGroup(d))' = Due(d, ThisGroup(d))
      /\ Owns(d, ThisGroup(d))' <=> Owns(d, ThisGroup(d))
  BY <1>1, <1>2 DEF Due, Owns, Recognisable, KnownMembers
<1>5. Due(d, ThisGroup(d)) \subseteq Device
  <2>1. ThisGroup(d) \in DeviceGroup
    BY <1>1, OnlyGroup, ThisGroupType
  <2> QED BY <2>1 DEF Due, KnownMembers, DeviceGroup, Address
<1>6. Synchronises(d)'
  BY <1>1, <1>4, <1>5 DEF Synchronises
<1> QED BY <1>3, <1>6

(* A conversion changes how the owner is written, not who it is.           *)
LEMMA ConvertKeepsOwner ==
  ASSUME NEW d \in Device, NEW dg
  PROVE  Convert(d, dg).owner.of = dg.owner.of
BY DEF Convert, Hostname

(* A device on its way.                                                    *)
LEMMA OwnCopies ==
  ASSUME Led, CopyInv, Copying, NEW d \in Device, Handle(d) \/ Fails(d)
  PROVE  Copies(d)'
<1>1. /\ TypeInv /\ TypeOK /\ Situation(d) /\ Copies(d) /\ UNCHANGED case /\ Joins
      /\ config[case.remote.of] = case.remote.of
      /\ \A e \in Device : config'[e] \in {config[e], case.remote.of}
  BY StepDoes, StepConfig DEF CopyInv, EndInv, KeepInv, TypeInv, Copying
<1>2. /\ (IsRemoteHost(d)' <=> IsRemoteHost(d)) /\ case.remote.of \in Device
      /\ ThisGroup(d).owner.of = case.remote.of /\ case.groups # <<>>
  BY <1>1, OnlyGroup DEF IsRemoteHost, Led, Copying, Joins, TypeOK
<1>3. CASE ConvertOne(d)
  <2> DEFINE conv == Convert(d, ThisGroup(d))
  <2>1. conv.owner.of = case.remote.of
    BY <1>2, ConvertKeepsOwner
  <2>2. IsOwner(d, conv) => IsRemoteHost(d)
    BY <2>1 DEF IsOwner, Hostname, IsRemoteHost
  <2>3. converted'[d] = conv
    BY <1>1, <1>3 DEF ConvertOne, TypeOK
  <2>4. pc'[d] = IF IsOwner(d, conv) \/ IsRemoteHost(d) THEN FirstOf(d, conv) ELSE "join"
    BY <1>1, <1>3 DEF ConvertOne, Go, TypeOK
  <2> HIDE DEF conv
  <2>5. CASE IsRemoteHost(d)
    <3>1. pc'[d] \in {"inTrust", "waitForGroup"}
      BY <2>4, <2>5 DEF FirstOf
    <3> QED BY <1>1, <1>2, <2>1, <2>3, <2>5, <3>1 DEF Copies
  <2>6. CASE ~IsRemoteHost(d)
    <3>1. pc'[d] = "join"
      BY <2>2, <2>4, <2>6
    <3> QED BY <1>1, <1>2, <2>1, <2>3, <2>6, <3>1 DEF Copies, UsesPC, FinalPC
  <2> QED BY <2>5, <2>6
<1>4. CASE JoinGroup(d)
  <2>1. /\ pc[d] = "joinGroup" /\ pc'[d] = "reconvert" /\ converted'[d] = converted[d]
        /\ config'[d] = case.remote.of
    BY <1>1, <1>4 DEF JoinGroup, Go, TypeOK
  <2> QED BY <1>1, <1>2, <2>1 DEF Copies, UsesPC
<1>5. CASE Join(d)
  <2>1. pc[d] = "join" /\ pc'[d] = "joinGroup" /\ converted'[d] = converted[d]
    BY <1>1, <1>5 DEF Join, Go, TypeOK
  <2> QED BY <1>1, <1>2, <2>1 DEF Copies, UsesPC, FinalPC
<1>6. CASE Reconvert(d) \/ WaitForGroup(d) \/ Add(d) \/ AreInTrust(d) \/ Create(d)
           \/ (PruneList(d) /\ Superfluous(d) # {})
  <2>1. /\ pc[d] \in UsesPC \cup {"reconvert"} /\ pc'[d] \in {"list", "add", "create", "remove"}
        /\ converted'[d].owner = converted[d].owner
    BY <1>1, <1>6 DEF Reconvert, WaitForGroup, Add, AreInTrust, Create, PruneList, Go, TypeOK,
                      UsesPC, Converted
  <2> QED BY <1>1, <1>2, <2>1 DEF Copies, UsesPC
<1>7. CASE (PruneList(d) /\ Superfluous(d) = {}) \/ PruneRemove(d) \/ Sync(d)
  <2>1. /\ UNCHANGED converted /\ pc[d] \in {"list", "remove", "sync"}
        /\ LeavePrune(d) \/ Sync(d)
    BY <1>7 DEF PruneList, PruneRemove, Sync
  <2>2. /\ pc'[d] \in {"sync", "convert", "inTrust", "waitForGroup", "groupsOfTraffic"}
        /\ pc'[d] \notin {"inTrust", "waitForGroup"}
        /\ pc'[d] = "sync" => IsOwner(d, converted[d])
    BY <1>1, <1>2, <2>1, LeaveTurns
  <2>3. IsOwner(d, converted[d])' <=> IsOwner(d, converted[d])
    BY <2>1 DEF IsOwner
  <2> QED BY <1>1, <1>2, <2>1, <2>2, <2>3 DEF Copies, UsesPC, FinalPC
<1>8. CASE GroupsOfTraffic(d) \/ TrafficGroup(d)
  <2>1. pc[d] \in FinalPC /\ pc'[d] \in FinalPC
    BY <1>1, <1>8 DEF GroupsOfTraffic, TrafficGroup, Go, TypeOK, FinalPC
  <2> QED BY <1>1, <1>2, <2>1 DEF Copies, UsesPC, FinalPC
<1>9. CASE ConfigSync(d) \/ Fails(d)
  <2>1. pc'[d] \in {"convert", "trust", "failed", "hung"}
    BY <1>1, <1>9 DEF ConfigSync, Fails, Go, TypeOK
  <2> QED BY <2>1 DEF Copies, UsesPC, FinalPC
<1>10. ~DeviceTrust(d) /\ ~ConvertAll(d)
  BY <1>1 DEF DeviceTrust, ConvertAll, Situation
<1> QED BY <1>3, <1>4, <1>5, <1>6, <1>7, <1>8, <1>9, <1>10 DEF Handle

(* The owner syncs if it has anybody to sync to.                           *)
LEMMA OwnSynchronises ==
  ASSUME CopyInv, EndInv', Copying, NEW d \in Device, Handle(d) \/ Fails(d)
  PROVE  Synchronises(d)'
<1> DEFINE dg == ThisGroup(d)
<1>1. /\ TypeInv /\ TypeOK /\ Situation(d) /\ Copies(d) /\ Synchronises(d)
      /\ UNCHANGED case /\ Joins
      /\ Leads(d, dg) /\ Enters(d, dg)' /\ Ends(d) /\ config[case.remote.of] = case.remote.of
      /\ \A e \in Device : config'[e] \in {config[e], case.remote.of}
      /\ dg \in DeclaredGroups /\ dg = case.groups[1] /\ turn[d] = 1 /\ case.groups # <<>>
      /\ TypeOK'
  <2>1. TypeOK /\ SameForAll /\ UNCHANGED case /\ TypeOK'
    BY OnlyGroup, StepDoes DEF CopyInv, EndInv, KeepInv, TypeInv
  <2>2. SameForAll'
    BY <2>1, SameCase
  <2> QED BY <2>1, <2>2, OnlyGroup, StepConfig DEF CopyInv, EndInv, KeepInv, TypeInv, Copying
<1>2. ThisGroup(d)' = dg
  <2>1. turn'[d] = 1
    <3>1. turn'[d] \in 1 .. Len(case'.groups) \cup {1}
      BY <1>1 DEF TypeOK
    <3>2. Len(case'.groups) = 1
      BY <1>1 DEF Copying
    <3> QED BY <3>1, <3>2
  <2> QED BY <1>1, <2>1 DEF ThisGroup
<1>3. /\ Due(d, ThisGroup(d))' = Due(d, dg) /\ (Owns(d, ThisGroup(d))' <=> Owns(d, dg))
      /\ Due(d, dg) \subseteq Device
  <2>1. dg \in DeviceGroup
    BY <1>1, ThisGroupType
  <2>2. Due(d, dg) \subseteq Device
    BY <2>1 DEF Due, KnownMembers, DeviceGroup, Address
  <2> QED BY <1>1, <1>2, <2>2 DEF Due, Owns, Recognisable, KnownMembers
<1> HIDE DEF dg
<1>4. ASSUME Owns(d, dg),
             pc'[d] \in {"create", "list", "remove", "sync"} /\ Due(d, dg) # {} => needsSync'[d],
             pc'[d] \in FinalPC => \A x \in Due(d, dg) : config'[x] = case.remote.of
      PROVE  Synchronises(d)'
  BY <1>1, <1>3, <1>4 DEF Synchronises
<1>5. CASE ~Owns(d, dg)
  BY <1>3, <1>5 DEF Synchronises
<1> SUFFICES ASSUME Owns(d, dg) PROVE Synchronises(d)'
  BY <1>5
<1>6. /\ pc[d] \in {"create", "list", "remove", "sync"} /\ Due(d, dg) # {} => needsSync[d]
      /\ pc[d] \in FinalPC => \A x \in Due(d, dg) : config[x] = case.remote.of
      /\ pc[d] \notin {"waitForGroup", "add", "join", "joinGroup", "reconvert"}
      /\ pc[d] \in UsesPC => IsOwner(d, converted[d])
  BY <1>1 DEF Synchronises, Leads, dg
<1>7. CASE AreInTrust(d)
  <2>1. /\ pc'[d] = "create" /\ needsSync'[d] = (converted[d].members \cap trust[d] # {})
        /\ seen'[d] = converted[d].members \cap trust[d]
    BY <1>1, <1>7 DEF AreInTrust, Go, TypeOK
  <2>2. Due(d, dg) \subseteq seen'[d]
    BY <1>1, <1>2, <1>3, <2>1 DEF Enters, dg
  <2> QED BY <1>4, <2>1, <2>2 DEF FinalPC
<1>8. CASE Create(d) \/ (PruneList(d) /\ Superfluous(d) # {})
  <2>1. /\ pc[d] \in {"create", "list"} /\ pc'[d] \in {"list", "remove"}
        /\ needsSync'[d] = needsSync[d]
    BY <1>1, <1>8 DEF Create, PruneList, Go, TypeOK
  <2> QED BY <1>4, <1>6, <2>1 DEF FinalPC
<1>9. CASE (PruneList(d) /\ Superfluous(d) = {}) \/ PruneRemove(d)
  <2>1. pc[d] \in {"list", "remove"} /\ LeavePrune(d)
    BY <1>9 DEF PruneList, PruneRemove
  <2>2. pc'[d] = "sync"
    BY <1>1, <1>6, <2>1 DEF LeavePrune, AfterPrune, Go, TypeOK, UsesPC
  <2>3. needsSync'[d] = needsSync[d] \/ needsSync'[d] = TRUE
    BY <1>1, <1>9 DEF PruneList, PruneRemove, TypeOK
  <2> QED BY <1>4, <1>6, <2>1, <2>2, <2>3 DEF FinalPC
<1>10. CASE Sync(d)
  <2>1. /\ pc[d] = "sync"
        /\ pc'[d] \in {"sync", "convert", "inTrust", "waitForGroup", "groupsOfTraffic"}
    BY <1>1, <1>10, LeaveTurns DEF Sync
  <2>2. Due(d, dg) \subseteq Members(d)
    <3>1. 1 \in DOMAIN case.groups
      BY <1>1, CaseType
    <3>2. Entered(d, case.groups[1])
      BY <1>1, <2>1, <3>1 DEF Ends, Passed
    <3> QED BY <1>1, <3>2 DEF Entered, Members, dg
  <2>3. config[d] = case.remote.of
    <3>1. converted[d].owner = Hostname(d) /\ converted[d].owner.of = case.remote.of
      BY <1>1, <2>1 DEF Copies, UsesPC, IsOwner
    <3> QED BY <1>1, <3>1 DEF Hostname
  <2>4. needsSync[d] => \A x \in Due(d, dg) : config'[x] = case.remote.of
    BY <1>1, <1>3, <1>10, <2>2, <2>3 DEF Sync, TypeOK
  <2>5. Due(d, dg) # {} => needsSync[d] /\ needsSync'[d] = needsSync[d]
    BY <1>6, <1>10, <2>1 DEF Sync
  <2> QED BY <1>4, <2>1, <2>4, <2>5
<1>11. CASE GroupsOfTraffic(d) \/ TrafficGroup(d)
  <2>1. pc[d] \in FinalPC /\ pc'[d] \in FinalPC /\ config' = config
    BY <1>1, <1>11 DEF GroupsOfTraffic, TrafficGroup, Go, TypeOK, FinalPC
  <2> QED BY <1>4, <1>6, <2>1 DEF FinalPC
<1>12. CASE ConfigSync(d) \/ ConvertOne(d) \/ Fails(d)
  <2>1. pc'[d] \notin {"create", "list", "remove", "sync"} \cup FinalPC
    BY <1>1, <1>12 DEF ConfigSync, ConvertOne, Fails, Go, FirstOf, TypeOK, FinalPC
  <2> QED BY <1>4, <2>1
<1>13. ~DeviceTrust(d) /\ ~ConvertAll(d)
  BY <1>1 DEF DeviceTrust, ConvertAll, Situation
<1>14. ~(Join(d) \/ JoinGroup(d) \/ Reconvert(d) \/ WaitForGroup(d) \/ Add(d))
  BY <1>6 DEF Join, JoinGroup, Reconvert, WaitForGroup, Add
<1> QED BY <1>7, <1>8, <1>9, <1>10, <1>11, <1>12, <1>13, <1>14 DEF Handle

(* Every step keeps it.                                                    *)
LEMMA NextCopies ==
  ASSUME Orderly, Rooted, Led, CopyInv, [Next]_vars
  PROVE  CopyInv'
<1>1. EndInv'
  BY NextEnds DEF CopyInv
<1>2. CASE UNCHANGED vars
  <2>1. /\ UNCHANGED <<case, pc, turn, converted, needsSync, config>>
        /\ Copying' <=> Copying
        /\ \A d, dg : Due(d, dg)' = Due(d, dg) /\ (Owns(d, dg)' <=> Owns(d, dg))
    BY <1>2, SameCase, SameDues DEF vars, Copying
  <2>2. ASSUME NEW d \in Device, Copies(d), Synchronises(d)
        PROVE  Copies(d)' /\ Synchronises(d)'
    <3>1. ThisGroup(d)' = ThisGroup(d) /\ (IsRemoteHost(d)' <=> IsRemoteHost(d))
          /\ (IsOwner(d, converted[d])' <=> IsOwner(d, converted[d]))
      BY <2>1 DEF ThisGroup, IsRemoteHost, IsOwner
    <3>2. /\ Due(d, ThisGroup(d))' = Due(d, ThisGroup(d))
          /\ Owns(d, ThisGroup(d))' <=> Owns(d, ThisGroup(d))
      BY <2>1, <3>1 DEF Due, Owns, Recognisable, KnownMembers
    <3> QED BY <2>1, <2>2, <3>1, <3>2 DEF Copies, Synchronises
  <2> QED BY <1>1, <2>1, <2>2 DEF CopyInv
<1>3. ASSUME NEW a \in Device, Handle(a) \/ Fails(a) PROVE CopyInv'
  <2>1. UNCHANGED case /\ (Copying' <=> Copying)
    BY <1>3, StepDoes, SameCase DEF CopyInv, EndInv, KeepInv, TypeInv, Copying
  <2>2. ASSUME Copying, NEW d \in Device PROVE Copies(d)' /\ Synchronises(d)'
    BY <1>1, <1>3, <2>2, OthersCopy, OwnCopies, OwnSynchronises
  <2>3. Copying => config'[case.remote.of] = case.remote.of
    <3> SUFFICES ASSUME Copying PROVE config'[case.remote.of] = case.remote.of
      OBVIOUS
    <3>1. case.remote.of \in Device /\ config[case.remote.of] = case.remote.of
      BY OnlyGroup, <1>3 DEF CopyInv, EndInv, KeepInv, TypeInv
    <3> QED BY <1>3, <3>1, StepConfig
  <2> QED BY <1>1, <2>1, <2>2, <2>3 DEF CopyInv
<1> QED BY <1>2, <1>3 DEF Next

(* When the handlers of all devices have resolved, the known members of a  *)
(* group that was established together with their trust have the           *)
(* configuration of its owner: whoever joins copies it, and those who were *)
(* members before get it when the owner syncs.                             *)
THEOREM OwnersAreCopied ==
  ASSUME Orderly, Rooted, Owned, Led PROVE Spec => []OwnerIsCopied
<1>1. CopyInv => OwnerIsCopied
  <2> SUFFICES ASSUME CopyInv, AllDone, Joins, Len(case.groups) = 1, NEW dg \in DeclaredGroups,
                      NEW d \in KnownMembers(dg) \cap (case.active \cup case.trusted)
               PROVE  config[d] = config[dg.owner.of]
    BY DEF OwnerIsCopied
  <2> DEFINE w == case.remote.of
  <2>1. /\ TypeOK /\ Copying /\ config[w] = w /\ w \in Device
        /\ \A e \in Device : Copies(e) /\ Synchronises(e) /\ ThisGroup(e) = case.groups[1]
        /\ case.active \subseteq Device
    BY OnlyGroup, CaseType DEF CopyInv, EndInv, KeepInv, TypeInv, Copying
  <2>2. dg = case.groups[1] /\ dg.owner.of = w
    BY <2>1, CaseType DEF DeclaredGroups, Copying, Joins, Led, TypeOK
  <2>3. \A e \in case.active : pc[e] \in FinalPC
    BY DEF AllDone, Done, FinalPC
  <2>4. CASE d \in case.active
    BY <2>1, <2>2, <2>3, <2>4 DEF Copies, IsRemoteHost
  <2>5. CASE d \notin case.active
    <3>1. w \in case.active /\ d \in Due(w, dg)
      BY <2>1, <2>2, <2>5, OwnerIsThere
    <3>2. Owns(w, dg)
      BY <2>2, <2>5, <3>1, OwnerIsThere DEF Due
    <3> QED BY <2>1, <2>2, <2>3, <3>1, <3>2 DEF Synchronises
  <2> QED BY <2>4, <2>5
<1> QED BY <1>1, InitCopies, NextCopies, PTL DEF Spec
=============================================================================
