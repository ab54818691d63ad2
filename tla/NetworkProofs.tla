---------------------------- MODULE NetworkProofs ----------------------------
(* Proofs about the network and delete handlers, for every device, every   *)
(* declaration and any number of failing calls.                            *)
EXTENDS Network, TLAPS, FiniteSetTheorems, SequenceTheorems

-----------------------------------------------------------------------------
(* Numbers *)

(* Whatever is not true of all numbers has a first one of which it is not. *)
LEMMA Smallest ==
  ASSUME NEW T, T \subseteq Nat, T # {}
  PROVE  \E x \in T : \A y \in T : x <= y
<1> PICK n \in T : TRUE
  OBVIOUS
<1> DEFINE S == 0 .. n
           U == {0 .. i : i \in T \cap S}
<1>1. IsFiniteSet(S)
  BY FS_Interval
<1>2. U \subseteq FiniteSubsetsOf(S) /\ U # {}
  <2>1. \A X \in U : X \subseteq S
    OBVIOUS
  <2>2. U # {}
    OBVIOUS
  <2> HIDE DEF S, U
  <2>3. U \subseteq SUBSET S
    BY <2>1
  <2> QED
    BY <1>1, <2>2, <2>3, FS_FiniteSubsetsOfFinite
<1>3. PICK X \in U : \A Y \in U : <<Y, X>> \notin StrictSubsetOrdering(S)
  <2> HIDE DEF U, S
  <2> QED
    BY <1>2, FS_StrictSubsetOrderingWellFounded, WFMin
<1>4. PICK x \in T \cap S : X = 0 .. x
  OBVIOUS
<1>5. ASSUME NEW y \in T, ~(x <= y)
      PROVE  FALSE
  <2>1. x \in Nat /\ y \in Nat /\ y < x /\ x <= n
    BY <1>5
  <2>2. (0 .. y) \subseteq (0 .. x) /\ 0 .. y # 0 .. x /\ (0 .. x) \subseteq S
    <3>1. x \in 0 .. x /\ x \notin 0 .. y
      BY <2>1
    <3>2. (0 .. y) \subseteq (0 .. x) /\ (0 .. x) \subseteq S
      BY <2>1
    <3> QED
      BY <3>1, <3>2
  <2>3. 0 .. y \in U
    BY <2>1
  <2> HIDE DEF U, S
  <2> QED
    BY <1>3, <1>4, <2>2, <2>3 DEF StrictSubsetOrdering
<1> QED
  BY <1>4, <1>5

LEMMA MinFacts ==
  ASSUME NEW T, T \subseteq Nat, T # {}
  PROVE  Min(T) \in T /\ \A y \in T : Min(T) <= y
  BY Smallest DEF Min

-----------------------------------------------------------------------------
(* Transactions *)

(* What each command of a transaction leaves: a device, or none once one   *)
(* is refused.                                                             *)
LEMMA CommandIsTyped ==
  ASSUME NEW dev \in Device \cup {Refused}, NEW cmd \in Command
  PROVE  Executed(dev, cmd) \in Device \cup {Refused}
<1> SUFFICES ASSUME dev \in Device
             PROVE  After(dev, cmd) \in Device
  BY DEF Executed
<1>1. ASSUME NEW c \in Class
      PROVE  /\ dev[c] \in Section
             /\ [dev[c] EXCEPT ![cmd.item] = cmd.value] \in Section
             /\ [dev[c] EXCEPT ![Only] = AcceptAll] \in Section
  <2>1. dev[c] \in Section /\ cmd.item \in Item /\ cmd.value \in Values \cup {None}
    BY DEF Device, Command
  <2>2. Only \in Item /\ AcceptAll \in Values
    BY NetworkAssumption
  <2> QED
    BY <2>1, <2>2 DEF Section
<1>2. After(dev, cmd) \in [Class -> Section]
  BY <1>1 DEF After
<1> QED
  BY <1>2 DEF Device

Step(commands, f, n) == IF n = 0 THEN device ELSE Executed(f[n - 1], commands[n])

(* The recursive definition of Outcome has a solution: a transaction goes  *)
(* through the devices f[0], f[1], ...                                     *)
LEMMA OutcomeSteps ==
  ASSUME device \in Device, NEW call \in Call
  PROVE  \E f : /\ f[0] = device /\ f[Len(call.commands)] = Outcome(call)
                /\ \A n \in 0 .. Len(call.commands) : f[n] \in Device \cup {Refused}
                /\ \A n \in 1 .. Len(call.commands) :
                     f[n] = Executed(f[n - 1], call.commands[n])
<1> DEFINE cmds == call.commands
           last == Len(cmds)
           Solves(f, m) == f = [n \in 0 .. m |-> Step(cmds, f, n)]
<1>1. last \in Nat /\ \A n \in 1 .. last : cmds[n] \in Command
  BY DEF Call
<1> HIDE DEF cmds, last
<1>2. ASSUME NEW m \in 0 .. last
      PROVE  \E f : Solves(f, m)
  <2> DEFINE T == {n \in 0 .. last : ~ \E f : Solves(f, n)}
  <2> SUFFICES ASSUME T # {}
               PROVE  FALSE
    OBVIOUS
  <2>1. PICK n \in T : \A k \in T : n <= k
    <3>1. T \subseteq Nat
      BY <1>1
    <3> HIDE DEF T
    <3> QED
      BY <3>1, Smallest
  <2>2. CASE n = 0
    <3> DEFINE f == [k \in 0 .. 0 |-> device]
    <3>1. Solves(f, 0)
      BY DEF Step
    <3> HIDE DEF Solves
    <3> QED
      BY <2>2, <3>1
  <2>3. CASE n # 0
    <3>1. n \in 1 .. last /\ n - 1 \in 0 .. last /\ n - 1 \notin T
      BY <1>1, <2>1, <2>3
    <3>2. PICK g : Solves(g, n - 1)
      <4> HIDE DEF Solves
      <4> QED
        BY <3>1
    <3> DEFINE f == [k \in 0 .. n |-> Step(cmds, g, k)]
    <3>3. \A k \in 0 .. n - 1 : f[k] = g[k]
      BY <3>1, <3>2
    <3>4. \A k \in 0 .. n : Step(cmds, g, k) = Step(cmds, f, k)
      <4> TAKE k \in 0 .. n
      <4>1. k = 0 \/ k - 1 \in 0 .. n - 1
        BY <3>1
      <4> HIDE DEF f
      <4> QED
        BY <3>3, <4>1 DEF Step
    <3>5. Solves(f, n)
      BY <3>4
    <3> HIDE DEF Solves, f
    <3> QED
      BY <3>5
  <2> QED
    BY <2>2, <2>3
<1> DEFINE executed[n \in 0 .. last] ==
             IF n = 0 THEN device ELSE Executed(executed[n - 1], cmds[n])
<1>3. Outcome(call) = executed[last]
  BY DEF Outcome, cmds, last
<1>4. executed = [n \in 0 .. last |-> Step(cmds, executed, n)]
  <2>1. \E f : f = [n \in 0 .. last |-> IF n = 0 THEN device ELSE Executed(f[n - 1], cmds[n])]
    BY <1>1, <1>2 DEF Step
  <2> QED
    BY <2>1 DEF Step
<1> HIDE DEF executed
<1>5. /\ executed[0] = device
      /\ \A n \in 1 .. last : executed[n] = Executed(executed[n - 1], cmds[n])
  BY <1>1, <1>4 DEF Step
<1>6. ASSUME NEW m \in 0 .. last
      PROVE  executed[m] \in Device \cup {Refused}
  <2> DEFINE T == {n \in 0 .. last : executed[n] \notin Device \cup {Refused}}
  <2> SUFFICES ASSUME T # {}
               PROVE  FALSE
    OBVIOUS
  <2>1. PICK n \in T : \A k \in T : n <= k
    <3>1. T \subseteq Nat
      BY <1>1
    <3> HIDE DEF T
    <3> QED
      BY <3>1, Smallest
  <2>2. n \in 1 .. last /\ n - 1 \in 0 .. last /\ n - 1 \notin T
    BY <1>1, <1>5, <2>1
  <2>3. executed[n - 1] \in Device \cup {Refused} /\ cmds[n] \in Command
    BY <1>1, <2>2
  <2> QED
    BY <1>5, <2>1, <2>2, <2>3, CommandIsTyped
<1> QED
  BY <1>1, <1>3, <1>5, <1>6 DEF cmds, last

(* What a transaction leaves: a device, or none when it is refused.        *)
LEMMA OutcomeIsTyped ==
  ASSUME device \in Device, NEW call \in Call
  PROVE  Outcome(call) \in Device \cup {Refused}
<1>1. Len(call.commands) \in 0 .. Len(call.commands)
  BY DEF Call
<1> QED
  BY <1>1, OutcomeSteps

-----------------------------------------------------------------------------
(* Chains of calls *)

Typed ==
  /\ device \in Device /\ want \in Config /\ cur \in Config
  /\ doomed \in [DeclaredClass -> SUBSET Item] /\ mem \in Memory

LEMMA ClassFacts == DeclaredClass \subseteq Class
  BY DEF Class

LEMMA NothingIsTyped == Nothing \in Section /\ NoMemory \in Memory
  BY DEF Nothing, Section, NoMemory, Memory

LEMMA ConfigFacts ==
  ASSUME NEW config \in Config, NEW c \in DeclaredClass
  PROVE  /\ config[c] \in Section /\ c \in Class
         /\ Present(config, c) \subseteq Item
         /\ \A i \in Item : config[c][i] \in Values \cup {None}
         /\ \A i \in Present(config, c) : config[c][i] \in Values
  BY ClassFacts DEF Config, Section, Present

LEMMA DeviceFacts ==
  ASSUME NEW dev \in Device, NEW c \in Class
  PROVE  /\ dev[c] \in Section
         /\ Present(dev, c) \subseteq Item
         /\ \A i \in Item : dev[c][i] \in Values \cup {None}
         /\ \A i \in Present(dev, c) : dev[c][i] \in Values
  BY DEF Device, Section, Present

LEMMA CommandFacts ==
  ASSUME NEW op \in Operation, NEW c \in Class, NEW i \in Item, NEW v \in Values \cup {None}
  PROVE  /\ Do(op, c, i, v) \in Command
         /\ <<Do(op, c, i, v)>> \in Seq(Command)
  BY DEF Do, Command

LEMMA CallFacts ==
  ASSUME NEW commands \in Seq(Command)
  PROVE  /\ Awaited(commands) \in Call /\ Unawaited(commands) \in Call
         /\ <<Awaited(commands)>> \in Chain /\ <<Unawaited(commands)>> \in Chain
<1>1. Awaited(commands) \in Call /\ Unawaited(commands) \in Call
  BY DEF Awaited, Unawaited, Call
<1> HIDE DEF Awaited
<1> QED
  BY <1>1 DEF Chain

(* A chain of two calls, each of some commands.                            *)
LEMMA PairFacts ==
  ASSUME NEW x \in Call, NEW y \in Call
  PROVE  <<x, y>> \in Chain
  BY DEF Chain

LEMMA EachIsTyped ==
  ASSUME NEW op \in Operation, NEW c \in Class, NEW items, items \subseteq Item,
         NEW values, \A i \in items : values[i] \in Values \cup {None}
  PROVE  Each(op, c, items, values) \subseteq Chain
<1>1. ASSUME NEW i \in items
      PROVE  <<Awaited(<<Do(op, c, i, values[i])>>)>> \in Chain
  BY CommandFacts, CallFacts
<1> QED
  BY <1>1 DEF Each

LEMMA SequenceFacts ==
  ASSUME NEW S, IsFiniteSet(S)
  PROVE  /\ Cardinality(S) \in Nat
         /\ SetToSeq(S) \in [1 .. Cardinality(S) -> S]
         /\ SetToSeq(S) \in Seq(S)
         /\ \A i, j \in 1 .. Cardinality(S) : SetToSeq(S)[i] = SetToSeq(S)[j] => i = j
         /\ \A x \in S : \E i \in 1 .. Cardinality(S) : SetToSeq(S)[i] = x
<1>1. Cardinality(S) \in Nat /\ ExistsBijection(1 .. Cardinality(S), S)
  BY FS_CardinalityType
<1>2. \E f \in [1 .. Cardinality(S) -> S] : IsInjective(f)
  BY <1>1 DEF ExistsBijection, Bijection, Injection
<1>3. SetToSeq(S) \in [1 .. Cardinality(S) -> S] /\ IsInjective(SetToSeq(S))
  BY <1>2 DEF SetToSeq
<1> DEFINE f == SetToSeq(S)
<1>4. \A i, j \in 1 .. Cardinality(S) : f[i] = f[j] => i = j
  BY <1>3 DEF IsInjective
<1>5. f \in Surjection(1 .. Cardinality(S), S)
  <2>1. f \in Injection(1 .. Cardinality(S), S)
    BY <1>3 DEF Injection
  <2>2. IsFiniteSet(1 .. Cardinality(S)) /\ Cardinality(1 .. Cardinality(S)) = Cardinality(S)
    BY <1>1, FS_Interval
  <2> HIDE DEF f
  <2> QED
    BY <2>1, <2>2, FS_Injection
<1> QED
  BY <1>1, <1>3, <1>4, <1>5 DEF Surjection


LEMMA CommandsAreTyped ==
  ASSUME NEW op \in Operation, NEW c \in Class, NEW items, items \subseteq Item,
         NEW values, \A i \in items : values[i] \in Values \cup {None}
  PROVE  Commands(op, c, items, values) \in Seq(Command)
<1> DEFINE names == SetToSeq(items)
           n == Cardinality(items)
<1>1. IsFiniteSet(items)
  BY NetworkAssumption, FS_Subset
<1>2. n \in Nat /\ names \in [1 .. n -> items] /\ DOMAIN names = 1 .. n
  BY <1>1, SequenceFacts
<1>3. Commands(op, c, items, values) =
        [k \in 1 .. n |-> Do(op, c, names[k], values[names[k]])]
  BY <1>2 DEF Commands
<1> HIDE DEF names, n
<1>4. \A k \in 1 .. n : Do(op, c, names[k], values[names[k]]) \in Command
  BY <1>2, CommandFacts
<1> QED
  BY <1>2, <1>3, <1>4, IsASeq

LEMMA TransactionIsTyped ==
  ASSUME NEW x \in Seq(Command)
  PROVE  Transaction(x) \subseteq Chain
  BY CallFacts DEF Transaction

LEMMA UpdateFacts ==
  ASSUME Typed, NEW c \in DeclaredClass
  PROVE  /\ Update(c) \subseteq Item /\ c \in Class
         /\ \A i \in Update(c) : want[c][i] \in Values
         /\ want[c] \in Section /\ cur[c] \in Section
  BY ConfigFacts DEF Typed, Update

LEMMA CreateOrModifyIsTyped ==
  ASSUME Typed, NEW c \in DeclaredClass
  PROVE  CreateOrModify(c) \subseteq Chain
<1>1. "createOrModify" \in Operation
  BY DEF Operation
<1> QED
  BY <1>1, UpdateFacts, EachIsTyped DEF CreateOrModify

LEMMA OperationFacts ==
  {"create", "modify", "createOrModify", "delete", "clear", "set"} = Operation
  BY DEF Operation

LEMMA TwoTransactions ==
  ASSUME NEW x \in Seq(Command), NEW y \in Seq(Command)
  PROVE  Transaction(x \o y) \subseteq Chain
  BY ConcatProperties, TransactionIsTyped

LEMMA RouteDomainsAreTyped ==
  ASSUME Typed
  PROVE  RouteDomain0 \subseteq Chain /\ RouteDomains \subseteq Chain
<1>1. "RouteDomain" \in DeclaredClass
  BY DEF DeclaredClass
<1> DEFINE others == Update("RouteDomain") \ {Rd0}
           known == {i \in others : cur["RouteDomain"][i] # None}
<1>2. /\ others \subseteq Item /\ "RouteDomain" \in Class
      /\ \A i \in Update("RouteDomain") : want["RouteDomain"][i] \in Values \cup {None}
      /\ Update("RouteDomain") \subseteq Item
  BY <1>1, UpdateFacts
<1>3. RouteDomain0 \subseteq Chain
  BY <1>2, OperationFacts, EachIsTyped DEF RouteDomain0
<1>4. /\ Commands("modify", "RouteDomain", known, want["RouteDomain"]) \in Seq(Command)
      /\ Commands("create", "RouteDomain", others \ known, want["RouteDomain"]) \in Seq(Command)
  BY <1>2, OperationFacts, CommandsAreTyped
<1> QED
  BY <1>3, <1>4, TwoTransactions DEF RouteDomains

LEMMA RoutesAreTyped ==
  ASSUME Typed
  PROVE  /\ RoutesAnew \subseteq Chain
         /\ Transaction(Commands("delete", "Route", Moved, Nothing)) \subseteq Chain
<1>1. "Route" \in DeclaredClass
  BY DEF DeclaredClass
<1> DEFINE known == {i \in Update("Route") : cur["Route"][i] # None}
<1>2. /\ Update("Route") \subseteq Item /\ "Route" \in Class
      /\ \A i \in Update("Route") : want["Route"][i] \in Values \cup {None}
      /\ \A i \in Item : Nothing[i] \in Values \cup {None}
  BY <1>1, UpdateFacts DEF Nothing
<1>3. Moved \subseteq Item
  BY <1>2 DEF Moved
<1>4. /\ Commands("delete", "Route", known \ Moved, Nothing) \in Seq(Command)
      /\ Commands("create", "Route", Update("Route"), want["Route"]) \in Seq(Command)
      /\ Commands("delete", "Route", Moved, Nothing) \in Seq(Command)
  BY <1>2, <1>3, OperationFacts, CommandsAreTyped
<1> QED
  BY <1>4, TwoTransactions, TransactionIsTyped DEF RoutesAnew

LEMMA TunnelsAreTyped ==
  ASSUME Typed
  PROVE  /\ Each("delete", "Tunnel", Recreated, Nothing) \subseteq Chain
         /\ Each("delete", "VXLAN", VxlanGoing, Nothing) \subseteq Chain
         /\ Each("createOrModify", "VXLAN", VxlanTunnels, VxlanProfiles) \subseteq Chain
         /\ AcceptIpOptions \subseteq Chain
<1>1. {"Tunnel", "TrafficControl"} \subseteq DeclaredClass
      /\ {"Tunnel", "TrafficControl", "VXLAN"} \subseteq Class
  BY DEF DeclaredClass, Class, SingleClass
<1>2. /\ Update("Tunnel") \subseteq Item
      /\ \A i \in Update("Tunnel") : want["Tunnel"][i] \in Values
      /\ \A i \in Item : Nothing[i] \in Values \cup {None}
  BY <1>1, UpdateFacts DEF Nothing
<1>3. VxlanTunnels \subseteq Item /\ Recreated \subseteq Item /\ VxlanGoing \subseteq Item
  BY <1>2 DEF VxlanTunnels, Recreated, VxlanGoing
<1>4. \A i \in VxlanTunnels : VxlanProfiles[i] \in Values \cup {None}
  BY <1>2, NetworkAssumption DEF VxlanTunnels, VxlanProfiles
<1>5. AcceptIpOptions \subseteq Chain
  <2>1. /\ want["TrafficControl"][Only] \in Values \cup {None}
        /\ cur["TrafficControl"][Only] \in Values \cup {None}
    BY <1>1, ConfigFacts, NetworkAssumption DEF Typed
  <2>2. ASSUME NEW v \in Values \cup {None}
        PROVE  <<Awaited(<<Do("set", "TrafficControl", Only, v)>>)>> \in Chain
    BY <1>1, NetworkAssumption, OperationFacts, CommandFacts, CallFacts
  <2> QED
    BY <2>1, <2>2 DEF AcceptIpOptions
<1> QED
  BY <1>1, <1>2, <1>3, <1>4, <1>5, OperationFacts, EachIsTyped

LEMMA EntriesLastIsTyped ==
  ASSUME Typed, NEW c \in ListClass
  PROVE  EntriesLast(c) \subseteq Chain
<1>1. c \in DeclaredClass
  BY DEF DeclaredClass
<1> DEFINE moved == {i \in Update(c) : cur[c][i] # None /\ cur[c][i].fixed # want[c][i].fixed}
<1>2. /\ Update(c) \subseteq Item /\ c \in Class
      /\ \A i \in Update(c) : want[c][i] \in Values /\ Outline(want[c][i]) \in Values
  BY <1>1, UpdateFacts, NetworkAssumption
<1>3. Each("createOrModify", c, Update(c) \ moved, want[c]) \subseteq Chain
  BY <1>2, OperationFacts, EachIsTyped
<1>4. ASSUME NEW i \in moved
      PROVE  << Awaited(<<Do("delete", c, i, None), Do("create", c, i, Outline(want[c][i]))>>),
                Awaited(<<Do("createOrModify", c, i, want[c][i])>>) >> \in Chain
  <2>1. /\ Do("delete", c, i, None) \in Command
        /\ Do("create", c, i, Outline(want[c][i])) \in Command
        /\ Do("createOrModify", c, i, want[c][i]) \in Command
    BY <1>2, OperationFacts, CommandFacts
  <2>2. \A x, y \in Command : <<x, y>> \in Seq(Command) /\ <<x>> \in Seq(Command)
    OBVIOUS
  <2> QED
    BY <2>1, <2>2, CallFacts, PairFacts
<1> QED
  BY <1>3, <1>4 DEF EntriesLast

LEMMA OthersAreTyped ==
  ASSUME Typed
  PROVE  /\ handleManagementIpFirewall \subseteq Chain
         /\ handleDagGlobals \subseteq Chain
         /\ handleEnableRouting \subseteq Chain
         /\ Each("delete", "RoutingBGP", GoingBgp, Nothing) \subseteq Chain
<1>1. /\ {"ManagementIpFirewall", "DagGlobals", "RoutingBGP"} \subseteq DeclaredClass
      /\ "Routing" \in Class
  BY DEF DeclaredClass, Class, SingleClass
<1>2. handleManagementIpFirewall \subseteq Chain
  BY <1>1, OperationFacts, UpdateFacts, EachIsTyped DEF handleManagementIpFirewall
<1>3. handleDagGlobals \subseteq Chain
  <2>1. ASSUME NEW i \in Update("DagGlobals")
        PROVE  <<Unawaited(<<Do("set", "DagGlobals", i, want["DagGlobals"][i])>>)>> \in Chain
    BY <1>1, OperationFacts, UpdateFacts, CommandFacts, CallFacts
  <2> QED
    BY <2>1 DEF handleDagGlobals
<1>4. handleEnableRouting \subseteq Chain
  <2>1. <<Awaited(<<Do("set", "Routing", Only, Enabled)>>)>> \in Chain
    BY <1>1, OperationFacts, NetworkAssumption, CommandFacts, CallFacts
  <2> QED
    BY <2>1 DEF handleEnableRouting
<1>5. GoingBgp \subseteq Item /\ \A i \in Item : Nothing[i] \in Values \cup {None}
  BY <1>1, ConfigFacts DEF Typed, GoingBgp, Nothing
<1> QED
  BY <1>1, <1>2, <1>3, <1>4, <1>5, ClassFacts, OperationFacts, EachIsTyped


LEMMA MemoryFacts ==
  ASSUME Typed
  PROVE  /\ mem.existing \subseteq Item /\ mem.matching \subseteq Item
         /\ mem.floats \in Section /\ mem.routes \in Section
         /\ mem.sync \in Values \cup {None}
  BY DEF Typed, Memory

LEMMA SelfIpFacts ==
  ASSUME Typed
  PROVE  /\ {"SelfIp", "Route"} \subseteq DeclaredClass
         /\ {"SelfIp", "Route", "ConfigSync"} \subseteq Class
         /\ \A kind : NewSelfIps(kind) \subseteq Item /\ Existing(kind) \subseteq Item
         /\ \A items : MatchingRoutes(items) \subseteq Item
         /\ \A items : MatchingFloating(items) \subseteq Item
         /\ \A items, floating : MatchingConfigSync(items, floating) \in Values \cup {None}
         /\ \A kind, floating : Kept(kind, floating) \subseteq floating
         /\ \A section \in Section, c \in Class : \A items : Add(section, c, items) \in Section
<1>1. /\ {"SelfIp", "Route"} \subseteq DeclaredClass
      /\ {"SelfIp", "Route", "ConfigSync"} \subseteq Class
  BY DEF DeclaredClass, Class
<1>2. \A kind : NewSelfIps(kind) \subseteq Item /\ Existing(kind) \subseteq Item
  BY <1>1, UpdateFacts DEF NewSelfIps, Existing
<1>3. \A items : MatchingRoutes(items) \subseteq Item
  BY <1>1, DeviceFacts DEF Typed, MatchingRoutes
<1>4. \A items : MatchingFloating(items) \subseteq Item
  BY <1>1, DeviceFacts DEF Typed, MatchingFloating, Floating
<1>5. \A items, floating : MatchingConfigSync(items, floating) \in Values \cup {None}
  BY <1>1, DeviceFacts, NetworkAssumption DEF Typed, MatchingConfigSync
<1>6. \A kind, floating : Kept(kind, floating) \subseteq floating
  BY DEF Kept
<1>7. ASSUME NEW section \in Section, NEW c \in Class, NEW items
      PROVE  Add(section, c, items) \in Section
  <2>1. \A i \in Item : device[c][i] \in Values \cup {None} /\ section[i] \in Values \cup {None}
    BY <1>7, DeviceFacts DEF Typed, Section
  <2> QED
    BY <2>1 DEF Add, Section
<1> QED
  BY <1>1, <1>2, <1>3, <1>4, <1>5, <1>6, <1>7

LEMMA RecallIsTyped ==
  ASSUME NEW c \in Class, NEW section \in Section
  PROVE  Recall(c, section) \subseteq Chain
<1>1. \A i \in Item : section[i] \in Values \cup {None}
  BY DEF Section
<1> QED
  BY <1>1, OperationFacts, EachIsTyped DEF Recall

SelfIpStep ==
  {"floatingRoutes", "localRoutes", "floatingDepends", "localDepends", "floatingMatching",
   "localMatching", "floatingDelete", "localDelete", "localCreate", "floatingCreate",
   "floatingRecall", "syncRecall", "routesRecall"}

LEMMA SelfIpChainsAreTyped ==
  ASSUME Typed, NEW step \in SelfIpStep
  PROVE  SelfIpChains(step) \subseteq Chain
<1>1. \A i \in Item : Nothing[i] \in Values \cup {None}
  BY DEF Nothing
<1>2. CASE step \in {"floatingRoutes", "localRoutes"}
  <2>1. \A kind : Each("delete", "Route", MatchingRoutes(Existing(kind)), Nothing) \subseteq Chain
    BY <1>1, SelfIpFacts, OperationFacts, EachIsTyped
  <2> QED
    BY <1>2, <2>1 DEF SelfIpChains
<1>3. CASE step \in {"floatingDepends", "localDepends"}
  <2>1. Each("set", "ConfigSync", {Only}, Nothing) \subseteq Chain
    BY <1>1, NetworkAssumption, SelfIpFacts, OperationFacts, EachIsTyped
  <2> QED
    BY <1>3, <2>1 DEF SelfIpChains, ClearConfigSync
<1>4. CASE step \in {"floatingMatching", "localMatching"}
  <2>1. Each("delete", "SelfIp", mem.matching, Nothing) \subseteq Chain
    BY <1>1, MemoryFacts, SelfIpFacts, OperationFacts, EachIsTyped
  <2> QED
    BY <1>4, <2>1 DEF SelfIpChains
<1>5. CASE step \in {"floatingDelete", "localDelete"}
  <2>1. Each("delete", "SelfIp", mem.existing, Nothing) \subseteq Chain
    BY <1>1, MemoryFacts, SelfIpFacts, OperationFacts, EachIsTyped
  <2> QED
    BY <1>5, <2>1 DEF SelfIpChains
<1>6. CASE step \in {"localCreate", "floatingCreate"}
  <2>1. \A kind : \A i \in NewSelfIps(kind) : want["SelfIp"][i] \in Values \cup {None}
    BY SelfIpFacts, UpdateFacts DEF NewSelfIps
  <2>2. \A kind : Each("create", "SelfIp", NewSelfIps(kind), want["SelfIp"]) \subseteq Chain
    BY <2>1, SelfIpFacts, OperationFacts, EachIsTyped
  <2> QED
    BY <1>6, <2>2 DEF SelfIpChains
<1>7. CASE step \in {"floatingRecall", "routesRecall"}
  <2>1. Recall("SelfIp", mem.floats) \subseteq Chain /\ Recall("Route", mem.routes) \subseteq Chain
    BY MemoryFacts, SelfIpFacts, RecallIsTyped
  <2> QED
    BY <1>7, <2>1 DEF SelfIpChains
<1>8. CASE step = "syncRecall"
  <2> DEFINE values == [i \in Item |-> mem.sync]
  <2>1. \A i \in {Only} : values[i] \in Values \cup {None}
    BY NetworkAssumption, MemoryFacts
  <2> HIDE DEF values
  <2>2. Each("set", "ConfigSync", {Only}, values) \subseteq Chain
    BY <2>1, NetworkAssumption, SelfIpFacts, OperationFacts, EachIsTyped
  <2> QED
    BY <1>8, <2>2 DEF SelfIpChains, RestoreConfigSync, values
<1> QED
  BY <1>2, <1>3, <1>4, <1>5, <1>6, <1>7, <1>8 DEF SelfIpStep

LEMMA RememberIsTyped ==
  ASSUME Typed, NEW step
  PROVE  Remember(step) \in Memory
<1>1. mem \in Memory
  BY DEF Typed
<1>2. \A kind : FindRoutes(kind) \in Memory
  <2>1. ASSUME NEW kind, NEW existing \in SUBSET Item, NEW routes \in Section
        PROVE  [mem EXCEPT !.existing = existing, !.routes = routes] \in Memory
    BY <1>1 DEF Memory
  <2>2. mem.routes \in Section
    BY MemoryFacts
  <2> QED
    BY <2>1, <2>2, SelfIpFacts DEF FindRoutes
<1>3. \A kind : FindSelfIps(kind) \in Memory
  <2>1. ASSUME NEW matching \in SUBSET Item, NEW floats \in Section, NEW sync \in Values \cup {None}
        PROVE  [mem EXCEPT !.matching = matching, !.floats = floats, !.sync = sync] \in Memory
    BY <1>1 DEF Memory
  <2>2. mem.floats \in Section /\ mem.sync \in Values \cup {None}
    BY MemoryFacts
  <2> QED
    BY <2>1, <2>2, SelfIpFacts DEF FindSelfIps
<1> QED
  BY <1>1, <1>2, <1>3 DEF Remember


-----------------------------------------------------------------------------
(* The plan *)

Deletable ==
  {"DNS_Resolver", "Route", "SelfIp", "FirewallPolicy", "FirewallAddressList",
   "FirewallPortList", "NetAddressList", "NetPortList", "VLAN", "Trunk", "RouteMap",
   "RoutingPrefixList", "RouteDomain", "Tunnel", "RoutingAccessList", "RoutingAsPath"}

LEMMA TwinFacts ==
  /\ DOMAIN TwinOf \subseteq DeclaredClass
  /\ \A c \in DOMAIN TwinOf : TwinOf[c] \in DOMAIN TwinOf
  /\ "RouteDomain" \notin DOMAIN TwinOf /\ "Tunnel" \notin DOMAIN TwinOf
<1>1. DOMAIN TwinOf = {"NetAddressList", "FirewallAddressList", "NetPortList", "FirewallPortList"}
  BY DEF TwinOf
<1>2. DOMAIN TwinOf \subseteq DeclaredClass
  BY <1>1 DEF DeclaredClass, PlainClass
<1>3. \A c \in DOMAIN TwinOf : TwinOf[c] \in DOMAIN TwinOf
  BY DEF TwinOf
<1> QED
  BY <1>1, <1>2, <1>3

LEMMA DeletionIsTyped ==
  ASSUME Typed, NEW c \in Deletable
  PROVE  Deletion(c) \subseteq Chain
<1>1. c \in DeclaredClass /\ c \in Class
  BY DEF Deletable, DeclaredClass, PlainClass, ListClass, Class
<1>2. Items(c) \subseteq Item /\ \A i \in Item : Nothing[i] \in Values \cup {None}
  <2>1. Present(cur, c) \subseteq Item /\ doomed[c] \subseteq Item
    BY <1>1, ConfigFacts DEF Typed
  <2> QED
    BY <2>1 DEF Items, Nothing
<1>3. CASE c = "RouteDomain"
  <2>1. Commands("delete", c, Items(c), Nothing) \in Seq(Command)
    BY <1>1, <1>2, OperationFacts, CommandsAreTyped
  <2> QED
    BY <1>3, <2>1, TransactionIsTyped, TwinFacts DEF Deletion
<1>4. CASE c \in DOMAIN TwinOf
  <2>1. TwinOf[c] \in Class /\ c \notin {"RouteDomain", "Tunnel"}
    BY <1>4, TwinFacts, ClassFacts
  <2>2. ASSUME NEW i \in Items(c)
        PROVE  <<Awaited(<<Do("clear", IF HasTwin(c, i) THEN TwinOf[c] ELSE c, i, None)>>)>>
                 \in Chain
    BY <1>1, <1>2, <2>1, OperationFacts, CommandFacts, CallFacts
  <2> QED
    BY <1>4, <2>1, <2>2 DEF Deletion
<1>5. CASE c = "Tunnel"
  <2>1. c \notin DOMAIN TwinOf /\ "VXLAN" \in Class
    BY <1>5 DEF TwinOf, Class
  <2>2. ASSUME NEW i \in Items(c)
        PROVE  /\ <<Awaited(<<Do("clear", c, i, None)>>)>> \in Chain
               /\ <<Awaited(<<Do("clear", c, i, None)>>),
                    Unawaited(<<Do("clear", "VXLAN", i, None)>>)>> \in Chain
    BY <1>1, <1>2, <2>1, OperationFacts, CommandFacts, CallFacts, PairFacts
  <2> QED
    BY <1>5, <2>1, <2>2 DEF Deletion
<1>6. CASE c \notin {"RouteDomain", "Tunnel"} /\ c \notin DOMAIN TwinOf
  BY <1>1, <1>2, <1>6, OperationFacts, EachIsTyped DEF Deletion
<1> QED
  BY <1>3, <1>4, <1>5, <1>6

PlainStep ==
  {"Trunk", "VLAN", "DNS_Resolver", "tunnelCreate", "FirewallAddressList", "FirewallPortList",
   "FirewallPolicy", "NetAddressList", "NetPortList", "RoutingAsPath", "RoutingAccessList",
   "bgpCreate"}

OtherStep ==
  {"RouteDomain0", "RouteDomain", "tunnelDelete", "vxlanDelete", "vxlanCreate",
   "acceptIpOptions", "ManagementIpFirewall", "routeDelete", "routeCreate", "DagGlobals",
   "enableRouting", "RoutingPrefixList", "RouteMap", "bgpDelete"}

LEMMA ChainsAreTyped ==
  ASSUME Typed, NEW step \in PlainStep \cup OtherStep \cup SelfIpStep
  PROVE  Chains(step) \subseteq Chain
<1>1. CASE step \in PlainStep
  <2>1. \A c \in PlainClass \cup {"Tunnel", "RoutingBGP"} : CreateOrModify(c) \subseteq Chain
    BY CreateOrModifyIsTyped DEF DeclaredClass
  <2>2. \E c \in PlainClass \cup {"Tunnel", "RoutingBGP"} : Chains(step) = CreateOrModify(c)
    BY <1>1
    DEF PlainStep, PlainClass, Chains, handleTrunk, handleVlan, handleDnsResolver, handleTunnel,
        handleFirewallAddressList, handleFirewallPortList, handleFirewallPolicy,
        handleNetAddressList, handleNetPortList, handleRoutingAsPath, handleRoutingAccessList,
        handleRoutingBGP
  <2> QED
    BY <2>1, <2>2
<1>2. CASE step \in OtherStep
  <2>1. step \in {"RouteDomain0", "RouteDomain"} => Chains(step) \subseteq Chain
    BY RouteDomainsAreTyped DEF Chains
  <2>2. step \in {"tunnelDelete", "vxlanDelete", "vxlanCreate", "acceptIpOptions"}
          => Chains(step) \subseteq Chain
    BY TunnelsAreTyped DEF Chains
  <2>3. step \in {"routeDelete", "routeCreate"} => Chains(step) \subseteq Chain
    BY RoutesAreTyped DEF Chains
  <2>4. step \in {"ManagementIpFirewall", "DagGlobals", "enableRouting", "bgpDelete"}
          => Chains(step) \subseteq Chain
    BY OthersAreTyped DEF Chains
  <2>5. step \in {"RoutingPrefixList", "RouteMap"} => Chains(step) \subseteq Chain
    BY EntriesLastIsTyped DEF Chains, ListClass, handleRoutingPrefixList, handleRouteMap
  <2> QED
    BY <1>2, <2>1, <2>2, <2>3, <2>4, <2>5 DEF OtherStep
<1>3. CASE step \in SelfIpStep
  <2>1. Chains(step) = SelfIpChains(step)
    BY <1>3 DEF SelfIpStep, Chains
  <2> QED
    BY <1>3, <2>1, SelfIpChainsAreTyped
<1> QED
  BY <1>1, <1>2, <1>3

LEMMA PlanFacts ==
  /\ Len(NetworkPlan) = 39 /\ Len(DeletePlan) = 16 /\ LastStep = 55
  /\ \A n \in 1 .. 39 : NetworkPlan[n] \in PlainStep \cup OtherStep \cup SelfIpStep
  /\ \A n \in 1 .. 16 : DeletePlan[n] \in Deletable
<1>1. Len(NetworkPlan) = 39
  BY DEF NetworkPlan
<1>2. Len(DeletePlan) = 16
  BY DEF DeletePlan
<1>3. ASSUME NEW n \in 1 .. 39
      PROVE  NetworkPlan[n] \in PlainStep \cup OtherStep \cup SelfIpStep
  BY DEF NetworkPlan, PlainStep, OtherStep, SelfIpStep
<1>4. ASSUME NEW n \in 1 .. 16
      PROVE  DeletePlan[n] \in Deletable
  BY DEF DeletePlan, Deletable
<1> QED
  BY <1>1, <1>2, <1>3, <1>4 DEF LastStep

(* What a step starts, remembers and takes out of the configuration.       *)
LEMMA StepIsTyped ==
  ASSUME Typed, NEW n \in 1 .. LastStep
  PROVE  /\ Started(n) \subseteq Chain
         /\ MemoryAfter(n) \in Memory
         /\ ConfigAfter(n) \in Config
<1>1. CASE n <= Len(NetworkPlan)
  <2>1. NetworkPlan[n] \in PlainStep \cup OtherStep \cup SelfIpStep
    BY <1>1, PlanFacts
  <2> QED
    BY <1>1, <2>1, ChainsAreTyped, RememberIsTyped DEF Started, MemoryAfter, ConfigAfter, Typed
<1>2. CASE ~(n <= Len(NetworkPlan))
  <2>1. DeletedClass(n) \in Deletable
    BY <1>2, PlanFacts DEF DeletedClass
  <2>2. WithoutTwins(DeletedClass(n)) \in Config
    <3> DEFINE c == DeletedClass(n)
               part == [i \in Item |-> IF i \in Items(c) THEN None ELSE cur[TwinOf[c]][i]]
    <3>1. cur \in Config
      BY DEF Typed
    <3>2. CASE c \in DOMAIN TwinOf
      <4>1. TwinOf[c] \in DeclaredClass
        BY <3>2, TwinFacts
      <4>2. part \in Section
        BY <3>1, <4>1, ConfigFacts DEF Section
      <4>3. WithoutTwins(c) = [cur EXCEPT ![TwinOf[c]] = part]
        BY <3>2 DEF WithoutTwins
      <4> HIDE DEF part, c
      <4>4. [cur EXCEPT ![TwinOf[c]] = part] \in Config
        BY <3>1, <4>2 DEF Config
      <4> QED
        BY <4>3, <4>4 DEF c
    <3>3. CASE c \notin DOMAIN TwinOf
      BY <3>1, <3>3 DEF WithoutTwins
    <3> QED
      BY <3>2, <3>3
  <2>3. mem \in Memory
    BY DEF Typed
  <2> QED
    BY <1>2, <2>1, <2>2, <2>3, DeletionIsTyped DEF Started, MemoryAfter, ConfigAfter
<1> QED
  BY <1>1, <1>2

-----------------------------------------------------------------------------
(* Types *)

LEMMA ReadingIsTyped ==
  ASSUME NEW target \in Config, device \in Device
  PROVE  Reading \in Config /\ WithoutDeclaredTwins(target) \in Config
<1>1. \A c \in DeclaredClass : device[c] \in Section
  BY ClassFacts, DeviceFacts
<1>2. \A c \in DeclaredClass :
        [i \in Item |-> IF target[TwinOf[c]][i] # None THEN None ELSE device[c][i]] \in Section
  BY <1>1 DEF Section
<1> QED
  BY <1>1, <1>2 DEF Reading, WithoutDeclaredTwins, Config

LEMMA ProcessIsTyped ==
  ASSUME NEW target \in Config, NEW reading \in Config, NEW p \in Phase, device \in Device,
         Process(target, reading, p)
  PROVE  /\ Typed' /\ phase' \in Phase /\ pc' \in 1 .. LastStep + 1
<1>1. "TrafficControl" \in DeclaredClass
  BY DEF DeclaredClass, SingleClass
<1>2. device' \in Device
  <2>1. target["TrafficControl"] \in Section /\ "TrafficControl" \in Class
    BY <1>1, ConfigFacts
  <2> QED
    BY <2>1 DEF Process, Device
<1>3. doomed' \in [DeclaredClass -> SUBSET Item]
  <2>1. \A c \in DeclaredClass : Present(reading, c) \ Present(target, c) \subseteq Item
    BY ConfigFacts
  <2> QED
    BY <2>1 DEF Process
<1> QED
  BY <1>2, <1>3, NothingIsTyped, PlanFacts DEF Process, Typed

LEMMA TypeInit ==
  ASSUME Init
  PROVE  TypeOK
<1>1. device \in Device /\ want \in Config
  BY NetworkAssumption DEF Init
<1>2. Reading \in Config
  BY <1>1, ReadingIsTyped
<1>3. before \in Device /\ declared \in Config /\ cur \in Config
  BY <1>1, <1>2 DEF Init
<1>4. doomed \in [DeclaredClass -> SUBSET Item]
  BY DEF Init
<1>5. phase \in Phase /\ mem \in Memory /\ faults \in 0 .. MaxFaults /\ late \in BOOLEAN
  <2>1. phase \in Phase
    BY DEF Init, Phase
  <2>2. mem \in Memory
    BY NothingIsTyped DEF Init
  <2>3. MaxFaults \in Nat /\ faults = 0
    BY NetworkAssumption DEF Init
  <2>4. faults \in 0 .. MaxFaults
    BY <2>3
  <2>5. late \in BOOLEAN
    BY DEF Init
  <2> QED
    BY <2>1, <2>2, <2>4, <2>5
<1>6. pc \in 1 .. LastStep + 1
  BY PlanFacts DEF Init
<1>7. group \subseteq Chain /\ loose \subseteq Chain
  BY DEF Init
<1> QED
  BY <1>1, <1>3, <1>4, <1>5, <1>6, <1>7 DEF TypeOK

LEMMA ChainFacts ==
  ASSUME NEW chain \in Chain
  PROVE  Head(chain) \in Call /\ Rest(chain) \subseteq Chain
<1>1. chain \in Seq(Call) /\ chain # <<>>
  BY DEF Chain
<1>2. Head(chain) \in Call /\ Tail(chain) \in Seq(Call)
  BY <1>1, HeadTailProperties
<1> QED
  BY <1>2 DEF Rest, Chain

LEMMA TypeNext ==
  ASSUME TypeOK, [Next]_vars
  PROVE  TypeOK'
<1>1. Typed /\ device \in Device
  BY DEF TypeOK, Typed
<1>2. CASE Apply
  <2>1. WithoutDeclaredTwins(want) \in Config /\ "apply" \in Phase
    BY <1>1, ReadingIsTyped DEF TypeOK, Phase
  <2>2. Typed' /\ phase' \in Phase /\ pc' \in 1 .. LastStep + 1
    BY <1>1, <1>2, <2>1, ProcessIsTyped DEF Apply, TypeOK
  <2> QED
    BY <1>2, <2>2 DEF Apply, TypeOK, Typed
<1>3. CASE RollBack
  <2>1. WithoutDeclaredTwins(cur) \in Config /\ "rollback" \in Phase
    BY <1>1, ReadingIsTyped DEF TypeOK, Phase
  <2>2. Typed' /\ phase' \in Phase /\ pc' \in 1 .. LastStep + 1
    BY <1>1, <1>3, <2>1, ProcessIsTyped DEF RollBack, TypeOK
  <2> QED
    BY <1>3, <2>2 DEF RollBack, TypeOK, Typed
<1>4. CASE Begin
  <2> DEFINE busy == {n \in pc .. LastStep : ~Idle(n)}
             n == Min(busy)
  <2>1. /\ busy # {} /\ pc' = n + 1 /\ mem' = MemoryAfter(n) /\ cur' = ConfigAfter(n)
        /\ group' \subseteq Started(n) /\ loose' \subseteq loose \cup Started(n)
        /\ UNCHANGED <<device, before, want, declared, doomed, phase, faults, late>>
    BY <1>4 DEF Begin
  <2>2. busy \subseteq 1 .. LastStep /\ busy \subseteq Nat
    BY PlanFacts DEF TypeOK
  <2> HIDE DEF busy
  <2>3. n \in 1 .. LastStep
    BY <2>1, <2>2, MinFacts
  <2> HIDE DEF n
  <2>4. Started(n) \subseteq Chain /\ MemoryAfter(n) \in Memory /\ ConfigAfter(n) \in Config
    BY <1>1, <2>3, StepIsTyped
  <2>5. pc' \in 1 .. LastStep + 1
    BY <2>1, <2>3, PlanFacts
  <2> QED
    BY <2>1, <2>4, <2>5 DEF TypeOK
<1>5. CASE Resolve
  BY <1>5 DEF Resolve, TypeOK, Phase
<1>6. ASSUME NEW chain \in group, Perform(chain)
      PROVE  TypeOK'
  <2>1. chain \in Chain /\ Head(chain) \in Call /\ Rest(chain) \subseteq Chain
    BY ChainFacts DEF TypeOK
  <2>2. device' \in Device
    BY <1>1, <1>6, <2>1, OutcomeIsTyped DEF Perform, Accepted
  <2> QED
    BY <1>6, <2>1, <2>2 DEF Perform, TypeOK
<1>7. ASSUME NEW chain \in group, Reject(chain)
      PROVE  TypeOK'
  <2>1. faults' \in 0 .. MaxFaults
    BY <1>7, NetworkAssumption DEF Reject, TypeOK
  <2> QED
    BY <1>7, <2>1 DEF Reject, TypeOK, Phase
<1>8. ASSUME NEW chain \in loose, PerformLoose(chain)
      PROVE  TypeOK'
  <2>1. chain \in Chain /\ Head(chain) \in Call /\ Rest(chain) \subseteq Chain
    BY ChainFacts DEF TypeOK
  <2>2. device' \in Device
    BY <1>1, <1>8, <2>1, OutcomeIsTyped DEF PerformLoose, Accepted
  <2> QED
    BY <1>8, <2>1, <2>2 DEF PerformLoose, TypeOK
<1>9. CASE UNCHANGED vars
  BY <1>9 DEF vars, TypeOK
<1> QED
  BY <1>2, <1>3, <1>4, <1>5, <1>6, <1>7, <1>8, <1>9 DEF Next

(* TypeOK: the objects of the device and what the handlers remember keep   *)
(* their types, whatever a transaction does (networkHandler.js and         *)
(* deleteHandler.js, process).                                             *)
THEOREM TypeCorrect == Spec => []TypeOK
<1>1. Init => TypeOK
  BY TypeInit
<1>2. TypeOK /\ [Next]_vars => TypeOK'
  BY TypeNext
<1> QED
  BY <1>1, <1>2, PTL DEF Spec

-----------------------------------------------------------------------------
(* What the handlers come to: they find the device as it *was*, and take it *)
(* step by step *to* a configuration.                                      *)

(* What they read, what of it is to be made or changed, and what is to go. *)
Seen(was, to) ==
  [c \in DeclaredClass |->
     IF c \in DOMAIN TwinOf
       THEN [i \in Item |-> IF to[TwinOf[c]][i] # None THEN None ELSE was[c][i]]
       ELSE was[c]]

New(was, to, c)     == {i \in Present(to, c) : to[c][i] # Seen(was, to)[c][i]}
Dropped(was, to, c) == Present(Seen(was, to), c) \ Present(to, c)
Going(was, to, c)   == {i \in Dropped(was, to, c) : <<c, i>> \notin Retained}

(* Classes that one step makes and one at most deletes. *)
Simple ==
  {"Trunk", "VLAN", "DNS_Resolver", "FirewallPolicy", "RoutingAsPath", "RoutingAccessList",
   "RoutingPrefixList", "RouteMap", "ManagementIpFirewall", "DagGlobals"}

(* The steps that make them, and those that delete them.                   *)
UpdatedAt(c) ==
  CASE c = "Trunk"                -> 1
    [] c = "VLAN"                 -> 2
    [] c = "DNS_Resolver"         -> 5
    [] c = "FirewallPolicy"       -> 13
    [] c = "ManagementIpFirewall" -> 16
    [] c = "DagGlobals"           -> 32
    [] c = "RoutingAsPath"        -> 34
    [] c = "RoutingAccessList"    -> 35
    [] c = "RoutingPrefixList"    -> 36
    [] c = "RouteMap"             -> 37

DeletedAt(c) ==
  CASE c = "DNS_Resolver"      -> 40
    [] c = "FirewallPolicy"    -> 43
    [] c = "VLAN"              -> 48
    [] c = "Trunk"             -> 49
    [] c = "RouteMap"          -> 50
    [] c = "RoutingPrefixList" -> 51
    [] c = "RoutingAccessList" -> 54
    [] c = "RoutingAsPath"     -> 55
    [] OTHER                   -> 56

(* What an object is before step n. *)
SimpleIs(was, to, n, c, i) ==
  IF n > DeletedAt(c) /\ i \in Going(was, to, c) THEN None
  ELSE IF n > UpdatedAt(c) /\ i \in New(was, to, c) THEN to[c][i]
  ELSE was[c][i]

RouteDomainIs(was, to, n, i) ==
  IF n > 52 /\ i \in Going(was, to, "RouteDomain") THEN None
  ELSE IF n > (IF i = Rd0 THEN 3 ELSE 4) /\ i \in New(was, to, "RouteDomain")
    THEN to["RouteDomain"][i]
  ELSE was["RouteDomain"][i]

(* The tunnels that need a profile, those that are deleted to be made      *)
(* again, and those whose profile goes with them.                          *)
NewVxlan(was, to) == {i \in New(was, to, "Tunnel") : to["Tunnel"][i].fixed \in Vxlan}

OldTunnels(was, to) ==
  {i \in New(was, to, "Tunnel") :
     /\ was["Tunnel"][i] # None
     /\ i \in NewVxlan(was, to) \/ to["Tunnel"][i].fixed # was["Tunnel"][i].fixed}

GoingVxlan(was, to) == {i \in Going(was, to, "Tunnel") : was["Tunnel"][i].fixed \in Vxlan}

TunnelIs(was, to, n, i) ==
  IF n > 53 /\ i \in Going(was, to, "Tunnel") THEN None
  ELSE IF n > 9 /\ i \in New(was, to, "Tunnel") THEN to["Tunnel"][i]
  ELSE IF n > 6 /\ i \in OldTunnels(was, to) THEN None
  ELSE was["Tunnel"][i]

VxlanIs(was, to, n, i) ==
  IF n > 53 /\ i \in GoingVxlan(was, to) THEN None
  ELSE IF n > 8 /\ i \in NewVxlan(was, to) THEN Profile(to["Tunnel"][i])
  ELSE IF n > 7 /\ i \in OldTunnels(was, to) /\ was["Tunnel"][i].fixed \in Vxlan THEN None
  ELSE was["VXLAN"][i]

(* The BGPs and routes that are deleted to be made again.                  *)
OldBgps(was, to) ==
  IF New(was, to, "RoutingBGP") \cup Dropped(was, to, "RoutingBGP") = {} THEN {}
  ELSE {i \in Present(was, "RoutingBGP") :
          ~(/\ i \in New(was, to, "RoutingBGP")
            /\ was["RoutingBGP"][i].data \notin WithPeers
            /\ was["RoutingBGP"][i].fixed = to["RoutingBGP"][i].fixed)}

BgpIs(was, to, n, i) ==
  IF n > 39 /\ i \in New(was, to, "RoutingBGP") THEN to["RoutingBGP"][i]
  ELSE IF n > 38 /\ i \in OldBgps(was, to) THEN None
  ELSE was["RoutingBGP"][i]

OldRoutes(was, to) ==
  {i \in New(was, to, "Route") :
     was["Route"][i] # None /\ was["Route"][i].fixed # to["Route"][i].fixed}

RouteIs(was, to, n, m, i) ==
  IF n > 41 /\ i \in Going(was, to, "Route") THEN None
  ELSE IF n > 31 /\ i \in New(was, to, "Route") THEN to["Route"][i]
  ELSE IF n = 31 /\ i \in OldRoutes(was, to) THEN None
  ELSE IF n \in 18 .. 29 /\ m.routes[i] # None THEN None
  ELSE was["Route"][i]

(* The self IPs of a kind to be made, and those of them that are there.    *)
NewAddresses(was, to, kind) == {i \in New(was, to, "SelfIp") : to["SelfIp"][i].fixed = kind}

Changing(was, to, kind) == {i \in NewAddresses(was, to, kind) : was["SelfIp"][i] # None}

SelfIpIs(was, to, n, m, i) ==
  IF n > 42 /\ i \in Going(was, to, "SelfIp") THEN None
  ELSE IF \/ n > 25 /\ i \in NewAddresses(was, to, "local")
          \/ n > 26 /\ i \in NewAddresses(was, to, "floating") THEN to["SelfIp"][i]
  ELSE IF \/ n > 20 /\ i \in Changing(was, to, "floating")
          \/ n > 24 /\ i \in Changing(was, to, "local")
          \/ n \in 24 .. 27 /\ i \in m.matching THEN None
  ELSE was["SelfIp"][i]

(* Lists are there twice with AFM, and else in the second of two classes.  *)
FirstAt(c) == IF First(c) = "FirewallAddressList" THEN 11 ELSE 12

ListGoesAt(c) == FirstAt(c) + (IF Afm THEN 33 ELSE 35)

ListIs(was, to, n, c, i) ==
  LET first  == First(c)
      second == TwinOf[first]
  IN IF ~Afm /\ c = first THEN None
     ELSE IF n > ListGoesAt(c) /\ i \in Dropped(was, to, c) THEN None
     ELSE IF n > FirstAt(c) + 3 /\ i \in New(was, to, second) THEN to[second][i]
     ELSE IF n > FirstAt(c) /\ i \in New(was, to, first) THEN to[first][i]
     ELSE was[c][i]

(* v is what an object may be before step n.  A self IP that was to be     *)
(* deleted twice is not there after that.                                  *)
Is(was, to, n, m, c, i, v) ==
  CASE c \in Simple         -> v = SimpleIs(was, to, n, c, i)
    [] c \in DOMAIN TwinOf  -> v = ListIs(was, to, n, c, i)
    [] c = "RouteDomain"    -> v = RouteDomainIs(was, to, n, i)
    [] c = "Tunnel"         -> v = TunnelIs(was, to, n, i)
    [] c = "VXLAN"          -> v = VxlanIs(was, to, n, i)
    [] c = "TrafficControl" -> \/ n \in {9, 10} /\ i = Only /\ NewVxlan(was, to) # {}
                               \/ v = to[c][i]
    [] c = "ConfigSync"     -> v = IF n \in 19 .. 28 /\ i = Only /\ m.sync # None THEN None
                                   ELSE was[c][i]
    [] c = "RoutingBGP"     -> v = BgpIs(was, to, n, i)
    [] c = "Route"          -> v = RouteIs(was, to, n, m, i)
    [] c = "SelfIp"         -> /\ v = SelfIpIs(was, to, n, m, i)
                               /\ n > 24 => i \notin m.matching \cap Changing(was, to, "local")
    [] OTHER                -> TRUE

(* What handleSelfIp remembers before step n. *)
Remembers(was, to, n, m) ==
  /\ n <= 17 => m = NoMemory
  /\ n <= 18 => m.sync = None
  /\ \A r \in Item : m.routes[r] \in {None, was["Route"][r]}
  /\ m.sync \in {None, was["ConfigSync"][Only]}
  /\ n <= 22 => m.matching = {} /\ m.floats = Nothing
  /\ n \in 18 .. 21 => m.existing = Changing(was, to, "floating")
  /\ n > 21 => m.existing = Changing(was, to, "local")
  /\ n > 22 => /\ m.floats = [i \in Item |-> IF i \in m.matching THEN was["SelfIp"][i] ELSE None]
               /\ m.matching \subseteq Present(was, "SelfIp") \ Changing(was, to, "floating")

(* The configuration is what was read, less the twins of deleted lists.    *)
GoneAt(c) ==
  CASE c = "FirewallAddressList" -> 44
    [] c = "FirewallPortList"    -> 45
    [] c = "NetAddressList"      -> 46
    [] c = "NetPortList"         -> 47

Reads(was, to, n, config) ==
  \A c \in DeclaredClass, i \in Item :
    config[c][i] # Seen(was, to)[c][i] =>
      /\ c \in DOMAIN TwinOf /\ n > GoneAt(TwinOf[c])
      /\ config[c][i] = None /\ i \in Dropped(was, to, TwinOf[c])

-----------------------------------------------------------------------------
(* What is still to be done *)

(* A command says what becomes of an object, under either name of a list.  *)
Hits(cmd, c, i) ==
  /\ cmd.item = i
  /\ c = cmd.class \/ (Afm /\ c \in DOMAIN TwinOf /\ cmd.class = TwinOf[c])

HitsCall(call, c, i) == \E k \in DOMAIN call.commands : Hits(call.commands[k], c, i)

Writes(chain, c, i) == \E k \in DOMAIN chain : HitsCall(chain[k], c, i)

(* What the last command that writes an object makes of it. *)
CallLeaves(call, c, i, v) ==
  \E k \in DOMAIN call.commands :
    /\ Hits(call.commands[k], c, i) /\ v = call.commands[k].value
    /\ \A l \in DOMAIN call.commands : l > k => ~Hits(call.commands[l], c, i)

Leaves(chain, c, i, v) ==
  \E k \in DOMAIN chain :
    /\ CallLeaves(chain[k], c, i, v)
    /\ \A l \in DOMAIN chain : l > k => ~HitsCall(chain[l], c, i)

(* A chain that can only be refused. *)
Stuck(dev, chain) ==
  \E i \in Item :
    /\ chain[1].commands = <<Do("delete", "SelfIp", i, None)>>
    /\ dev["SelfIp"][i] = None

(* Every object is what it is to be before step n, or one chain will make  *)
(* it that.                                                                *)
Owes(dev, was, to, n, m, chains) ==
  /\ \A c \in Class, i \in Item :
       Is(was, to, n, m, c, i, dev[c][i]) \/ \E chain \in chains : Writes(chain, c, i)
  /\ \A chain \in chains, c \in Class, i \in Item :
       Writes(chain, c, i) =>
         \/ Stuck(dev, chain)
         \/ \E v \in Values \cup {None} : Leaves(chain, c, i, v) /\ Is(was, to, n, m, c, i, v)
  /\ \A x, y \in chains, c \in Class, i \in Item : Writes(x, c, i) /\ Writes(y, c, i) => x = y

-----------------------------------------------------------------------------
(* Devices and configurations *)

(* Commands keep what is assumed of a device.                              *)
CommandFits(first, cmd) ==
  /\ cmd.value # None => Fits(cmd.class, cmd.item, cmd.value)
  /\ cmd.class \in SingleClass => cmd.value # None /\ first[cmd.class][cmd.item] # None
  /\ ~Afm /\ cmd.class \in DOMAIN TwinOf => cmd.class # First(cmd.class)

CallFits(first, call) == \A k \in DOMAIN call.commands : CommandFits(first, call.commands[k])

ChainFits(first, chain) == \A k \in DOMAIN chain : CallFits(first, chain[k])

(* Profiles are made in one step, and tunnels not any more in the end.     *)
CallIsAt(was, to, n, call) ==
  \A k \in DOMAIN call.commands :
    LET cmd == call.commands[k]
    IN /\ cmd.class = "VXLAN" /\ cmd.value # None => n = 9 /\ NewVxlan(was, to) # {}
       /\ cmd.class = "Tunnel" /\ n > 53 => cmd.value = None

ChainIsAt(was, to, n, chain) == \A k \in DOMAIN chain : CallIsAt(was, to, n, chain[k])

(* The chains nobody waits for. *)
LooseIs(dev, was, to, n, chain) ==
  \/ \E i \in New(was, to, "DagGlobals") :
       /\ n > 32
       /\ chain = <<Unawaited(<<Do("set", "DagGlobals", i, to["DagGlobals"][i])>>)>>
  \/ \E i \in GoingVxlan(was, to) :
       /\ n > 53 /\ dev["Tunnel"][i] = None
       /\ chain = <<Unawaited(<<Do("clear", "VXLAN", i, None)>>)>>

-----------------------------------------------------------------------------
(* What a transaction does to each object *)

(* A transaction that makes a vxlan profile.                               *)
CreatesVxlan(call) ==
  \E k \in DOMAIN call.commands :
    call.commands[k].class = "VXLAN" /\ call.commands[k].value # None

(* A transaction leaves an object as its last command on it says, or       *)
(* alone; but the traffic control may change with a new vxlan profile.     *)
LEMMA OutcomeIs ==
  ASSUME device \in Device, NEW call \in Call, Outcome(call) # Refused,
         NEW c \in Class, NEW i \in Item
  PROVE  \/ CallLeaves(call, c, i, Outcome(call)[c][i])
         \/ ~HitsCall(call, c, i) /\ Outcome(call)[c][i] = device[c][i]
         \/ /\ c = "TrafficControl" /\ i = Only /\ Outcome(call)[c][i] = AcceptAll
            /\ CreatesVxlan(call)
<1> DEFINE cmds == call.commands
           last == Len(cmds)
<1>1. /\ last \in Nat /\ DOMAIN cmds = 1 .. last /\ \A n \in 1 .. last : cmds[n] \in Command
  BY DEF Call
<1>2. PICK f : /\ f[0] = device /\ f[last] = Outcome(call)
               /\ \A n \in 0 .. last : f[n] \in Device \cup {Refused}
               /\ \A n \in 1 .. last : f[n] = Executed(f[n - 1], cmds[n])
  BY OutcomeSteps
<1> DEFINE Hit(n)  == \E k \in 1 .. n : /\ Hits(cmds[k], c, i) /\ f[n][c][i] = cmds[k].value
                                        /\ \A l \in k + 1 .. n : ~Hits(cmds[l], c, i)
           Left(n) == /\ \A k \in 1 .. n : ~Hits(cmds[k], c, i)
                      /\ f[n][c][i] = device[c][i]
           Altered(n) == /\ c = "TrafficControl" /\ i = Only /\ f[n][c][i] = AcceptAll
                      /\ \E k \in 1 .. n : cmds[k].class = "VXLAN" /\ cmds[k].value # None
           T == {n \in 0 .. last : f[n] # Refused /\ ~(Hit(n) \/ Left(n) \/ Altered(n))}
<1> HIDE DEF cmds, last
<1>3. ASSUME T # {}
      PROVE  FALSE
  <2>1. PICK n \in T : \A k \in T : n <= k
    <3>1. T \subseteq Nat
      BY <1>1
    <3> HIDE DEF T
    <3> QED
      BY <1>3, <3>1, Smallest
  <2>2. n # 0
    BY <1>2, <2>1
  <2>3. n \in 1 .. last /\ n - 1 \in 0 .. last /\ n - 1 \notin T /\ n \in Nat /\ n - 1 \in Nat
    BY <1>1, <2>1, <2>2
  <2>4. /\ f[n] = Executed(f[n - 1], cmds[n]) /\ f[n] # Refused
        /\ ~(Hit(n) \/ Left(n) \/ Altered(n))
    BY <1>2, <2>1, <2>3
  <2>5. f[n - 1] # Refused /\ f[n] = After(f[n - 1], cmds[n])
    BY <2>4 DEF Executed
  <2>6. Hit(n - 1) \/ Left(n - 1) \/ Altered(n - 1)
    BY <2>3, <2>5
  <2>7. f[n - 1] \in Device /\ cmds[n] \in Command
    BY <1>1, <1>2, <2>3, <2>5
  <2>8. f[n - 1][c] \in [Item -> Values \cup {None}]
    BY <2>7 DEF Device, Section
  <2> DEFINE dev == f[n - 1]
             cmd == cmds[n]
  <2>9. f[n][c] =
          IF c = cmd.class \/ (Afm /\ c \in DOMAIN TwinOf /\ cmd.class = TwinOf[c])
            THEN [dev[c] EXCEPT ![cmd.item] = cmd.value]
          ELSE IF c = "TrafficControl" /\ cmd.class = "VXLAN" /\ cmd.value # None
                    /\ dev["VXLAN"][cmd.item] = None
            THEN [dev[c] EXCEPT ![Only] = AcceptAll]
          ELSE dev[c]
    BY <2>5 DEF After
  <2>10. 1 .. n = (1 .. n - 1) \cup {n} /\ n \notin 1 .. n - 1
    BY <2>3
  <2> HIDE DEF dev, T
  <2>11. CASE Hits(cmd, c, i)
    <3>1. f[n][c][i] = cmds[n].value
      BY <2>8, <2>9, <2>11 DEF Hits, dev
    <3>2. n \in 1 .. n /\ \A l \in n + 1 .. n : ~Hits(cmds[l], c, i)
      BY <2>3
    <3> QED
      BY <2>4, <2>11, <3>1, <3>2
  <2>12. CASE ~Hits(cmd, c, i)
    <3>1. CASE f[n][c][i] = dev[c][i]
      <4>1. Hit(n - 1) => Hit(n)
        <5> SUFFICES ASSUME NEW k \in 1 .. n - 1,
                            Hits(cmds[k], c, i) /\ f[n - 1][c][i] = cmds[k].value,
                            \A l \in k + 1 .. n - 1 : ~Hits(cmds[l], c, i)
                     PROVE  Hit(n)
          OBVIOUS
        <5>1. \A l \in k + 1 .. n : l = n \/ l \in k + 1 .. n - 1
          BY <2>3
        <5>2. \A l \in k + 1 .. n : ~Hits(cmds[l], c, i)
          BY <2>12, <5>1
        <5> QED
          BY <2>10, <3>1, <5>2 DEF dev
      <4>2. Left(n - 1) => Left(n)
        BY <2>10, <2>12, <3>1 DEF dev
      <4>3. Altered(n - 1) => Altered(n)
        BY <2>10, <3>1 DEF dev
      <4> QED
        BY <2>4, <2>6, <4>1, <4>2, <4>3
    <3>2. CASE f[n][c][i] # dev[c][i]
      <4>1. /\ c = "TrafficControl" /\ i = Only /\ f[n][c][i] = AcceptAll
            /\ cmd.class = "VXLAN" /\ cmd.value # None
        BY <2>8, <2>9, <2>12, <3>2 DEF Hits, dev
      <4> QED
        BY <2>4, <2>10, <4>1
    <3> QED
      BY <3>1, <3>2
  <2> QED
    BY <2>11, <2>12
<1>4. last \in 0 .. last /\ last \notin T /\ f[last] # Refused
  <2>1. last \in 0 .. last
    BY <1>1
  <2> HIDE DEF T
  <2> QED
    BY <1>2, <1>3, <2>1
<1>5. Hit(last) \/ Left(last) \/ Altered(last)
  BY <1>4
<1>6. Hit(last) => CallLeaves(call, c, i, Outcome(call)[c][i])
  <2> SUFFICES ASSUME NEW k \in 1 .. last,
                      Hits(cmds[k], c, i) /\ f[last][c][i] = cmds[k].value,
                      \A l \in k + 1 .. last : ~Hits(cmds[l], c, i)
               PROVE  CallLeaves(call, c, i, Outcome(call)[c][i])
    OBVIOUS
  <2>1. \A l \in 1 .. last : l > k => l \in k + 1 .. last
    BY <1>1
  <2> QED
    BY <1>1, <1>2, <2>1 DEF CallLeaves, cmds
<1>7. Left(last) => ~HitsCall(call, c, i) /\ Outcome(call)[c][i] = device[c][i]
  BY <1>1, <1>2 DEF HitsCall, cmds
<1>8. Altered(last) => /\ c = "TrafficControl" /\ i = Only /\ Outcome(call)[c][i] = AcceptAll
                    /\ CreatesVxlan(call)
  BY <1>1, <1>2 DEF CreatesVxlan, cmds
<1> QED
  BY <1>5, <1>6, <1>7, <1>8

(* A self IP that is not there cannot be deleted.                          *)
LEMMA NotStuck ==
  ASSUME device \in Device, NEW chain \in Chain, Accepted(Head(chain))
  PROVE  ~Stuck(device, chain)
<1> SUFFICES ASSUME Stuck(device, chain)
             PROVE  FALSE
  OBVIOUS
<1> DEFINE call == chain[1]
<1>1. call = Head(chain) /\ call \in Call
  BY DEF Chain
<1> HIDE DEF call
<1>2. PICK i \in Item : /\ call.commands = <<Do("delete", "SelfIp", i, None)>>
                        /\ device["SelfIp"][i] = None
  BY DEF Stuck, call
<1> DEFINE cmd == Do("delete", "SelfIp", i, None)
<1>3. Len(call.commands) = 1 /\ call.commands[1] = cmd
  BY <1>2
<1>4. PICK f : f[0] = device /\ f[1] = Outcome(call) /\ f[1] = Executed(f[0], call.commands[1])
  <2>1. 1 \in 1 .. 1 /\ 1 - 1 = 0
    OBVIOUS
  <2> QED
    BY <1>1, <1>3, <2>1, OutcomeSteps
<1>5. ~Allowed(device, cmd)
  BY <1>2 DEF Allowed, Do
<1> QED
  BY <1>1, <1>3, <1>4, <1>5 DEF Accepted, Executed

-----------------------------------------------------------------------------
(* Chains and what they owe *)

(* A chain is its first call and the rest.                                 *)
LEMMA ChainParts ==
  ASSUME NEW chain \in Chain
  PROVE  /\ Head(chain) = chain[1] /\ Head(chain) \in Call /\ 1 \in DOMAIN chain
         /\ \A rest \in Rest(chain) : rest \in Chain /\ rest = Tail(chain)
         /\ \A k \in DOMAIN Tail(chain) : k + 1 \in DOMAIN chain /\ Tail(chain)[k] = chain[k + 1]
         /\ \A k \in DOMAIN chain : k # 1 => k - 1 \in DOMAIN Tail(chain) /\ Rest(chain) # {}
         /\ \A k \in DOMAIN chain : k \in Nat /\ chain[k] \in Call
         /\ \A k \in DOMAIN Tail(chain) : k \in Nat
<1>1. chain \in Seq(Call) /\ chain # <<>> /\ Len(chain) \in Nat /\ DOMAIN chain = 1 .. Len(chain)
  BY DEF Chain
<1>2. Head(chain) \in Call /\ Tail(chain) \in Seq(Call) /\ Head(chain) = chain[1]
      /\ Len(Tail(chain)) = Len(chain) - 1
      /\ \A k \in 1 .. Len(chain) - 1 : Tail(chain)[k] = chain[k + 1]
  BY <1>1, HeadTailProperties
<1>3. Len(chain) >= 1
  BY <1>1
<1>4. DOMAIN Tail(chain) = 1 .. Len(chain) - 1
  BY <1>2
<1>5. \A k \in DOMAIN chain : k # 1 => k - 1 \in DOMAIN Tail(chain) /\ Rest(chain) # {}
  <2> SUFFICES ASSUME NEW k \in DOMAIN chain, k # 1
               PROVE  k - 1 \in DOMAIN Tail(chain) /\ Rest(chain) # {}
    OBVIOUS
  <2>1. k - 1 \in DOMAIN Tail(chain)
    BY <1>1, <1>4
  <2>2. Tail(chain) # <<>>
    BY <2>1
  <2> QED
    BY <2>1, <2>2 DEF Rest
<1>6. \A rest \in Rest(chain) : rest \in Chain /\ rest = Tail(chain)
  BY <1>2 DEF Rest, Chain
<1> QED
  BY <1>1, <1>2, <1>3, <1>4, <1>5, <1>6

(* What a chain writes is written by its first call or by the rest.        *)
LEMMA RestWrites ==
  ASSUME NEW chain \in Chain, NEW c, NEW i
  PROVE  /\ Writes(chain, c, i) => \/ HitsCall(Head(chain), c, i)
                                   \/ \E rest \in Rest(chain) : Writes(rest, c, i)
         /\ HitsCall(Head(chain), c, i) => Writes(chain, c, i)
         /\ \A rest \in Rest(chain) : Writes(rest, c, i) => Writes(chain, c, i)
         /\ \A rest \in Rest(chain) : \A v :
              Writes(rest, c, i) /\ Leaves(chain, c, i, v) => Leaves(rest, c, i, v)
         /\ \A v : Leaves(chain, c, i, v) /\ ~(\E rest \in Rest(chain) : Writes(rest, c, i))
              => CallLeaves(Head(chain), c, i, v)
<1>1. Writes(chain, c, i) => \/ HitsCall(Head(chain), c, i)
                             \/ \E rest \in Rest(chain) : Writes(rest, c, i)
  <2> SUFFICES ASSUME NEW k \in DOMAIN chain, HitsCall(chain[k], c, i), k # 1
               PROVE  \E rest \in Rest(chain) : Writes(rest, c, i)
    BY ChainParts DEF Writes
  <2>1. /\ k - 1 \in DOMAIN Tail(chain) /\ Tail(chain) \in Rest(chain)
        /\ Tail(chain)[k - 1] = chain[(k - 1) + 1] /\ k \in Nat
    BY ChainParts
  <2>2. (k - 1) + 1 = k
    BY <2>1
  <2> QED
    BY <2>1, <2>2 DEF Writes
<1>2. HitsCall(Head(chain), c, i) => Writes(chain, c, i)
  BY ChainParts DEF Writes
<1>3. ASSUME NEW rest \in Rest(chain), Writes(rest, c, i)
      PROVE  /\ Writes(chain, c, i)
             /\ \A v : Leaves(chain, c, i, v) => Leaves(rest, c, i, v)
  <2>1. PICK k \in DOMAIN rest : HitsCall(rest[k], c, i)
    BY <1>3 DEF Writes
  <2>2. rest = Tail(chain) /\ k + 1 \in DOMAIN chain /\ rest[k] = chain[k + 1] /\ k \in Nat
    BY ChainParts
  <2>3. Writes(chain, c, i)
    BY <2>1, <2>2 DEF Writes
  <2>4. ASSUME NEW v, Leaves(chain, c, i, v)
        PROVE  Leaves(rest, c, i, v)
    <3>1. PICK l \in DOMAIN chain : /\ CallLeaves(chain[l], c, i, v)
                                    /\ \A p \in DOMAIN chain : p > l => ~HitsCall(chain[p], c, i)
      BY <2>4 DEF Leaves
    <3>2. l \in Nat /\ ~(k + 1 > l) /\ (l # 1 \/ (l = 1 /\ k + 1 > 1))
      BY <2>1, <2>2, <3>1, ChainParts
    <3>3. l # 1 /\ l \in Nat
      BY <2>1, <2>2, <3>1, <3>2, ChainParts
    <3>4. /\ l - 1 \in DOMAIN rest /\ rest[l - 1] = chain[(l - 1) + 1] /\ (l - 1) + 1 = l
      BY <2>2, <3>3, ChainParts
    <3>5. \A p \in DOMAIN rest : p > l - 1 => ~HitsCall(rest[p], c, i)
      <4> SUFFICES ASSUME NEW p \in DOMAIN rest, p > l - 1
                   PROVE  ~HitsCall(rest[p], c, i)
        OBVIOUS
      <4>1. p + 1 \in DOMAIN chain /\ rest[p] = chain[p + 1] /\ p \in Nat
        BY <2>2, ChainParts
      <4>2. p + 1 > l
        BY <3>3, <4>1
      <4> QED
        BY <3>1, <4>1, <4>2
    <3> QED
      BY <3>1, <3>4, <3>5 DEF Leaves
  <2> QED
    BY <2>3, <2>4
<1>4. ASSUME NEW v, Leaves(chain, c, i, v), ~(\E rest \in Rest(chain) : Writes(rest, c, i))
      PROVE  CallLeaves(Head(chain), c, i, v)
  <2>1. PICK l \in DOMAIN chain : CallLeaves(chain[l], c, i, v)
    BY <1>4 DEF Leaves
  <2>2. CASE l = 1
    BY <2>1, <2>2, ChainParts
  <2>3. CASE l # 1
    <3>1. HitsCall(chain[l], c, i)
      BY <2>1 DEF CallLeaves, HitsCall
    <3>2. /\ l - 1 \in DOMAIN Tail(chain) /\ Tail(chain) \in Rest(chain)
          /\ Tail(chain)[l - 1] = chain[(l - 1) + 1] /\ l \in Nat
      BY <2>3, ChainParts
    <3>3. (l - 1) + 1 = l
      BY <3>2
    <3> QED
      BY <1>4, <3>1, <3>2, <3>3 DEF Writes
  <2> QED
    BY <2>2, <2>3
<1> QED
  BY <1>1, <1>2, <1>3, <1>4

(* A transaction leaves one value of an object.                            *)
LEMMA OneIsLeft ==
  ASSUME NEW call \in Call, NEW c, NEW i, NEW v, NEW w,
         CallLeaves(call, c, i, v), CallLeaves(call, c, i, w)
  PROVE  v = w
<1>1. DOMAIN call.commands \subseteq Nat
  BY DEF Call
<1>2. PICK k \in DOMAIN call.commands :
        /\ Hits(call.commands[k], c, i) /\ v = call.commands[k].value
        /\ \A l \in DOMAIN call.commands : l > k => ~Hits(call.commands[l], c, i)
  BY DEF CallLeaves
<1>3. PICK h \in DOMAIN call.commands :
        /\ Hits(call.commands[h], c, i) /\ w = call.commands[h].value
        /\ \A l \in DOMAIN call.commands : l > h => ~Hits(call.commands[l], c, i)
  BY DEF CallLeaves
<1>4. k = h
  BY <1>1, <1>2, <1>3
<1> QED
  BY <1>2, <1>3, <1>4

(* The network may change the traffic control while profiles are made.     *)
LEMMA ControlIsAnything ==
  ASSUME NEW was, NEW to, NEW n, NEW m, NEW v, n = 9, NewVxlan(was, to) # {}
  PROVE  Is(was, to, n, m, "TrafficControl", Only, v)
<1>1. "TrafficControl" \notin Simple /\ "TrafficControl" \notin DOMAIN TwinOf
  BY DEF Simple, TwinOf
<1> QED
  BY <1>1 DEF Is

(* A chain that goes on by one call pays what it owes. *)
LEMMA Performed ==
  ASSUME device \in Device, NEW chains, chains \subseteq Chain, NEW chain \in chains,
         NEW was, NEW to, NEW n, NEW m,
         Owes(device, was, to, n, m, chains), ChainIsAt(was, to, n, chain),
         Accepted(Head(chain))
  PROVE  Owes(Outcome(Head(chain)), was, to, n, m, (chains \ {chain}) \cup Rest(chain))
<1> DEFINE call == Head(chain)
           left == (chains \ {chain}) \cup Rest(chain)
           dev == Outcome(call)
<1>1. call \in Call /\ chain \in Chain /\ Accepted(call) /\ dev # Refused
  BY ChainParts DEF Accepted
<1>2. CreatesVxlan(call) => n = 9 /\ NewVxlan(was, to) # {}
  <2>1. CallIsAt(was, to, n, call)
    BY ChainParts DEF ChainIsAt
  <2> QED
    BY <2>1 DEF CreatesVxlan, CallIsAt
<1> HIDE DEF call, dev
<1>3. ASSUME NEW c \in Class, NEW i \in Item
      PROVE  \/ CallLeaves(call, c, i, dev[c][i])
             \/ ~HitsCall(call, c, i) /\ dev[c][i] = device[c][i]
             \/ c = "TrafficControl" /\ \A v : Is(was, to, n, m, c, i, v)
  BY <1>1, <1>2, OutcomeIs, ControlIsAnything DEF dev
<1>4. ASSUME NEW c \in Class, NEW i \in Item
      PROVE  Is(was, to, n, m, c, i, dev[c][i]) \/ \E x \in left : Writes(x, c, i)
  <2> SUFFICES ASSUME ~ \E x \in left : Writes(x, c, i)
               PROVE  Is(was, to, n, m, c, i, dev[c][i])
    OBVIOUS
  <2>1. CASE Writes(chain, c, i)
    <3>1. PICK v : Leaves(chain, c, i, v) /\ Is(was, to, n, m, c, i, v)
      BY <1>1, <2>1, NotStuck DEF Owes, call
    <3>2. CallLeaves(call, c, i, v) /\ HitsCall(call, c, i)
      <4>1. CallLeaves(call, c, i, v)
        BY <1>1, <3>1, RestWrites DEF call
      <4> QED
        BY <4>1 DEF CallLeaves, HitsCall
    <3> QED
      BY <1>1, <1>3, <3>1, <3>2, OneIsLeft
  <2>2. CASE ~Writes(chain, c, i)
    <3>1. Is(was, to, n, m, c, i, device[c][i])
      BY <2>2 DEF Owes
    <3>2. ~HitsCall(call, c, i)
      BY <1>1, <2>2, RestWrites DEF call
    <3>3. ~CallLeaves(call, c, i, dev[c][i])
      BY <3>2 DEF CallLeaves, HitsCall
    <3> QED
      BY <1>3, <3>1, <3>3
  <2> QED
    BY <2>1, <2>2
<1>5. ASSUME NEW x \in left, NEW c \in Class, NEW i \in Item, Writes(x, c, i)
      PROVE  \/ Stuck(dev, x)
             \/ \E v \in Values \cup {None} : Leaves(x, c, i, v) /\ Is(was, to, n, m, c, i, v)
  <2>1. CASE x \in chains /\ x # chain
    <3> SUFFICES ASSUME Stuck(device, x)
                 PROVE  Stuck(dev, x)
      BY <1>5, <2>1 DEF Owes
    <3>1. PICK j \in Item : /\ x[1].commands = <<Do("delete", "SelfIp", j, None)>>
                            /\ device["SelfIp"][j] = None
      BY DEF Stuck
    <3>2. "SelfIp" \in Class
      BY DEF Class, DeclaredClass
    <3>3. Writes(x, "SelfIp", j)
      <4>1. Hits(Do("delete", "SelfIp", j, None), "SelfIp", j)
        BY DEF Hits, Do
      <4>2. 1 \in DOMAIN x /\ 1 \in DOMAIN x[1].commands
            /\ x[1].commands[1] = Do("delete", "SelfIp", j, None)
        BY <2>1, <3>1, ChainParts
      <4> QED
        BY <4>1, <4>2 DEF Writes, HitsCall
    <3>4. ~HitsCall(call, "SelfIp", j)
      BY <1>1, <2>1, <3>2, <3>3, RestWrites DEF Owes, call
    <3>5. ~CallLeaves(call, "SelfIp", j, dev["SelfIp"][j])
      BY <3>4 DEF CallLeaves, HitsCall
    <3>6. dev["SelfIp"][j] = device["SelfIp"][j]
      BY <1>3, <3>2, <3>5
    <3> QED
      BY <3>1, <3>6 DEF Stuck
  <2>2. CASE x \in Rest(chain)
    <3>1. Writes(chain, c, i)
      BY <1>1, <1>5, <2>2, RestWrites
    <3>2. PICK v \in Values \cup {None} : Leaves(chain, c, i, v) /\ Is(was, to, n, m, c, i, v)
      BY <1>1, <3>1, NotStuck DEF Owes, call
    <3> QED
      BY <1>1, <1>5, <2>2, <3>2, RestWrites
  <2> QED
    BY <2>1, <2>2
<1>6. ASSUME NEW x \in left, NEW y \in left, NEW c \in Class, NEW i \in Item,
             Writes(x, c, i), Writes(y, c, i)
      PROVE  x = y
  <2>1. \A z \in Rest(chain) : z = Tail(chain)
    BY <1>1, ChainParts
  <2>2. \A z \in Rest(chain) : Writes(z, c, i) => Writes(chain, c, i)
    BY <1>1, RestWrites
  <2> QED
    BY <1>6, <2>1, <2>2 DEF Owes
<1> QED
  BY <1>4, <1>5, <1>6 DEF Owes, dev, call

(* A step starts chains that owe what the step is to bring about. *)
LEMMA Begun ==
  ASSUME NEW dev, NEW was, NEW to, NEW n, NEW next, NEW m, NEW mm, NEW pending, NEW chains,
         Owes(dev, was, to, n, m, pending),
         \A c \in Class, i \in Item, v \in Values \cup {None} :
           /\ Is(was, to, n, m, c, i, v)
           /\ ~ \E chain \in chains : Writes(chain, c, i)
           => Is(was, to, next, mm, c, i, v),
         \A c \in Class, i \in Item : dev[c][i] \in Values \cup {None},
         \A chain \in chains, c \in Class, i \in Item :
           Writes(chain, c, i) =>
             \/ Stuck(dev, chain)
             \/ \E v \in Values \cup {None} :
                  Leaves(chain, c, i, v) /\ Is(was, to, next, mm, c, i, v),
         \A x, y \in chains, c \in Class, i \in Item : Writes(x, c, i) /\ Writes(y, c, i) => x = y,
         \A x \in pending, y \in chains, c \in Class, i \in Item : ~(Writes(x, c, i) /\ Writes(y, c, i))
  PROVE  Owes(dev, was, to, next, mm, pending \cup chains)
<1>1. \A c \in Class, i \in Item :
        \/ Is(was, to, next, mm, c, i, dev[c][i])
        \/ \E chain \in pending \cup chains : Writes(chain, c, i)
  BY DEF Owes
<1>2. \A chain \in pending \cup chains, c \in Class, i \in Item :
        Writes(chain, c, i) =>
          \/ Stuck(dev, chain)
          \/ \E v \in Values \cup {None} :
               Leaves(chain, c, i, v) /\ Is(was, to, next, mm, c, i, v)
  BY DEF Owes
<1>3. \A x, y \in pending \cup chains, c \in Class, i \in Item :
        Writes(x, c, i) /\ Writes(y, c, i) => x = y
  BY DEF Owes
<1> QED
  BY <1>1, <1>2, <1>3 DEF Owes

(* The state before step n: the chains under way fit the device, and those *)
(* nobody waits for are known.                                             *)
At(dev, first, was, to, n, m, config, chains) ==
  /\ Remembers(was, to, n, m) /\ Reads(was, to, n, config)
  /\ Owes(dev, was, to, n, m, chains)
  /\ \A chain \in chains : /\ ChainFits(first, chain) /\ ChainIsAt(was, to, n, chain)
                           /\ Head(chain).awaited \/ LooseIs(dev, was, to, n, chain)

(* A transaction of one command.                                           *)
LEMMA CommandHits ==
  ASSUME NEW op, NEW c, NEW j, NEW v, NEW d, NEW i
  PROVE  /\ HitsCall(Awaited(<<Do(op, c, j, v)>>), d, i) <=> Hits(Do(op, c, j, v), d, i)
         /\ HitsCall(Unawaited(<<Do(op, c, j, v)>>), d, i) <=> Hits(Do(op, c, j, v), d, i)
         /\ Hits(Do(op, c, j, v), d, i) =>
              /\ CallLeaves(Awaited(<<Do(op, c, j, v)>>), d, i, v)
              /\ CallLeaves(Unawaited(<<Do(op, c, j, v)>>), d, i, v)
<1> DEFINE cmd == Do(op, c, j, v)
           awaited == Awaited(<<cmd>>)
           unawaited == Unawaited(<<cmd>>)
<1>1. cmd.value = v
  BY DEF Do
<1> HIDE DEF cmd
<1>2. awaited.commands = <<cmd>> /\ unawaited.commands = <<cmd>>
  BY DEF Awaited, Unawaited
<1> HIDE DEF awaited, unawaited
<1>3. DOMAIN <<cmd>> = {1} /\ <<cmd>>[1] = cmd
  OBVIOUS
<1>4. \A l \in {1} : ~(l > 1)
  OBVIOUS
<1>5. /\ HitsCall(awaited, d, i) <=> Hits(cmd, d, i)
      /\ HitsCall(unawaited, d, i) <=> Hits(cmd, d, i)
  BY <1>2, <1>3 DEF HitsCall
<1>6. Hits(cmd, d, i) => CallLeaves(awaited, d, i, v) /\ CallLeaves(unawaited, d, i, v)
  BY <1>1, <1>2, <1>3, <1>4 DEF CallLeaves
<1> QED
  BY <1>5, <1>6 DEF cmd, awaited, unawaited

(* A chain of one call, and one of two.                                    *)
LEMMA OneCallWrites ==
  ASSUME NEW call, NEW c, NEW i
  PROVE  /\ Writes(<<call>>, c, i) <=> HitsCall(call, c, i)
         /\ \A v : CallLeaves(call, c, i, v) => Leaves(<<call>>, c, i, v)
<1>1. DOMAIN <<call>> = {1} /\ <<call>>[1] = call
  OBVIOUS
<1> QED
  BY <1>1 DEF Writes, Leaves

LEMMA TwoCallsWrite ==
  ASSUME NEW x, NEW y, NEW c, NEW i, NEW v
  PROVE  /\ Writes(<<x, y>>, c, i) <=> HitsCall(x, c, i) \/ HitsCall(y, c, i)
         /\ CallLeaves(y, c, i, v) => Leaves(<<x, y>>, c, i, v)
         /\ CallLeaves(x, c, i, v) /\ ~HitsCall(y, c, i) => Leaves(<<x, y>>, c, i, v)
<1> DEFINE chain == <<x, y>>
<1>1. DOMAIN chain = {1, 2} /\ chain[1] = x /\ chain[2] = y
  OBVIOUS
<1> HIDE DEF chain
<1>2. Writes(chain, c, i) <=> HitsCall(x, c, i) \/ HitsCall(y, c, i)
  BY <1>1 DEF Writes
<1>3. CallLeaves(y, c, i, v) => Leaves(chain, c, i, v)
  <2>1. \A l \in DOMAIN chain : ~(l > 2)
    BY <1>1
  <2> QED
    BY <1>1, <2>1 DEF Leaves
<1>4. CallLeaves(x, c, i, v) /\ ~HitsCall(y, c, i) => Leaves(chain, c, i, v)
  <2>1. \A l \in DOMAIN chain : l > 1 => l = 2
    BY <1>1
  <2> QED
    BY <1>1, <2>1 DEF Leaves
<1> QED
  BY <1>2, <1>3, <1>4 DEF chain

(* A chain of one command fits when the command does.                      *)
LEMMA CommandFitsChain ==
  ASSUME NEW first, NEW op, NEW c, NEW j, NEW v, CommandFits(first, Do(op, c, j, v))
  PROVE  /\ CallFits(first, Awaited(<<Do(op, c, j, v)>>))
         /\ CallFits(first, Unawaited(<<Do(op, c, j, v)>>))
         /\ ChainFits(first, <<Awaited(<<Do(op, c, j, v)>>)>>)
         /\ ChainFits(first, <<Unawaited(<<Do(op, c, j, v)>>)>>)
<1> DEFINE cmd == Do(op, c, j, v)
<1> HIDE DEF cmd
<1>1. DOMAIN <<cmd>> = {1} /\ <<cmd>>[1] = cmd
  OBVIOUS
<1>2. Awaited(<<cmd>>).commands = <<cmd>> /\ Unawaited(<<cmd>>).commands = <<cmd>>
  BY DEF Awaited, Unawaited
<1>3. CallFits(first, Awaited(<<cmd>>)) /\ CallFits(first, Unawaited(<<cmd>>))
  BY <1>1, <1>2 DEF CallFits, cmd
<1>4. \A call : DOMAIN <<call>> = {1} /\ <<call>>[1] = call
  OBVIOUS
<1> QED
  BY <1>3, <1>4 DEF ChainFits, cmd

(* Where a chain of one command may be under way. *)
LEMMA CommandIsAt ==
  ASSUME NEW was, NEW to, NEW n, NEW op, NEW c, NEW j, NEW v,
         c = "VXLAN" => v = None \/ (n = 9 /\ NewVxlan(was, to) # {}),
         c = "Tunnel" => v = None \/ ~(n > 53)
  PROVE  /\ CallIsAt(was, to, n, Awaited(<<Do(op, c, j, v)>>))
         /\ CallIsAt(was, to, n, Unawaited(<<Do(op, c, j, v)>>))
         /\ ChainIsAt(was, to, n, <<Awaited(<<Do(op, c, j, v)>>)>>)
         /\ ChainIsAt(was, to, n, <<Unawaited(<<Do(op, c, j, v)>>)>>)
<1> DEFINE cmd == Do(op, c, j, v)
<1>1. cmd.class = c /\ cmd.value = v
  BY DEF Do
<1> HIDE DEF cmd
<1>2. DOMAIN <<cmd>> = {1} /\ <<cmd>>[1] = cmd
  OBVIOUS
<1>3. Awaited(<<cmd>>).commands = <<cmd>> /\ Unawaited(<<cmd>>).commands = <<cmd>>
  BY DEF Awaited, Unawaited
<1>4. CallIsAt(was, to, n, Awaited(<<cmd>>)) /\ CallIsAt(was, to, n, Unawaited(<<cmd>>))
  BY <1>1, <1>2, <1>3 DEF CallIsAt
<1>5. \A call : DOMAIN <<call>> = {1} /\ <<call>>[1] = call
  OBVIOUS
<1> QED
  BY <1>4, <1>5 DEF ChainIsAt, cmd

(* What the chains nobody waits for are about, and that they stay so.      *)
LEMMA LooseWrites ==
  ASSUME NEW dev, NEW was, NEW to, NEW n, NEW chain, LooseIs(dev, was, to, n, chain),
         NEW c, NEW i, Writes(chain, c, i)
  PROVE  \/ c = "DagGlobals" /\ n > 32
         \/ c = "VXLAN" /\ n > 53
<1>1. {"DagGlobals", "VXLAN"} \cap DOMAIN TwinOf = {}
      /\ \A d \in DOMAIN TwinOf : TwinOf[d] \notin {"DagGlobals", "VXLAN"}
  BY DEF TwinOf
<1>2. ASSUME NEW d \in {"DagGlobals", "VXLAN"}, NEW op, NEW j, NEW v,
             chain = <<Unawaited(<<Do(op, d, j, v)>>)>>
      PROVE  c = d
  <2>1. Hits(Do(op, d, j, v), c, i)
    BY <1>2, OneCallWrites, CommandHits
  <2> QED
    BY <1>1, <2>1 DEF Hits, Do
<1> QED
  BY <1>2 DEF LooseIs

LEMMA LooseStays ==
  ASSUME NEW dev, NEW was, NEW to, NEW n \in Nat, NEW chain, LooseIs(dev, was, to, n, chain)
  PROVE  /\ LooseIs(dev, was, to, n + 1, chain)
         /\ ChainIsAt(was, to, n + 1, chain)
<1>1. n > 32 => n + 1 > 32
  OBVIOUS
<1>2. n > 53 => n + 1 > 53
  OBVIOUS
<1>3. LooseIs(dev, was, to, n + 1, chain)
  BY <1>1, <1>2 DEF LooseIs
<1>4. \A i, v : ChainIsAt(was, to, n + 1, <<Unawaited(<<Do("set", "DagGlobals", i, v)>>)>>)
  BY CommandIsAt
<1>5. \A i : ChainIsAt(was, to, n + 1, <<Unawaited(<<Do("clear", "VXLAN", i, None)>>)>>)
  BY CommandIsAt
<1> QED
  BY <1>3, <1>4, <1>5 DEF LooseIs

(* A step of the plan leads from one such state to the next. *)
LEMMA StepAt ==
  ASSUME NEW dev, NEW first, NEW was, NEW to, NEW n \in Nat, NEW m, NEW config, NEW pending,
         NEW mm, NEW newConfig, NEW chains,
         At(dev, first, was, to, n, m, config, pending),
         \A chain \in pending : LooseIs(dev, was, to, n, chain),
         Remembers(was, to, n + 1, mm), Reads(was, to, n + 1, newConfig),
         Owes(dev, was, to, n + 1, mm, pending \cup chains),
         \A chain \in chains : /\ ChainFits(first, chain) /\ ChainIsAt(was, to, n + 1, chain)
                               /\ Head(chain).awaited \/ LooseIs(dev, was, to, n + 1, chain)
  PROVE  At(dev, first, was, to, n + 1, mm, newConfig, pending \cup chains)
  BY LooseStays DEF At

(* A command for each of some items of a class that is there once.         *)
LEMMA EachBegun ==
  ASSUME NEW dev, NEW was, NEW to, NEW n, NEW next, NEW m, NEW mm, NEW pending,
         NEW op, NEW c \in Class, c \notin DOMAIN TwinOf, NEW items, items \subseteq Item, NEW values,
         Owes(dev, was, to, n, m, pending),
         \A d \in Class, i \in Item : dev[d][i] \in Values \cup {None},
         \A i \in items : values[i] \in Values \cup {None},
         \A i \in items :
           \/ Is(was, to, next, mm, c, i, values[i])
           \/ op = "delete" /\ c = "SelfIp" /\ values[i] = None /\ dev["SelfIp"][i] = None,
         \A d \in Class, i \in Item, v \in Values \cup {None} :
           Is(was, to, n, m, d, i, v) /\ ~(i \in items /\ d = c) => Is(was, to, next, mm, d, i, v),
         \A x \in pending, i \in items : ~Writes(x, c, i)
  PROVE  Owes(dev, was, to, next, mm, pending \cup Each(op, c, items, values))
<1> DEFINE f == [i \in items |-> <<Awaited(<<Do(op, c, i, values[i])>>)>>]
<1>1. /\ \A x \in Each(op, c, items, values) : \E i \in items : x = f[i]
      /\ \A i \in items : f[i] \in Each(op, c, items, values)
  BY DEF Each
<1>2. \A i \in items, d \in Class, j \in Item : Hits(Do(op, c, i, values[i]), d, j) <=> j = i /\ d = c
  <2>1. \A d \in DOMAIN TwinOf : TwinOf[d] # c
    BY TwinFacts
  <2> QED
    BY <2>1 DEF Hits, Do
<1>3. ASSUME NEW i \in items, NEW d \in Class, NEW j \in Item
      PROVE  Writes(f[i], d, j) <=> j = i /\ d = c
  <2>1. Hits(Do(op, c, i, values[i]), d, j) <=> j = i /\ d = c
    BY <1>2
  <2>2. f[i] = <<Awaited(<<Do(op, c, i, values[i])>>)>>
    OBVIOUS
  <2> HIDE DEF f
  <2> QED
    BY <2>1, <2>2, OneCallWrites, CommandHits
<1>4. ASSUME NEW i \in items
      PROVE  Leaves(f[i], c, i, values[i])
  <2>1. Hits(Do(op, c, i, values[i]), c, i)
    BY <1>2
  <2> QED
    BY <2>1, OneCallWrites, CommandHits
<1>5. ASSUME NEW i \in items
      PROVE  \/ Stuck(dev, f[i])
             \/ \E v \in Values \cup {None} : Leaves(f[i], c, i, v) /\ Is(was, to, next, mm, c, i, v)
  <2>1. f[i][1].commands = <<Do(op, c, i, values[i])>>
    BY DEF Awaited
  <2> HIDE DEF f
  <2> QED
    BY <1>4, <2>1 DEF Stuck
<1> DEFINE chains == Each(op, c, items, values)
<1> HIDE DEF f, chains
<1>6. \A x \in chains : \E i \in items : x = f[i]
  BY <1>1 DEF chains
<1>7. \A d \in Class, i \in Item, v \in Values \cup {None} :
        /\ Is(was, to, n, m, d, i, v)
        /\ ~(\E chain \in chains : Writes(chain, d, i))
        => Is(was, to, next, mm, d, i, v)
  <2> SUFFICES ASSUME NEW d \in Class, NEW i \in Item, NEW v \in Values \cup {None},
                      Is(was, to, n, m, d, i, v), ~ \E chain \in chains : Writes(chain, d, i)
               PROVE  Is(was, to, next, mm, d, i, v)
    OBVIOUS
  <2>1. ~(i \in items /\ d = c)
    BY <1>1, <1>3 DEF chains
  <2> QED
    BY <2>1
<1>8. \A chain \in chains, d \in Class, i \in Item :
        Writes(chain, d, i) =>
          \/ Stuck(dev, chain)
          \/ \E v \in Values \cup {None} : Leaves(chain, d, i, v) /\ Is(was, to, next, mm, d, i, v)
  BY <1>3, <1>5, <1>6
<1>9. \A x, y \in chains, d \in Class, i \in Item : Writes(x, d, i) /\ Writes(y, d, i) => x = y
  BY <1>3, <1>6
<1>10. \A x \in pending, y \in chains, d \in Class, i \in Item : ~(Writes(x, d, i) /\ Writes(y, d, i))
  BY <1>3, <1>6
<1>11. Owes(dev, was, to, next, mm, pending \cup chains)
  BY <1>7, <1>8, <1>9, <1>10, Begun
<1> QED
  BY <1>11 DEF chains

(* A step that starts nothing. *)
LEMMA NothingBegun ==
  ASSUME NEW dev, NEW was, NEW to, NEW n, NEW next, NEW m, NEW mm, NEW pending,
         Owes(dev, was, to, n, m, pending),
         \A d \in Class, i \in Item : dev[d][i] \in Values \cup {None},
         \A d \in Class, i \in Item, v \in Values \cup {None} :
           Is(was, to, n, m, d, i, v) => Is(was, to, next, mm, d, i, v)
  PROVE  Owes(dev, was, to, next, mm, pending \cup {})
  BY Begun

-----------------------------------------------------------------------------
(* What a step leaves as it is *)

(* No step n makes a difference to what objects of a class may be. *)
Still(n, c, m, mm) ==
  /\ c \in Simple => n \notin {UpdatedAt(c), DeletedAt(c)}
  /\ c \in DOMAIN TwinOf => n \notin {FirstAt(c), FirstAt(c) + 3, ListGoesAt(c)}
  /\ c = "RouteDomain" => n \notin {3, 4, 52}
  /\ c = "Tunnel" => n \notin {6, 9, 53}
  /\ c = "VXLAN" => n \notin {7, 8, 53}
  /\ c = "TrafficControl" => n # 10
  /\ c = "ConfigSync" => n \notin {18, 28} /\ m.sync = mm.sync
  /\ c = "RoutingBGP" => n \notin {38, 39}
  /\ c = "Route" => n \notin {17, 29, 30, 31, 41} /\ (n < 30 => m.routes = mm.routes)
  /\ c = "SelfIp" => n \notin {20, 23, 24, 25, 26, 27, 42} /\ (n > 23 => m.matching = mm.matching)

(* The classes apart.                                                      *)
LEMMA SimpleFacts ==
  /\ Simple \subseteq DeclaredClass /\ Simple \cap DOMAIN TwinOf = {}
  /\ \A c \in Simple : UpdatedAt(c) \in Nat /\ DeletedAt(c) \in Nat
  /\ {"RouteDomain", "Tunnel", "VXLAN", "TrafficControl", "ConfigSync", "RoutingBGP", "Route",
      "SelfIp", "Routing"} \cap (Simple \cup DOMAIN TwinOf) = {}
  /\ \A c \in DOMAIN TwinOf : FirstAt(c) \in {11, 12} /\ FirstAt(c) \in Nat /\ ListGoesAt(c) \in Nat
<1>1. Simple \subseteq DeclaredClass
  BY DEF Simple, DeclaredClass, PlainClass, SingleClass, ListClass
<1>2. Simple \cap DOMAIN TwinOf = {}
      /\ {"RouteDomain", "Tunnel", "VXLAN", "TrafficControl", "ConfigSync", "RoutingBGP", "Route",
          "SelfIp", "Routing"} \cap (Simple \cup DOMAIN TwinOf) = {}
  BY DEF Simple, TwinOf
<1>3. \A c \in Simple : UpdatedAt(c) \in Nat /\ DeletedAt(c) \in Nat
  BY DEF Simple, UpdatedAt, DeletedAt
<1>4. \A c \in DOMAIN TwinOf : FirstAt(c) \in {11, 12} /\ FirstAt(c) \in Nat /\ ListGoesAt(c) \in Nat
  BY NetworkAssumption DEF FirstAt, ListGoesAt
<1> QED
  BY <1>1, <1>2, <1>3, <1>4

(* Is, class by class.                                                     *)
LEMMA IsUnfolds ==
  ASSUME NEW was, NEW to, NEW n, NEW m, NEW c, NEW i, NEW v
  PROVE  /\ c \in Simple => (Is(was, to, n, m, c, i, v) <=> v = SimpleIs(was, to, n, c, i))
         /\ c \in DOMAIN TwinOf => (Is(was, to, n, m, c, i, v) <=> v = ListIs(was, to, n, c, i))
<1>1. ASSUME c \in Simple
      PROVE  Is(was, to, n, m, c, i, v) <=> v = SimpleIs(was, to, n, c, i)
  <2>1. c \notin {"RouteDomain", "Tunnel", "VXLAN", "TrafficControl", "ConfigSync", "RoutingBGP",
                  "Route", "SelfIp"} \cup DOMAIN TwinOf
    BY <1>1, SimpleFacts
  <2> QED
    BY <1>1, <2>1 DEF Is
<1>2. ASSUME c \in DOMAIN TwinOf
      PROVE  Is(was, to, n, m, c, i, v) <=> v = ListIs(was, to, n, c, i)
  <2>1. c \notin {"RouteDomain", "Tunnel", "VXLAN", "TrafficControl", "ConfigSync", "RoutingBGP",
                  "Route", "SelfIp"} \cup Simple
    BY <1>2, SimpleFacts
  <2> QED
    BY <1>2, <2>1 DEF Is
<1> QED
  BY <1>1, <1>2

(* What an object may be is the same after a step that leaves its class.   *)
LEMMA IsStays ==
  ASSUME NEW was, NEW to, NEW n \in Nat, NEW m, NEW mm, NEW c, NEW i, NEW v,
         Still(n, c, m, mm), Is(was, to, n, m, c, i, v)
  PROVE  Is(was, to, n + 1, mm, c, i, v)
<1>1. CASE c \in Simple
  <2>1. /\ UpdatedAt(c) \in Nat /\ DeletedAt(c) \in Nat
        /\ n # UpdatedAt(c) /\ n # DeletedAt(c)
    BY <1>1, SimpleFacts DEF Still
  <2>2. (n > UpdatedAt(c) <=> n + 1 > UpdatedAt(c)) /\ (n > DeletedAt(c) <=> n + 1 > DeletedAt(c))
    BY <2>1
  <2>3. SimpleIs(was, to, n, c, i) = SimpleIs(was, to, n + 1, c, i)
    BY <2>2 DEF SimpleIs
  <2> QED
    BY <1>1, <2>3, IsUnfolds
<1>2. CASE c \in DOMAIN TwinOf
  <2>1. /\ FirstAt(c) \in Nat /\ ListGoesAt(c) \in Nat /\ c \notin Simple
        /\ n # FirstAt(c) /\ n # FirstAt(c) + 3 /\ n # ListGoesAt(c)
    BY <1>2, SimpleFacts DEF Still
  <2>2. /\ n > FirstAt(c) <=> n + 1 > FirstAt(c)
        /\ n > FirstAt(c) + 3 <=> n + 1 > FirstAt(c) + 3
        /\ n > ListGoesAt(c) <=> n + 1 > ListGoesAt(c)
    BY <2>1
  <2>3. ListIs(was, to, n, c, i) = ListIs(was, to, n + 1, c, i)
    BY <2>2 DEF ListIs
  <2> QED
    BY <1>2, <2>3, IsUnfolds
<1>3. CASE c \notin Simple /\ c \notin DOMAIN TwinOf
  <2>1. CASE c = "RouteDomain"
    <3>1. RouteDomainIs(was, to, n, i) = RouteDomainIs(was, to, n + 1, i)
      BY <2>1 DEF Still, RouteDomainIs
    <3> QED
      BY <1>3, <2>1, <3>1 DEF Is
  <2>2. CASE c = "Tunnel"
    <3>1. TunnelIs(was, to, n, i) = TunnelIs(was, to, n + 1, i)
      BY <2>2 DEF Still, TunnelIs
    <3> QED
      BY <1>3, <2>2, <3>1 DEF Is
  <2>3. CASE c = "VXLAN"
    <3>1. VxlanIs(was, to, n, i) = VxlanIs(was, to, n + 1, i)
      BY <2>3 DEF Still, VxlanIs
    <3> QED
      BY <1>3, <2>3, <3>1 DEF Is
  <2>4. CASE c = "TrafficControl"
    <3>1. n # 10
      BY <2>4 DEF Still
    <3>2. n \in {9, 10} => n + 1 \in {9, 10}
      BY <3>1
    <3> QED
      BY <1>3, <2>4, <3>2 DEF Is
  <2>5. CASE c = "ConfigSync"
    <3>1. n \notin {18, 28} /\ m.sync = mm.sync
      BY <2>5 DEF Still
    <3>2. n \in 19 .. 28 <=> n + 1 \in 19 .. 28
      BY <3>1
    <3> QED
      BY <1>3, <2>5, <3>1, <3>2 DEF Is
  <2>6. CASE c = "RoutingBGP"
    <3>1. BgpIs(was, to, n, i) = BgpIs(was, to, n + 1, i)
      BY <2>6 DEF Still, BgpIs
    <3> QED
      BY <1>3, <2>6, <3>1 DEF Is
  <2>7. CASE c = "Route"
    <3>1. n \notin {17, 29, 30, 31, 41} /\ (n < 30 => m.routes = mm.routes)
      BY <2>7 DEF Still
    <3>2. /\ n > 41 <=> n + 1 > 41
          /\ n > 31 <=> n + 1 > 31
          /\ n = 31 <=> n + 1 = 31
          /\ n \in 18 .. 29 <=> n + 1 \in 18 .. 29
          /\ n \in 18 .. 29 => n < 30
      BY <3>1
    <3>3. RouteIs(was, to, n, m, i) = RouteIs(was, to, n + 1, mm, i)
      BY <3>1, <3>2 DEF RouteIs
    <3> QED
      BY <1>3, <2>7, <3>3 DEF Is
  <2>8. CASE c = "SelfIp"
    <3>1. n \notin {20, 23, 24, 25, 26, 27, 42} /\ (n > 23 => m.matching = mm.matching)
      BY <2>8 DEF Still
    <3>2. /\ n > 42 <=> n + 1 > 42
          /\ n > 26 <=> n + 1 > 26
          /\ n > 25 <=> n + 1 > 25
          /\ n > 24 <=> n + 1 > 24
          /\ n > 20 <=> n + 1 > 20
          /\ n \in 24 .. 27 <=> n + 1 \in 24 .. 27
          /\ n \in 24 .. 27 \/ n > 24 => n > 23
      BY <3>1
    <3>3. SelfIpIs(was, to, n, m, i) = SelfIpIs(was, to, n + 1, mm, i)
      BY <3>1, <3>2 DEF SelfIpIs
    <3> QED
      BY <1>3, <2>8, <3>1, <3>2, <3>3 DEF Is
  <2>9. CASE c \notin {"RouteDomain", "Tunnel", "VXLAN", "TrafficControl", "ConfigSync",
                       "RoutingBGP", "Route", "SelfIp"}
    BY <1>3, <2>9 DEF Is
  <2> QED
    BY <2>1, <2>2, <2>3, <2>4, <2>5, <2>6, <2>7, <2>8, <2>9
<1> QED
  BY <1>1, <1>2, <1>3

-----------------------------------------------------------------------------
(* Before a step *)

(* Step n comes next: what handleSelfIp remembers, what is read and what   *)
(* is owed are as they are to be, and only chains nobody waits for are     *)
(* under way.                                                              *)
Ready(was, n) ==
  /\ Typed /\ was \in Device /\ n \in 1 .. 55 /\ before["TrafficControl"][Only] # None
  /\ DeviceFits(before, was) /\ DeviceFits(before, device) /\ ConfigFits(before, want)
  /\ doomed = [c \in DeclaredClass |-> Dropped(was, want, c)]
  /\ At(device, before, was, want, n, mem, cur, loose)
  /\ \A chain \in loose : LooseIs(device, was, want, n, chain)

(* Starting these chains is what step n is to do.                          *)
Leads(was, n, m, config, chains) ==
  At(device, before, was, want, n + 1, m, config, loose \cup chains)

(* What a step finds: an object is what it is to be unless the chains      *)
(* nobody waits for are about it.                                          *)
LEMMA Found ==
  ASSUME NEW was, NEW n, Ready(was, n)
  PROVE  /\ n \in Nat /\ device \in Device /\ want \in Config /\ cur \in Config
         /\ \A c \in Class, i \in Item : device[c][i] \in Values \cup {None}
         /\ \A c \in Class, i \in Item : was[c][i] \in Values \cup {None}
         /\ \A c \in DeclaredClass : /\ doomed[c] = Dropped(was, want, c)
                                     /\ New(was, want, c) \subseteq Item
                                     /\ Dropped(was, want, c) \subseteq Item
                                     /\ Going(was, want, c) \subseteq Item
                                     /\ \A i \in New(was, want, c) : want[c][i] \in Values
         /\ \A c \in DeclaredClass : c \notin DOMAIN TwinOf \/ n <= 44 =>
              /\ \A i \in Item : cur[c][i] = Seen(was, want)[c][i]
              /\ Update(c) = New(was, want, c)
         /\ \A c \in DeclaredClass : c \notin DOMAIN TwinOf =>
              /\ Seen(was, want)[c] = was[c]
              /\ \A i \in Item : cur[c][i] = was[c][i]
         /\ \A c \in Class, i \in Item : c \notin {"DagGlobals", "VXLAN"} \/ n <= 32 =>
              /\ Is(was, want, n, mem, c, i, device[c][i])
              /\ \A chain \in loose : ~Writes(chain, c, i)
         /\ Owes(device, was, want, n, mem, loose) /\ Remembers(was, want, n, mem)
<1>1. n \in Nat /\ device \in Device /\ want \in Config /\ cur \in Config /\ was \in Device
  BY DEF Ready, Typed
<1>2. /\ \A c \in Class, i \in Item : device[c][i] \in Values \cup {None}
      /\ \A c \in Class, i \in Item : was[c][i] \in Values \cup {None}
  BY <1>1, DeviceFacts
<1>3. \A c \in DeclaredClass : /\ doomed[c] = Dropped(was, want, c)
                               /\ New(was, want, c) \subseteq Item
                               /\ Dropped(was, want, c) \subseteq Item
                               /\ Going(was, want, c) \subseteq Item
                               /\ \A i \in New(was, want, c) : want[c][i] \in Values
  <2>1. \A c \in DeclaredClass : doomed[c] = Dropped(was, want, c)
    BY DEF Ready
  <2> QED
    BY <1>1, <2>1, ConfigFacts DEF New, Dropped, Going, Present
<1>4. Reads(was, want, n, cur)
  BY DEF Ready, At
<1>5. \A c \in DeclaredClass : c \notin DOMAIN TwinOf \/ n <= 44 =>
        /\ \A i \in Item : cur[c][i] = Seen(was, want)[c][i]
        /\ Update(c) = New(was, want, c)
  <2> SUFFICES ASSUME NEW c \in DeclaredClass, c \notin DOMAIN TwinOf \/ n <= 44
               PROVE  /\ \A i \in Item : cur[c][i] = Seen(was, want)[c][i]
                      /\ Update(c) = New(was, want, c)
    OBVIOUS
  <2>1. c \in DOMAIN TwinOf => ~(n > GoneAt(TwinOf[c]))
    <3>1. c \in DOMAIN TwinOf => GoneAt(TwinOf[c]) \in {44, 45, 46, 47}
      BY DEF TwinOf, GoneAt
    <3> QED
      BY <1>1, <3>1
  <2>2. \A i \in Item : cur[c][i] = Seen(was, want)[c][i]
    BY <1>4, <2>1 DEF Reads
  <2>3. Present(want, c) \subseteq Item
    BY DEF Present
  <2> QED
    BY <2>2, <2>3 DEF Update, New
<1>6. \A c \in DeclaredClass : c \notin DOMAIN TwinOf =>
        /\ Seen(was, want)[c] = was[c]
        /\ \A i \in Item : cur[c][i] = was[c][i]
  <2>1. \A c \in DeclaredClass : c \notin DOMAIN TwinOf => Seen(was, want)[c] = was[c]
    BY DEF Seen
  <2> QED
    BY <1>5, <2>1
<1>7. Owes(device, was, want, n, mem, loose) /\ Remembers(was, want, n, mem)
  BY DEF Ready, At
<1>8. ASSUME NEW c \in Class, NEW i \in Item, c \notin {"DagGlobals", "VXLAN"} \/ n <= 32
      PROVE  /\ Is(was, want, n, mem, c, i, device[c][i])
             /\ \A chain \in loose : ~Writes(chain, c, i)
  <2>1. \A chain \in loose : ~Writes(chain, c, i)
    <3>1. n <= 32 => ~(n > 32) /\ ~(n > 53)
      BY <1>1
    <3> QED
      BY <1>8, <3>1, LooseWrites DEF Ready
  <2> QED
    BY <1>7, <2>1 DEF Owes
<1> QED
  BY <1>1, <1>2, <1>3, <1>5, <1>6, <1>7, <1>8

(* The configuration that a step leaves alone is as read.                  *)
LEMMA ReadsOn ==
  ASSUME NEW was, NEW n, Ready(was, n)
  PROVE  Reads(was, want, n + 1, cur)
<1>1. n \in Nat /\ Reads(was, want, n, cur)
  BY DEF Ready, At
<1>2. \A c \in DOMAIN TwinOf : n > GoneAt(TwinOf[c]) => n + 1 > GoneAt(TwinOf[c])
  <2>1. \A c \in DOMAIN TwinOf : GoneAt(TwinOf[c]) \in {44, 45, 46, 47}
    BY DEF TwinOf, GoneAt
  <2> QED
    BY <1>1, <2>1
<1> QED
  BY <1>1, <1>2 DEF Reads

(* Step n makes a difference to these items of a class only.               *)
OnlyAbout(was, n, mm, c, items) ==
  /\ \A d \in Class \ {c} : Still(n, d, mem, mm)
  /\ \A i \in Item \ items, v \in Values \cup {None} :
       Is(was, want, n, mem, c, i, v) => Is(was, want, n + 1, mm, c, i, v)

(* A command for each of some items of a class that is there once. *)
LEMMA EachStep ==
  ASSUME NEW was, NEW n, Ready(was, n), NEW mm, NEW op, NEW c \in Class, c \notin DOMAIN TwinOf,
         NEW items, items \subseteq Item, NEW values,
         c \notin {"DagGlobals", "VXLAN"} \/ n <= 32,
         Remembers(was, want, n + 1, mm),
         \A i \in items :
           /\ values[i] \in Values \cup {None}
           /\ CommandFits(before, Do(op, c, i, values[i]))
           /\ \/ Is(was, want, n + 1, mm, c, i, values[i])
              \/ op = "delete" /\ c = "SelfIp" /\ values[i] = None /\ device["SelfIp"][i] = None
           /\ c = "VXLAN" => values[i] = None \/ (n = 8 /\ NewVxlan(was, want) # {})
           /\ c = "Tunnel" => values[i] = None \/ ~(n >= 53),
         OnlyAbout(was, n, mm, c, items)
  PROVE  Leads(was, n, mm, cur, Each(op, c, items, values))
<1>1. /\ n \in Nat /\ Owes(device, was, want, n, mem, loose)
      /\ \A d \in Class, i \in Item : device[d][i] \in Values \cup {None}
      /\ \A chain \in loose, i \in Item : ~Writes(chain, c, i)
  BY Found
<1>2. \A d \in Class, i \in Item, v \in Values \cup {None} :
        Is(was, want, n, mem, d, i, v) /\ ~(i \in items /\ d = c)
          => Is(was, want, n + 1, mm, d, i, v)
  BY <1>1, IsStays DEF OnlyAbout
<1>3. Owes(device, was, want, n + 1, mm, loose \cup Each(op, c, items, values))
  BY <1>1, <1>2, EachBegun
<1>4. ASSUME NEW i \in items
      PROVE  LET chain == <<Awaited(<<Do(op, c, i, values[i])>>)>>
             IN /\ ChainFits(before, chain) /\ ChainIsAt(was, want, n + 1, chain)
                /\ Head(chain).awaited
  <2>1. n = 8 => n + 1 = 9
    OBVIOUS
  <2>2. n + 1 > 53 => n >= 53
    BY <1>1
  <2>3. ChainIsAt(was, want, n + 1, <<Awaited(<<Do(op, c, i, values[i])>>)>>)
    BY <2>1, <2>2, CommandIsAt
  <2>4. ChainFits(before, <<Awaited(<<Do(op, c, i, values[i])>>)>>)
    BY CommandFitsChain
  <2>5. \A commands : Awaited(commands).awaited
    BY DEF Awaited
  <2>6. \A x : Head(<<x>>) = x
    OBVIOUS
  <2> QED
    BY <2>3, <2>4, <2>5, <2>6
<1>5. \A chain \in Each(op, c, items, values) :
        /\ ChainFits(before, chain) /\ ChainIsAt(was, want, n + 1, chain) /\ Head(chain).awaited
  BY <1>4 DEF Each
<1>6. Reads(was, want, n + 1, cur)
  BY ReadsOn
<1>7. At(device, before, was, want, n, mem, cur, loose)
      /\ \A chain \in loose : LooseIs(device, was, want, n, chain)
  BY DEF Ready
<1> DEFINE chains == Each(op, c, items, values)
<1> HIDE DEF chains
<1>8. At(device, before, was, want, n + 1, mm, cur, loose \cup chains)
  BY <1>1, <1>3, <1>5, <1>6, <1>7, StepAt DEF chains
<1> QED
  BY <1>8 DEF Leads, chains

(* Commands about objects with names.                                      *)
LEMMA PlainFits ==
  ASSUME NEW first, NEW op, NEW c \in Class, NEW i, NEW v, c \notin SingleClass,
         c \notin DOMAIN TwinOf,
         v # None => Fits(c, i, v)
  PROVE  CommandFits(first, Do(op, c, i, v))
  BY DEF CommandFits, Do

-----------------------------------------------------------------------------
(* The plan, step by step *)

(* The plan of networkHandler.js and that of deleteHandler.js, by number.  *)
LEMMA PlanIs ==
  /\ Len(NetworkPlan) = 39 /\ Len(DeletePlan) = 16 /\ LastStep = 55
  /\ NetworkPlan[1] = "Trunk" /\ NetworkPlan[2] = "VLAN" /\ NetworkPlan[3] = "RouteDomain0"
  /\ NetworkPlan[4] = "RouteDomain" /\ NetworkPlan[5] = "DNS_Resolver"
  /\ NetworkPlan[6] = "tunnelDelete" /\ NetworkPlan[7] = "vxlanDelete"
  /\ NetworkPlan[8] = "vxlanCreate" /\ NetworkPlan[9] = "tunnelCreate"
  /\ NetworkPlan[10] = "acceptIpOptions" /\ NetworkPlan[11] = "FirewallAddressList"
  /\ NetworkPlan[12] = "FirewallPortList" /\ NetworkPlan[13] = "FirewallPolicy"
  /\ NetworkPlan[14] = "NetAddressList" /\ NetworkPlan[15] = "NetPortList"
  /\ NetworkPlan[16] = "ManagementIpFirewall"
  /\ NetworkPlan[17] = "floatingRoutes" /\ NetworkPlan[18] = "floatingDepends"
  /\ NetworkPlan[19] = "floatingMatching" /\ NetworkPlan[20] = "floatingDelete"
  /\ NetworkPlan[21] = "localRoutes" /\ NetworkPlan[22] = "localDepends"
  /\ NetworkPlan[23] = "localMatching" /\ NetworkPlan[24] = "localDelete"
  /\ NetworkPlan[25] = "localCreate" /\ NetworkPlan[26] = "floatingCreate"
  /\ NetworkPlan[27] = "floatingRecall" /\ NetworkPlan[28] = "syncRecall"
  /\ NetworkPlan[29] = "routesRecall" /\ NetworkPlan[30] = "routeDelete"
  /\ NetworkPlan[31] = "routeCreate" /\ NetworkPlan[32] = "DagGlobals"
  /\ NetworkPlan[33] = "enableRouting" /\ NetworkPlan[34] = "RoutingAsPath"
  /\ NetworkPlan[35] = "RoutingAccessList" /\ NetworkPlan[36] = "RoutingPrefixList"
  /\ NetworkPlan[37] = "RouteMap" /\ NetworkPlan[38] = "bgpDelete" /\ NetworkPlan[39] = "bgpCreate"
  BY DEF NetworkPlan, DeletePlan, LastStep

LEMMA DeletePlanIs ==
  /\ DeletedClass(40) = "DNS_Resolver" /\ DeletedClass(41) = "Route"
  /\ DeletedClass(42) = "SelfIp" /\ DeletedClass(43) = "FirewallPolicy"
  /\ DeletedClass(44) = "FirewallAddressList" /\ DeletedClass(45) = "FirewallPortList"
  /\ DeletedClass(46) = "NetAddressList" /\ DeletedClass(47) = "NetPortList"
  /\ DeletedClass(48) = "VLAN" /\ DeletedClass(49) = "Trunk" /\ DeletedClass(50) = "RouteMap"
  /\ DeletedClass(51) = "RoutingPrefixList" /\ DeletedClass(52) = "RouteDomain"
  /\ DeletedClass(53) = "Tunnel" /\ DeletedClass(54) = "RoutingAccessList"
  /\ DeletedClass(55) = "RoutingAsPath"
<1>1. /\ 40 - 39 = 1 /\ 41 - 39 = 2 /\ 42 - 39 = 3 /\ 43 - 39 = 4 /\ 44 - 39 = 5
      /\ 45 - 39 = 6 /\ 46 - 39 = 7 /\ 47 - 39 = 8 /\ 48 - 39 = 9 /\ 49 - 39 = 10
      /\ 50 - 39 = 11 /\ 51 - 39 = 12 /\ 52 - 39 = 13 /\ 53 - 39 = 14 /\ 54 - 39 = 15
      /\ 55 - 39 = 16
  OBVIOUS
<1>2. \A n : DeletedClass(n) = DeletePlan[n - 39]
  BY PlanIs DEF DeletedClass
<1> QED
  BY <1>1, <1>2 DEF DeletePlan

(* A step of the network handler, and one of the delete handler.           *)
LEMMA NetworkStep ==
  ASSUME NEW n \in 1 .. 39
  PROVE  /\ Started(n) = Chains(NetworkPlan[n])
         /\ MemoryAfter(n) = Remember(NetworkPlan[n])
         /\ ConfigAfter(n) = cur
         /\ n \notin {17, 18, 21, 22} => MemoryAfter(n) = mem
<1>1. n <= Len(NetworkPlan)
  BY PlanIs
<1>2. n \notin {17, 18, 21, 22} => Remember(NetworkPlan[n]) = mem
  BY DEF NetworkPlan, Remember
<1> QED
  BY <1>1, <1>2 DEF Started, MemoryAfter, ConfigAfter

LEMMA DeleteStep ==
  ASSUME NEW n \in 40 .. 55
  PROVE  /\ Started(n) = Deletion(DeletedClass(n)) /\ MemoryAfter(n) = mem
         /\ ConfigAfter(n) = WithoutTwins(DeletedClass(n))
         /\ DeletedClass(n) \notin DOMAIN TwinOf => ConfigAfter(n) = cur
<1>1. ~(n <= Len(NetworkPlan))
  BY PlanIs
<1>2. Started(n) = Deletion(DeletedClass(n)) /\ MemoryAfter(n) = mem
      /\ ConfigAfter(n) = WithoutTwins(DeletedClass(n))
  BY <1>1 DEF Started, MemoryAfter, ConfigAfter
<1> QED
  BY <1>2 DEF WithoutTwins

(* Most steps leave the memory alone.                                      *)
LEMMA RemembersOn ==
  ASSUME NEW was, NEW n, Ready(was, n), n \notin {17, 18, 21, 22}
  PROVE  Remembers(was, want, n + 1, mem)
<1>1. n \in Nat /\ Remembers(was, want, n, mem)
  BY Found
<1>2. /\ n + 1 <= 17 => n <= 17
      /\ n + 1 <= 18 => n <= 18
      /\ n + 1 <= 22 => n <= 22
      /\ n + 1 \in 18 .. 21 => n \in 18 .. 21
      /\ n + 1 > 21 => n > 21
      /\ n + 1 > 22 => n > 22
  BY <1>1
<1> QED
  BY <1>1, <1>2 DEF Remembers

(* Nothing else is made or deleted in the steps of a simple class.         *)
LEMMA UpdateStill ==
  ASSUME NEW c \in Simple, NEW m
  PROVE  /\ \A d \in Class \ {c} : Still(UpdatedAt(c), d, m, m)
         /\ UpdatedAt(c) + 1 > UpdatedAt(c) /\ ~(UpdatedAt(c) > UpdatedAt(c))
         /\ ~(UpdatedAt(c) > DeletedAt(c)) /\ ~(UpdatedAt(c) + 1 > DeletedAt(c))
         /\ UpdatedAt(c) \in 1 .. 39 /\ UpdatedAt(c) \notin {17, 18, 21, 22}
         /\ UpdatedAt(c) <= 32 \/ c # "DagGlobals"
<1>1. \A d \in Class \ {c} : d \in Simple => UpdatedAt(c) \notin {UpdatedAt(d), DeletedAt(d)}
  BY DEF Simple, UpdatedAt, DeletedAt
<1>2. \A d \in DOMAIN TwinOf : UpdatedAt(c) \notin {FirstAt(d), FirstAt(d) + 3, ListGoesAt(d)}
  BY NetworkAssumption DEF Simple, UpdatedAt, FirstAt, ListGoesAt
<1>3. UpdatedAt(c) \in {1, 2, 5, 13, 16, 32, 34, 35, 36, 37}
      /\ (UpdatedAt(c) <= 32 \/ c # "DagGlobals")
      /\ UpdatedAt(c) < DeletedAt(c) /\ DeletedAt(c) \in Nat
  BY DEF Simple, UpdatedAt, DeletedAt
<1>4. \A d \in Class \ {c} : Still(UpdatedAt(c), d, m, m)
  BY <1>1, <1>2, <1>3 DEF Still
<1> QED
  BY <1>3, <1>4

LEMMA DeleteStill ==
  ASSUME NEW c \in Simple, c \notin {"ManagementIpFirewall", "DagGlobals"}, NEW m
  PROVE  /\ \A d \in Class \ {c} : Still(DeletedAt(c), d, m, m)
         /\ DeletedAt(c) + 1 > DeletedAt(c) /\ ~(DeletedAt(c) > DeletedAt(c))
         /\ DeletedAt(c) > UpdatedAt(c) /\ DeletedAt(c) + 1 > UpdatedAt(c)
         /\ DeletedAt(c) \in 40 .. 55 /\ DeletedAt(c) \notin {17, 18, 21, 22}
<1>1. \A d \in Class \ {c} : d \in Simple => DeletedAt(c) \notin {UpdatedAt(d), DeletedAt(d)}
  BY DEF Simple, UpdatedAt, DeletedAt
<1>2. DeletedAt(c) \in {40, 43, 48, 49, 50, 51, 54, 55}
      /\ UpdatedAt(c) < DeletedAt(c) /\ UpdatedAt(c) \in Nat
  BY DEF Simple, UpdatedAt, DeletedAt
<1>3. \A d \in DOMAIN TwinOf : /\ FirstAt(d) \in {11, 12}
                               /\ ListGoesAt(d) \in {44, 45, 46, 47}
  BY NetworkAssumption DEF FirstAt, ListGoesAt
<1>4. \A d \in Class \ {c} : Still(DeletedAt(c), d, m, m)
  BY <1>1, <1>2, <1>3 DEF Still
<1> QED
  BY <1>2, <1>4

(* The step leaves what is to be before the next one. *)
Goes(was, n) == Leads(was, n, MemoryAfter(n), ConfigAfter(n), Started(n))

(* The steps that make the objects of a simple class.                      *)
LEMMA SimpleUpdate ==
  ASSUME NEW was, NEW n, Ready(was, n), NEW c \in Simple, n = UpdatedAt(c), NEW op
  PROVE  Leads(was, n, mem, cur, Each(op, c, Update(c), want[c]))
<1>1. /\ c \in DeclaredClass /\ c \in Class /\ c \notin DOMAIN TwinOf
      /\ c \notin {"RouteDomain", "Tunnel", "VXLAN", "TrafficControl", "SelfIp"}
  BY SimpleFacts, ClassFacts
<1>2. /\ \A d \in Class \ {c} : Still(n, d, mem, mem)
      /\ n + 1 > UpdatedAt(c) /\ ~(n > UpdatedAt(c))
      /\ ~(n > DeletedAt(c)) /\ ~(n + 1 > DeletedAt(c))
      /\ n \notin {17, 18, 21, 22} /\ (n <= 32 \/ c # "DagGlobals")
  BY UpdateStill
<1>3. /\ Update(c) = New(was, want, c) /\ New(was, want, c) \subseteq Item
      /\ \A i \in New(was, want, c) : want[c][i] \in Values
  BY <1>1, Found
<1>4. \A i \in New(was, want, c) : Is(was, want, n + 1, mem, c, i, want[c][i])
  BY <1>2, IsUnfolds DEF SimpleIs
<1>5. \A i \in Item \ New(was, want, c), v \in Values \cup {None} :
        Is(was, want, n, mem, c, i, v) => Is(was, want, n + 1, mem, c, i, v)
  BY <1>2, IsUnfolds DEF SimpleIs
<1>6. ASSUME NEW i \in New(was, want, c)
      PROVE  CommandFits(before, Do(op, c, i, want[c][i]))
  <2>1. want[c][i] # None /\ i \in Item
    BY <1>3, NetworkAssumption
  <2>2. Fits(c, i, want[c][i]) /\ (c \in SingleClass => before[c][i] # None)
    BY <1>1, <2>1 DEF Ready, ConfigFits
  <2> QED
    BY <1>1, <2>1, <2>2 DEF CommandFits, Do
<1>7. Remembers(was, want, n + 1, mem)
  BY <1>2, RemembersOn
<1>8. \A i \in Update(c) :
        /\ want[c][i] \in Values \cup {None}
        /\ CommandFits(before, Do(op, c, i, want[c][i]))
        /\ Is(was, want, n + 1, mem, c, i, want[c][i])
  BY <1>3, <1>4, <1>6
<1>9. \A i \in Item \ Update(c), v \in Values \cup {None} :
        Is(was, want, n, mem, c, i, v) => Is(was, want, n + 1, mem, c, i, v)
  BY <1>3, <1>5
<1>10. Update(c) \subseteq Item
  BY <1>3
<1>11. OnlyAbout(was, n, mem, c, Update(c))
  BY <1>2, <1>9 DEF OnlyAbout
<1> QED
  BY <1>1, <1>2, <1>7, <1>8, <1>10, <1>11, EachStep

(* The items that the delete handler deletes.                              *)
LEMMA GoingIs ==
  ASSUME NEW was, NEW n, Ready(was, n), NEW c \in DeclaredClass, c \notin DOMAIN TwinOf
  PROVE  Items(c) = Going(was, want, c)
<1>1. /\ doomed[c] = Dropped(was, want, c) /\ Seen(was, want)[c] = was[c]
      /\ \A i \in Item : cur[c][i] = was[c][i]
  BY Found
<1>2. want[c] = Nothing => Present(cur, c) = Dropped(was, want, c)
  BY <1>1 DEF Present, Dropped, Nothing
<1> QED
  BY <1>1, <1>2 DEF Items, Going

(* The steps that delete them.                                             *)
LEMMA SimpleDelete ==
  ASSUME NEW was, NEW n, Ready(was, n), NEW c \in Simple,
         c \notin {"ManagementIpFirewall", "DagGlobals"}, n = DeletedAt(c)
  PROVE  Leads(was, n, mem, cur, Each("clear", c, Items(c), Nothing))
<1>1. /\ c \in DeclaredClass /\ c \in Class /\ c \notin DOMAIN TwinOf
      /\ c \notin {"RouteDomain", "Tunnel", "VXLAN", "TrafficControl", "SelfIp"}
  BY SimpleFacts, ClassFacts
<1>2. /\ \A d \in Class \ {c} : Still(n, d, mem, mem)
      /\ n + 1 > DeletedAt(c) /\ ~(n > DeletedAt(c))
      /\ n > UpdatedAt(c) /\ n + 1 > UpdatedAt(c)
      /\ n \notin {17, 18, 21, 22}
  BY DeleteStill
<1>3. Items(c) = Going(was, want, c) /\ Going(was, want, c) \subseteq Item
  BY <1>1, GoingIs, Found
<1>4. \A i \in Items(c) : Nothing[i] = None /\ Is(was, want, n + 1, mem, c, i, None)
  BY <1>2, <1>3, IsUnfolds DEF SimpleIs, Nothing
<1>5. \A i \in Item \ Items(c), v \in Values \cup {None} :
        Is(was, want, n, mem, c, i, v) => Is(was, want, n + 1, mem, c, i, v)
  BY <1>2, <1>3, IsUnfolds DEF SimpleIs
<1>6. \A i : CommandFits(before, Do("clear", c, i, None))
  <2>1. c \notin SingleClass
    BY DEF Simple, SingleClass
  <2> QED
    BY <1>1, <2>1, PlainFits
<1>7. Remembers(was, want, n + 1, mem)
  BY <1>2, RemembersOn
<1>8. \A i \in Items(c) :
        /\ Nothing[i] \in Values \cup {None}
        /\ CommandFits(before, Do("clear", c, i, Nothing[i]))
        /\ Is(was, want, n + 1, mem, c, i, Nothing[i])
  BY <1>4, <1>6
<1>9. Items(c) \subseteq Item
  BY <1>3
<1>10. OnlyAbout(was, n, mem, c, Items(c))
  BY <1>2, <1>5 DEF OnlyAbout
<1> QED
  BY <1>1, <1>2, <1>7, <1>8, <1>9, <1>10, EachStep

LEMMA SimpleSteps ==
  ASSUME NEW was, NEW n, Ready(was, n)
  PROVE  n \in {1, 2, 5, 13, 16, 34, 35, 40, 43, 48, 49, 50, 51, 54, 55} => Goes(was, n)
<1>1. ASSUME NEW c \in Simple, n = UpdatedAt(c), n # 32, n \notin {36, 37}
      PROVE  Goes(was, n)
  <2>1. n \in 1 .. 39 /\ n \notin {17, 18, 21, 22}
    BY <1>1, UpdateStill
  <2>2. \E op : Started(n) = Each(op, c, Update(c), want[c])
    <3>1. Started(n) = Chains(NetworkPlan[n])
      BY <2>1, NetworkStep
    <3>2. n = 16 => Chains(NetworkPlan[n]) = Each("set", c, Update(c), want[c])
      <4>1. n = 16 => c = "ManagementIpFirewall"
        <5>1. \A d \in Simple : UpdatedAt(d) = 16 => d = "ManagementIpFirewall"
          BY DEF UpdatedAt, Simple
        <5> QED
          BY <1>1, <5>1
      <4> QED
        BY <4>1, PlanIs DEF Chains, handleManagementIpFirewall
    <3>3. n # 16 => Chains(NetworkPlan[n]) = CreateOrModify(c)
      <4>1. c = "Trunk" => Chains(NetworkPlan[n]) = CreateOrModify(c)
        BY <1>1, PlanIs, Zenon DEF UpdatedAt, Chains, handleTrunk
      <4>2. c = "VLAN" => Chains(NetworkPlan[n]) = CreateOrModify(c)
        BY <1>1, PlanIs, Zenon DEF UpdatedAt, Chains, handleVlan
      <4>3. c = "DNS_Resolver" => Chains(NetworkPlan[n]) = CreateOrModify(c)
        BY <1>1, PlanIs, Zenon DEF UpdatedAt, Chains, handleDnsResolver
      <4>4. c = "FirewallPolicy" => Chains(NetworkPlan[n]) = CreateOrModify(c)
        BY <1>1, PlanIs, Zenon DEF UpdatedAt, Chains, handleFirewallPolicy
      <4>5. c = "RoutingAsPath" => Chains(NetworkPlan[n]) = CreateOrModify(c)
        BY <1>1, PlanIs, Zenon DEF UpdatedAt, Chains, handleRoutingAsPath
      <4>6. c = "RoutingAccessList" => Chains(NetworkPlan[n]) = CreateOrModify(c)
        BY <1>1, PlanIs, Zenon DEF UpdatedAt, Chains, handleRoutingAccessList
      <4>7. c = "ManagementIpFirewall" => n = 16
        BY <1>1 DEF UpdatedAt
      <4>8. c = "DagGlobals" => n = 32
        BY <1>1 DEF UpdatedAt
      <4>9. c = "RoutingPrefixList" => n = 36
        BY <1>1 DEF UpdatedAt
      <4>10. c = "RouteMap" => n = 37
        BY <1>1 DEF UpdatedAt
      <4> QED
        BY <1>1, <4>1, <4>2, <4>3, <4>4, <4>5, <4>6, <4>7, <4>8, <4>9, <4>10 DEF Simple
    <3> QED
      BY <3>1, <3>2, <3>3 DEF CreateOrModify
  <2> QED
    BY <1>1, <2>1, <2>2, NetworkStep, SimpleUpdate DEF Goes
<1>2. ASSUME NEW c \in Simple, c \notin {"ManagementIpFirewall", "DagGlobals"}, n = DeletedAt(c)
      PROVE  Goes(was, n)
  <2>1. n \in 40 .. 55
    BY <1>2, DeleteStill
  <2>2. DeletedClass(n) = c
    BY <1>2, DeletePlanIs DEF DeletedAt, Simple
  <2>3. c \notin DOMAIN TwinOf
    BY SimpleFacts
  <2>4. Deletion(c) = Each("clear", c, Items(c), Nothing)
    <3>1. c # "RouteDomain" /\ c # "Tunnel"
      BY SimpleFacts
    <3> QED
      BY <2>3, <3>1 DEF Deletion
  <2> QED
    BY <1>2, <2>1, <2>2, <2>3, <2>4, DeleteStep, SimpleDelete DEF Goes
<1>3. n \in {1, 2, 5, 13, 16, 34, 35} => \E c \in Simple : n = UpdatedAt(c)
  BY DEF Simple, UpdatedAt
<1>4. n \in {40, 43, 48, 49, 50, 51, 54, 55} =>
        \E c \in Simple \ {"ManagementIpFirewall", "DagGlobals"} : n = DeletedAt(c)
  BY DEF Simple, DeletedAt
<1> QED
  BY <1>1, <1>2, <1>3, <1>4

(* The other steps leave these classes alone. *)
LEMMA Elsewhere ==
  ASSUME NEW n \in {3, 4, 6, 7, 8, 9, 10} \cup (17 .. 31) \cup {33, 38, 39, 41, 42, 52, 53},
         NEW d \in Simple \cup DOMAIN TwinOf, NEW m, NEW mm
  PROVE  Still(n, d, m, mm)
<1>1. d \in Simple => n \notin {UpdatedAt(d), DeletedAt(d)}
  <2>1. d \in Simple => /\ UpdatedAt(d) \in {1, 2, 5, 13, 16, 32, 34, 35, 36, 37}
                        /\ DeletedAt(d) \in {40, 43, 48, 49, 50, 51, 54, 55, 56}
    BY DEF Simple, UpdatedAt, DeletedAt
  <2> QED
    BY <2>1
<1>2. d \in DOMAIN TwinOf => n \notin {FirstAt(d), FirstAt(d) + 3, ListGoesAt(d)}
  <2>1. d \in DOMAIN TwinOf => FirstAt(d) \in {11, 12} /\ ListGoesAt(d) \in {44, 45, 46, 47}
    BY NetworkAssumption DEF FirstAt, ListGoesAt
  <2> QED
    BY <2>1
<1> QED
  BY <1>1, <1>2, SimpleFacts DEF Still

(* A step that makes what is wanted of objects with names. *)
LEMMA MakeStep ==
  ASSUME NEW was, NEW n, Ready(was, n), NEW op,
         NEW c \in DeclaredClass, c \notin DOMAIN TwinOf, c \notin SingleClass,
         NEW items, items \subseteq New(was, want, c),
         n \notin {17, 18, 21, 22},
         c = "Tunnel" => ~(n >= 53),
         \A i \in items : Is(was, want, n + 1, mem, c, i, want[c][i]),
         OnlyAbout(was, n, mem, c, items)
  PROVE  Leads(was, n, mem, cur, Each(op, c, items, want[c]))
<1>1. /\ New(was, want, c) \subseteq Item
      /\ \A i \in New(was, want, c) : want[c][i] \in Values
  BY Found
<1>2. ASSUME NEW i \in items
      PROVE  CommandFits(before, Do(op, c, i, want[c][i]))
  <2>1. want[c][i] # None /\ i \in Item
    BY <1>1, NetworkAssumption
  <2>2. Fits(c, i, want[c][i])
    BY <2>1 DEF Ready, ConfigFits
  <2> QED
    BY <2>2, PlainFits, ClassFacts
<1>3. Remembers(was, want, n + 1, mem)
  BY RemembersOn
<1>4. c \in Class /\ c \notin {"DagGlobals", "VXLAN"}
  <2>1. "DagGlobals" \in SingleClass /\ "VXLAN" \notin DeclaredClass
    BY DEF SingleClass, DeclaredClass, PlainClass, ListClass
  <2> QED
    BY <2>1, ClassFacts
<1>5. \A i \in items :
        /\ want[c][i] \in Values \cup {None}
        /\ CommandFits(before, Do(op, c, i, want[c][i]))
        /\ Is(was, want, n + 1, mem, c, i, want[c][i])
  BY <1>1, <1>2
<1>6. items \subseteq Item
  BY <1>1
<1> QED
  BY <1>3, <1>4, <1>5, <1>6, EachStep

(* A step that deletes objects. *)
LEMMA TakeStep ==
  ASSUME NEW was, NEW n, Ready(was, n), NEW op, NEW mm,
         NEW c \in Class, c \notin DOMAIN TwinOf, c \notin SingleClass,
         c # "VXLAN" \/ n <= 32,
         NEW items, items \subseteq Item,
         Remembers(was, want, n + 1, mm),
         \A i \in items :
           \/ Is(was, want, n + 1, mm, c, i, None)
           \/ op = "delete" /\ c = "SelfIp" /\ device["SelfIp"][i] = None,
         OnlyAbout(was, n, mm, c, items)
  PROVE  Leads(was, n, mm, cur, Each(op, c, items, Nothing))
<1>1. \A i \in items : Nothing[i] = None
  BY DEF Nothing
<1>2. \A i \in items : CommandFits(before, Do(op, c, i, None))
  BY PlainFits
<1>3. c \notin {"DagGlobals", "VXLAN"} \/ n <= 32
  BY DEF SingleClass
<1>4. \A i \in items :
        /\ Nothing[i] \in Values \cup {None}
        /\ CommandFits(before, Do(op, c, i, Nothing[i]))
        /\ \/ Is(was, want, n + 1, mm, c, i, Nothing[i])
           \/ op = "delete" /\ c = "SelfIp" /\ Nothing[i] = None /\ device["SelfIp"][i] = None
        /\ c = "VXLAN" => Nothing[i] = None
        /\ c = "Tunnel" => Nothing[i] = None
  BY <1>1, <1>2
<1> QED
  BY <1>3, <1>4, EachStep

(* A step that starts nothing. *)
LEMMA NoStep ==
  ASSUME NEW was, NEW n, Ready(was, n), NEW mm,
         Remembers(was, want, n + 1, mm),
         \A d \in Class : Still(n, d, mem, mm)
  PROVE  Leads(was, n, mm, cur, {})
<1>1. n \in Nat /\ Owes(device, was, want, n, mem, loose)
      /\ \A d \in Class, i \in Item : device[d][i] \in Values \cup {None}
  BY Found
<1>2. \A d \in Class, i \in Item, v \in Values \cup {None} :
        Is(was, want, n, mem, d, i, v) => Is(was, want, n + 1, mm, d, i, v)
  BY <1>1, IsStays
<1>3. Owes(device, was, want, n + 1, mm, loose \cup {})
  BY <1>1, <1>2, NothingBegun
<1>4. Reads(was, want, n + 1, cur)
  BY ReadsOn
<1>5. At(device, before, was, want, n, mem, cur, loose)
      /\ \A chain \in loose : LooseIs(device, was, want, n, chain)
  BY DEF Ready
<1>6. At(device, before, was, want, n + 1, mm, cur, loose \cup {})
  BY <1>1, <1>3, <1>4, <1>5, StepAt
<1> QED
  BY <1>6 DEF Leads

(* Is, for the other classes.                                              *)
LEMMA IsUnfoldsElse ==
  ASSUME NEW was, NEW to, NEW n, NEW m, NEW i, NEW v
  PROVE  /\ Is(was, to, n, m, "RouteDomain", i, v) <=> v = RouteDomainIs(was, to, n, i)
         /\ Is(was, to, n, m, "Tunnel", i, v) <=> v = TunnelIs(was, to, n, i)
         /\ Is(was, to, n, m, "VXLAN", i, v) <=> v = VxlanIs(was, to, n, i)
         /\ Is(was, to, n, m, "RoutingBGP", i, v) <=> v = BgpIs(was, to, n, i)
         /\ Is(was, to, n, m, "Route", i, v) <=> v = RouteIs(was, to, n, m, i)
         /\ Is(was, to, n, m, "Routing", i, v)
         /\ Is(was, to, n, m, "ConfigSync", i, v) <=>
              v = IF n \in 19 .. 28 /\ i = Only /\ m.sync # None THEN None ELSE was["ConfigSync"][i]
         /\ Is(was, to, n, m, "SelfIp", i, v) <=>
              /\ v = SelfIpIs(was, to, n, m, i)
              /\ n > 24 => i \notin m.matching \cap Changing(was, to, "local")
         /\ Is(was, to, n, m, "TrafficControl", i, v) <=>
              \/ n \in {9, 10} /\ i = Only /\ NewVxlan(was, to) # {}
              \/ v = to["TrafficControl"][i]
<1>1. \A c \in {"RouteDomain", "Tunnel", "VXLAN", "TrafficControl", "ConfigSync", "RoutingBGP",
                "Route", "SelfIp", "Routing"} : c \notin Simple /\ c \notin DOMAIN TwinOf
  BY SimpleFacts
<1>2. /\ Is(was, to, n, m, "RouteDomain", i, v) <=> v = RouteDomainIs(was, to, n, i)
      /\ Is(was, to, n, m, "Tunnel", i, v) <=> v = TunnelIs(was, to, n, i)
      /\ Is(was, to, n, m, "VXLAN", i, v) <=> v = VxlanIs(was, to, n, i)
      /\ Is(was, to, n, m, "RoutingBGP", i, v) <=> v = BgpIs(was, to, n, i)
      /\ Is(was, to, n, m, "Route", i, v) <=> v = RouteIs(was, to, n, m, i)
      /\ Is(was, to, n, m, "Routing", i, v)
  BY <1>1 DEF Is
<1>3. Is(was, to, n, m, "ConfigSync", i, v) <=>
        v = IF n \in 19 .. 28 /\ i = Only /\ m.sync # None THEN None ELSE was["ConfigSync"][i]
  BY <1>1 DEF Is
<1>4. /\ Is(was, to, n, m, "SelfIp", i, v) <=>
           /\ v = SelfIpIs(was, to, n, m, i)
           /\ n > 24 => i \notin m.matching \cap Changing(was, to, "local")
      /\ Is(was, to, n, m, "TrafficControl", i, v) <=>
           \/ n \in {9, 10} /\ i = Only /\ NewVxlan(was, to) # {}
           \/ v = to["TrafficControl"][i]
  BY <1>1 DEF Is
<1> QED
  BY <1>2, <1>3, <1>4

(* What the steps start.                                                   *)
LEMMA ChainsAre ==
  /\ Chains("RouteDomain0") = RouteDomain0 /\ Chains("RouteDomain") = RouteDomains
  /\ Chains("tunnelDelete") = Each("delete", "Tunnel", Recreated, Nothing)
  /\ Chains("vxlanDelete") = Each("delete", "VXLAN", VxlanGoing, Nothing)
  /\ Chains("vxlanCreate") = Each("createOrModify", "VXLAN", VxlanTunnels, VxlanProfiles)
  /\ Chains("tunnelCreate") = CreateOrModify("Tunnel")
  /\ Chains("acceptIpOptions") = AcceptIpOptions
  /\ Chains("FirewallAddressList") = CreateOrModify("FirewallAddressList")
  /\ Chains("FirewallPortList") = CreateOrModify("FirewallPortList")
  /\ Chains("NetAddressList") = CreateOrModify("NetAddressList")
  /\ Chains("NetPortList") = CreateOrModify("NetPortList")
  /\ Chains("routeDelete") = Transaction(Commands("delete", "Route", Moved, Nothing))
  /\ Chains("routeCreate") = RoutesAnew
  /\ Chains("DagGlobals") = handleDagGlobals
  /\ Chains("enableRouting") = handleEnableRouting
  /\ Chains("RoutingPrefixList") = EntriesLast("RoutingPrefixList")
  /\ Chains("RouteMap") = EntriesLast("RouteMap")
  /\ Chains("bgpDelete") = Each("delete", "RoutingBGP", GoingBgp, Nothing)
  /\ Chains("bgpCreate") = CreateOrModify("RoutingBGP")
  /\ \A step \in SelfIpStep : Chains(step) = SelfIpChains(step)
<1>1. \A step \in SelfIpStep : Chains(step) = SelfIpChains(step)
  BY DEF SelfIpStep, Chains
<1>2. /\ Chains("RouteDomain0") = RouteDomain0 /\ Chains("RouteDomain") = RouteDomains
      /\ Chains("tunnelDelete") = Each("delete", "Tunnel", Recreated, Nothing)
      /\ Chains("vxlanDelete") = Each("delete", "VXLAN", VxlanGoing, Nothing)
      /\ Chains("vxlanCreate") = Each("createOrModify", "VXLAN", VxlanTunnels, VxlanProfiles)
      /\ Chains("tunnelCreate") = CreateOrModify("Tunnel")
      /\ Chains("acceptIpOptions") = AcceptIpOptions
      /\ Chains("FirewallAddressList") = CreateOrModify("FirewallAddressList")
      /\ Chains("FirewallPortList") = CreateOrModify("FirewallPortList")
      /\ Chains("NetAddressList") = CreateOrModify("NetAddressList")
      /\ Chains("NetPortList") = CreateOrModify("NetPortList")
  BY DEF Chains, handleTunnel, handleFirewallAddressList, handleFirewallPortList,
         handleNetAddressList, handleNetPortList
<1>3. /\ Chains("routeDelete") = Transaction(Commands("delete", "Route", Moved, Nothing))
      /\ Chains("routeCreate") = RoutesAnew
      /\ Chains("DagGlobals") = handleDagGlobals
      /\ Chains("enableRouting") = handleEnableRouting
      /\ Chains("RoutingPrefixList") = EntriesLast("RoutingPrefixList")
      /\ Chains("RouteMap") = EntriesLast("RouteMap")
      /\ Chains("bgpDelete") = Each("delete", "RoutingBGP", GoingBgp, Nothing)
      /\ Chains("bgpCreate") = CreateOrModify("RoutingBGP")
  BY DEF Chains, handleRoutingPrefixList, handleRouteMap, handleRoutingBGP
<1> QED
  BY <1>1, <1>2, <1>3

(* Route domain 0 comes before the others.                                 *)
LEMMA RouteDomain0Step ==
  ASSUME NEW was, NEW n, n = 3, Ready(was, n)
  PROVE  Goes(was, n)
<1> DEFINE c == "RouteDomain"
           items == Update(c) \cap {Rd0}
<1>1. Started(n) = Each("createOrModify", c, items, want[c]) /\ MemoryAfter(n) = mem
      /\ ConfigAfter(n) = cur
  BY NetworkStep, PlanIs, ChainsAre DEF RouteDomain0
<1>2. c \in DeclaredClass /\ c \notin DOMAIN TwinOf /\ c \notin SingleClass
  BY TwinFacts DEF DeclaredClass, SingleClass
<1>3. Update(c) = New(was, want, c)
  BY <1>2, Found
<1>4. items \subseteq New(was, want, c)
  BY <1>3
<1>5. \A d \in Class \ {c} : Still(n, d, mem, mem)
  BY Elsewhere DEF Still
<1>6. \A i \in items : Is(was, want, n + 1, mem, c, i, want[c][i])
  BY <1>3, IsUnfoldsElse DEF RouteDomainIs
<1>7. \A i \in Item \ items, v \in Values \cup {None} :
        Is(was, want, n, mem, c, i, v) => Is(was, want, n + 1, mem, c, i, v)
  BY <1>3, IsUnfoldsElse DEF RouteDomainIs
<1>8. c # "Tunnel"
  OBVIOUS
<1>9. n \notin {17, 18, 21, 22}
  OBVIOUS
<1> HIDE DEF items, c
<1>10. OnlyAbout(was, n, mem, c, items)
  BY <1>5, <1>7 DEF OnlyAbout
<1>11. Leads(was, n, mem, cur, Each("createOrModify", c, items, want[c]))
  BY <1>2, <1>4, <1>6, <1>8, <1>9, <1>10, MakeStep
<1> QED
  BY <1>1, <1>11 DEF Goes, c, items

(* The BGPs to be deleted first are those the handler finds.               *)
LEMMA OldBgpsAre ==
  ASSUME NEW was, NEW n, Ready(was, n)
  PROVE  GoingBgp = OldBgps(was, want) /\ OldBgps(was, want) \subseteq Item
<1> DEFINE c == "RoutingBGP"
<1>1. c \in DeclaredClass /\ c \notin DOMAIN TwinOf
  BY DEF DeclaredClass, TwinOf
<1>2. /\ Update(c) = New(was, want, c) /\ doomed[c] = Dropped(was, want, c)
      /\ New(was, want, c) \subseteq Item
      /\ \A i \in Item : cur[c][i] = was[c][i]
  BY <1>1, Found
<1>3. Present(cur, c) = Present(was, c) /\ Present(was, c) \subseteq Item
  BY <1>2 DEF Present
<1>4. \A i \in Present(was, c) : cur[c][i] = was[c][i]
  BY <1>2, <1>3
<1> QED
  BY <1>2, <1>3, <1>4 DEF GoingBgp, OldBgps, Touched

(* Steps 38 and 39, handleRoutingBgp.                                      *)
LEMMA BgpSteps ==
  ASSUME NEW was, NEW n, Ready(was, n)
  PROVE  n \in {38, 39} => Goes(was, n)
<1> DEFINE c == "RoutingBGP"
<1>1. c \in DeclaredClass /\ c \in Class /\ c \notin DOMAIN TwinOf /\ c \notin SingleClass
  BY ClassFacts DEF DeclaredClass, SingleClass, TwinOf
<1>2. n \in {38, 39} => \A d \in Class \ {c} : Still(n, d, mem, mem)
  BY Elsewhere DEF Still
<1>3. CASE n = 38
  <2>1. Started(n) = Each("delete", c, OldBgps(was, want), Nothing) /\ MemoryAfter(n) = mem
        /\ ConfigAfter(n) = cur
    BY <1>3, OldBgpsAre, NetworkStep, PlanIs, ChainsAre
  <2>2. \A i \in OldBgps(was, want) : Is(was, want, n + 1, mem, c, i, None)
    BY <1>3, IsUnfoldsElse DEF BgpIs
  <2>3. \A i \in Item \ OldBgps(was, want), v \in Values \cup {None} :
          Is(was, want, n, mem, c, i, v) => Is(was, want, n + 1, mem, c, i, v)
    BY <1>3, IsUnfoldsElse DEF BgpIs
  <2>4. OldBgps(was, want) \subseteq Item /\ Remembers(was, want, n + 1, mem)
    BY <1>3, OldBgpsAre, RemembersOn
  <2>5. c # "VXLAN" /\ c # "SelfIp"
    OBVIOUS
  <2>6. OnlyAbout(was, n, mem, c, OldBgps(was, want))
    BY <1>2, <1>3, <2>3 DEF OnlyAbout
  <2>7. Leads(was, n, mem, cur, Each("delete", c, OldBgps(was, want), Nothing))
    BY <1>1, <1>3, <2>2, <2>4, <2>5, <2>6, TakeStep
  <2> QED
    BY <2>1, <2>7 DEF Goes
<1>4. CASE n = 39
  <2>1. Started(n) = CreateOrModify(c) /\ MemoryAfter(n) = mem /\ ConfigAfter(n) = cur
    BY <1>4, NetworkStep, PlanIs, ChainsAre
  <2>2. Update(c) = New(was, want, c)
    BY <1>1, Found
  <2>3. \A i \in New(was, want, c) : Is(was, want, n + 1, mem, c, i, want[c][i])
    BY <1>4, IsUnfoldsElse DEF BgpIs
  <2>4. \A i \in Item \ New(was, want, c), v \in Values \cup {None} :
          Is(was, want, n, mem, c, i, v) => Is(was, want, n + 1, mem, c, i, v)
    BY <1>4, IsUnfoldsElse DEF BgpIs
  <2>5. c # "Tunnel"
    OBVIOUS
  <2>6. n \notin {17, 18, 21, 22}
    BY <1>4
  <2> HIDE DEF c
  <2>7. OnlyAbout(was, n, mem, c, New(was, want, c))
    BY <1>2, <1>4, <2>4 DEF OnlyAbout
  <2>8. Leads(was, n, mem, cur, Each("createOrModify", c, New(was, want, c), want[c]))
    BY <1>1, <2>3, <2>5, <2>6, <2>7, MakeStep
  <2> QED
    BY <2>1, <2>2, <2>8 DEF Goes, CreateOrModify
<1> QED
  BY <1>3, <1>4

(* Step 33, handleEnableRouting.                                           *)
LEMMA EnableRoutingStep ==
  ASSUME NEW was, Ready(was, 33)
  PROVE  Goes(was, 33)
<1> DEFINE c == "Routing"
           items == IF \A d \in RoutingClass : Touched(d) = {} THEN {} ELSE {Only}
           values == [i \in Item |-> Enabled]
<1>1. Only \in Item /\ Enabled \in Values /\ Enabled # None
  BY NetworkAssumption
<1>2. c \in Class /\ c \notin DOMAIN TwinOf /\ c \notin SingleClass
  BY DEF Class, SingleClass, TwinOf
<1>3. \A d \in Class \ {c} : Still(33, d, mem, mem)
  BY Elsewhere DEF Still
<1>4. Started(33) = handleEnableRouting /\ MemoryAfter(33) = mem /\ ConfigAfter(33) = cur
  BY NetworkStep, PlanIs, ChainsAre
<1>5. handleEnableRouting = Each("set", c, items, values)
  BY <1>1 DEF handleEnableRouting, Each
<1>6. items \subseteq Item
  BY <1>1
<1>7. ASSUME NEW i \in items
      PROVE  values[i] = Enabled /\ CommandFits(before, Do("set", c, i, Enabled))
  <2>1. Fits(c, i, Enabled)
    BY CasesAssumption DEF Fits
  <2>2. values[i] = Enabled
    BY <1>6
  <2> QED
    BY <1>2, <2>1, <2>2, PlainFits
<1>8. \A i \in Item : \A v : Is(was, want, 33 + 1, mem, c, i, v)
  BY IsUnfoldsElse
<1>9. Remembers(was, want, 33 + 1, mem)
  BY RemembersOn
<1> HIDE DEF items, values
<1>10. \A i \in items :
        /\ values[i] \in Values \cup {None}
        /\ CommandFits(before, Do("set", c, i, values[i]))
        /\ Is(was, want, 33 + 1, mem, c, i, values[i])
  BY <1>1, <1>6, <1>7, <1>8
<1>11. c \notin {"DagGlobals", "VXLAN", "Tunnel"}
  OBVIOUS
<1>12. OnlyAbout(was, 33, mem, c, items)
  BY <1>3, <1>8 DEF OnlyAbout
<1>13. Leads(was, 33, mem, cur, Each("set", c, items, values))
  BY <1>2, <1>6, <1>9, <1>10, <1>11, <1>12, EachStep
<1> QED
  BY <1>4, <1>5, <1>13 DEF Goes

(* Step 41, routes that are gone.                                          *)
LEMMA RoutesGoStep ==
  ASSUME NEW was, Ready(was, 41)
  PROVE  Goes(was, 41)
<1> DEFINE c == "Route"
<1>1. c \in DeclaredClass /\ c \in Class /\ c \notin DOMAIN TwinOf /\ c \notin SingleClass
  BY ClassFacts DEF DeclaredClass, SingleClass, TwinOf
<1>2. \A d \in Class \ {c} : Still(41, d, mem, mem)
  BY Elsewhere DEF Still
<1>3. Items(c) = Going(was, want, c) /\ Going(was, want, c) \subseteq Item
  BY <1>1, GoingIs, Found
<1>4. DeletedClass(41) = c
  BY DeletePlanIs
<1>5. Started(41) = Each("clear", c, Items(c), Nothing) /\ MemoryAfter(41) = mem
      /\ ConfigAfter(41) = cur
  BY <1>1, <1>4, DeleteStep DEF Deletion
<1>6. \A i \in Items(c) : Is(was, want, 41 + 1, mem, c, i, None)
  BY <1>3, IsUnfoldsElse DEF RouteIs
<1>7. \A i \in Item \ Items(c), v \in Values \cup {None} :
        Is(was, want, 41, mem, c, i, v) => Is(was, want, 41 + 1, mem, c, i, v)
  BY <1>3, IsUnfoldsElse DEF RouteIs
<1>8. Remembers(was, want, 41 + 1, mem)
  BY RemembersOn
<1>9. c # "VXLAN" /\ c # "SelfIp"
  OBVIOUS
<1>10. OnlyAbout(was, 41, mem, c, Items(c))
  BY <1>2, <1>7 DEF OnlyAbout
<1>11. Leads(was, 41, mem, cur, Each("clear", c, Items(c), Nothing))
  BY <1>1, <1>3, <1>6, <1>8, <1>9, <1>10, TakeStep
<1> QED
  BY <1>5, <1>11 DEF Goes

-----------------------------------------------------------------------------
(* Transactions of many commands *)

(* The commands are about these items, and these values are their last. *)
Ends(commands, c, items, values) ==
  /\ \A k \in DOMAIN commands : commands[k].class = c /\ commands[k].item \in items
  /\ \A i \in items : \E k \in DOMAIN commands :
       /\ commands[k].item = i /\ commands[k].value = values[i]
       /\ \A l \in DOMAIN commands : l > k => commands[l].item # i

(* Each is of this kind. *)
Says(commands, op, c, items, values) ==
  \A k \in DOMAIN commands : \E i \in items : commands[k] = Do(op, c, i, values[i])

(* The commands of a transaction of one operation.                         *)
LEMMA CommandsEnd ==
  ASSUME NEW op \in Operation, NEW c \in Class, NEW items, items \subseteq Item, NEW values
  PROVE  /\ Ends(Commands(op, c, items, values), c, items, values)
         /\ Says(Commands(op, c, items, values), op, c, items, values)
<1> DEFINE names == SetToSeq(items)
           n == Cardinality(items)
           commands == Commands(op, c, items, values)
<1>1. IsFiniteSet(items)
  BY NetworkAssumption, FS_Subset
<1>2. /\ n \in Nat /\ names \in [1 .. n -> items] /\ DOMAIN names = 1 .. n
      /\ \A i, j \in 1 .. n : names[i] = names[j] => i = j
      /\ \A x \in items : \E i \in 1 .. n : names[i] = x
  BY <1>1, SequenceFacts
<1>3. commands = [k \in 1 .. n |-> Do(op, c, names[k], values[names[k]])]
  BY <1>2 DEF Commands
<1> HIDE DEF names, n, commands
<1>4. DOMAIN commands = 1 .. n
      /\ \A k \in 1 .. n : commands[k] = Do(op, c, names[k], values[names[k]]) /\ names[k] \in items
  BY <1>2, <1>3
<1>5. \A k \in 1 .. n : /\ commands[k].class = c /\ commands[k].item = names[k]
                        /\ commands[k].value = values[names[k]]
  BY <1>4 DEF Do
<1>6. ASSUME NEW i \in items
      PROVE  \E k \in DOMAIN commands :
               /\ commands[k].item = i /\ commands[k].value = values[i]
               /\ \A l \in DOMAIN commands : l > k => commands[l].item # i
  <2>1. PICK k \in 1 .. n : names[k] = i
    BY <1>2
  <2>2. \A l \in 1 .. n : l > k => names[l] # i
    BY <1>2, <2>1
  <2> QED
    BY <1>4, <1>5, <2>1, <2>2
<1>7. Ends(commands, c, items, values)
  BY <1>4, <1>5, <1>6 DEF Ends
<1>8. Says(commands, op, c, items, values)
  BY <1>4 DEF Says
<1> QED
  BY <1>7, <1>8 DEF commands

(* Two transactions in one.                                                *)
LEMMA BothEnd ==
  ASSUME NEW x \in Seq(Command), NEW y \in Seq(Command), NEW c,
         NEW s, NEW t, NEW f, NEW g, NEW h, Ends(x, c, s, f), Ends(y, c, t, g),
         \A i \in t : h[i] = g[i], \A i \in s \ t : h[i] = f[i]
  PROVE  /\ Ends(x \o y, c, s \cup t, h)
         /\ \A k \in DOMAIN (x \o y) : \/ \E l \in DOMAIN x : (x \o y)[k] = x[l]
                                       \/ \E l \in DOMAIN y : (x \o y)[k] = y[l]
<1> DEFINE z == x \o y
           m == Len(x)
           n == Len(y)
<1>1. m \in Nat /\ n \in Nat /\ DOMAIN x = 1 .. m /\ DOMAIN y = 1 .. n /\ DOMAIN z = 1 .. m + n
      /\ \A k \in 1 .. m + n : z[k] = IF k <= m THEN x[k] ELSE y[k - m]
  BY ConcatProperties
<1>2. /\ DOMAIN x = 1 .. m /\ \A i \in s \ t : h[i] = f[i]
      /\ DOMAIN y = 1 .. n /\ \A i \in t : h[i] = g[i]
  BY <1>1
<1> HIDE DEF z, m, n
<1>3. /\ \A k \in 1 .. m : k \in DOMAIN z /\ z[k] = x[k]
      /\ \A k \in 1 .. n : m + k \in DOMAIN z /\ z[m + k] = y[k]
      /\ \A k \in DOMAIN z : (k \in 1 .. m) \/ (k - m \in 1 .. n /\ z[k] = y[k - m])
  BY <1>1
<1>4. \A k \in DOMAIN z : z[k].class = c /\ z[k].item \in s \cup t
  BY <1>1, <1>3 DEF Ends
<1>5. ASSUME NEW i \in t
      PROVE  \E k \in DOMAIN z : /\ z[k].item = i /\ z[k].value = h[i]
                                 /\ \A l \in DOMAIN z : l > k => z[l].item # i
  <2>1. PICK k \in 1 .. n : /\ y[k].item = i /\ y[k].value = h[i]
                            /\ \A l \in 1 .. n : l > k => y[l].item # i
    <3>1. \E k \in DOMAIN y : /\ y[k].item = i /\ y[k].value = g[i]
                              /\ \A l \in DOMAIN y : l > k => y[l].item # i
      BY DEF Ends
    <3> QED
      BY <1>2, <3>1
  <2>2. \A l \in DOMAIN z : l > m + k => z[l].item # i
    <3> SUFFICES ASSUME NEW l \in DOMAIN z, l > m + k
                 PROVE  z[l].item # i
      OBVIOUS
    <3>1. l \in 1 .. m + n /\ l - m \in 1 .. n /\ l - m > k /\ ~(l <= m)
      BY <1>1
    <3> QED
      BY <1>1, <2>1, <3>1
  <2> QED
    BY <1>3, <2>1, <2>2
<1>6. ASSUME NEW i \in s \ t
      PROVE  \E k \in DOMAIN z : /\ z[k].item = i /\ z[k].value = h[i]
                                 /\ \A l \in DOMAIN z : l > k => z[l].item # i
  <2>1. PICK k \in 1 .. m : /\ x[k].item = i /\ x[k].value = h[i]
                            /\ \A l \in 1 .. m : l > k => x[l].item # i
    <3>1. \E k \in DOMAIN x : /\ x[k].item = i /\ x[k].value = f[i]
                              /\ \A l \in DOMAIN x : l > k => x[l].item # i
      BY DEF Ends
    <3> QED
      BY <1>2, <3>1
  <2>2. \A l \in 1 .. n : y[l].item # i
    BY <1>1 DEF Ends
  <2>3. \A l \in DOMAIN z : l > k => z[l].item # i
    BY <1>3, <2>1, <2>2
  <2> QED
    BY <1>3, <2>1, <2>3
<1>7. Ends(z, c, s \cup t, h)
  BY <1>4, <1>5, <1>6 DEF Ends
<1>8. \A k \in DOMAIN z : (\E l \in DOMAIN x : z[k] = x[l]) \/ (\E l \in DOMAIN y : z[k] = y[l])
  BY <1>1, <1>3
<1> QED
  BY <1>7, <1>8 DEF z

(* One transaction about items of a class that is there once. *)
LEMMA TransactionStep ==
  ASSUME NEW was, NEW n, Ready(was, n), NEW mm, NEW commands, NEW c \in Class,
         c \notin DOMAIN TwinOf, c \notin {"DagGlobals", "VXLAN", "Tunnel"},
         NEW items, items \subseteq Item, NEW values,
         Ends(commands, c, items, values),
         \A k \in DOMAIN commands : CommandFits(before, commands[k]),
         Remembers(was, want, n + 1, mm),
         \A i \in items : /\ values[i] \in Values \cup {None}
                          /\ Is(was, want, n + 1, mm, c, i, values[i]),
         OnlyAbout(was, n, mm, c, items)
  PROVE  Leads(was, n, mm, cur, Transaction(commands))
<1> DEFINE call == Awaited(commands)
           chain == <<call>>
           chains == Transaction(commands)
<1>1. call.commands = commands /\ call.awaited
  BY DEF Awaited
<1> HIDE DEF call
<1>2. DOMAIN chain = {1} /\ chain[1] = call /\ Head(chain) = call
  OBVIOUS
<1>3. /\ n \in Nat /\ Owes(device, was, want, n, mem, loose)
      /\ \A d \in Class, i \in Item : device[d][i] \in Values \cup {None}
      /\ \A x \in loose, i \in Item : ~Writes(x, c, i)
  BY Found
<1>4. \A d \in Class, i \in Item, v \in Values \cup {None} :
        Is(was, want, n, mem, d, i, v) /\ ~(i \in items /\ d = c)
          => Is(was, want, n + 1, mm, d, i, v)
  BY <1>3, IsStays DEF OnlyAbout
<1>5. \A d \in Class, i \in Item : HitsCall(call, d, i) <=> i \in items /\ d = c
  <2>1. \A d \in DOMAIN TwinOf : TwinOf[d] # c
    BY TwinFacts
  <2>2. \A k \in DOMAIN commands, d \in Class, i \in Item :
          Hits(commands[k], d, i) <=> commands[k].item = i /\ d = c
    BY <2>1 DEF Hits, Ends
  <2> QED
    BY <1>1, <2>2 DEF HitsCall, Ends
<1>6. ASSUME NEW i \in items
      PROVE  CallLeaves(call, c, i, values[i])
  <2>1. PICK k \in DOMAIN commands : /\ commands[k].item = i /\ commands[k].value = values[i]
                                     /\ \A l \in DOMAIN commands : l > k => commands[l].item # i
    BY DEF Ends
  <2>2. Hits(commands[k], c, i) /\ \A l \in DOMAIN commands : l > k => ~Hits(commands[l], c, i)
    BY <2>1 DEF Hits, Ends
  <2> QED
    BY <1>1, <2>1, <2>2 DEF CallLeaves
<1> HIDE DEF chain
<1>7. /\ \A d \in Class, i \in Item : Writes(chain, d, i) <=> i \in items /\ d = c
      /\ \A i \in items : Leaves(chain, c, i, values[i])
  BY <1>5, <1>6, OneCallWrites DEF chain
<1>8. \A x \in chains : x = chain
  BY DEF Transaction, chain, call
<1>9. chains = {} => items = {}
  <2>1. chains = {} => commands = <<>>
    BY DEF Transaction
  <2>2. DOMAIN <<>> = {}
    OBVIOUS
  <2> QED
    BY <2>1, <2>2 DEF Ends
<1> HIDE DEF chains
<1>10. \A d \in Class, i \in Item, v \in Values \cup {None} :
         /\ Is(was, want, n, mem, d, i, v)
         /\ ~(\E x \in chains : Writes(x, d, i))
         => Is(was, want, n + 1, mm, d, i, v)
  BY <1>4, <1>7, <1>8, <1>9
<1>11. \A x \in chains, d \in Class, i \in Item :
         Writes(x, d, i) =>
           \/ Stuck(device, x)
           \/ \E v \in Values \cup {None} : Leaves(x, d, i, v) /\ Is(was, want, n + 1, mm, d, i, v)
  BY <1>7, <1>8
<1>12. \A x, y \in chains, d \in Class, i \in Item : Writes(x, d, i) /\ Writes(y, d, i) => x = y
  BY <1>8
<1>13. \A x \in loose, y \in chains, d \in Class, i \in Item : ~(Writes(x, d, i) /\ Writes(y, d, i))
  BY <1>3, <1>7, <1>8
<1>14. Owes(device, was, want, n + 1, mm, loose \cup chains)
  BY <1>3, <1>10, <1>11, <1>12, <1>13, Begun
<1>15. ChainFits(before, chain) /\ ChainIsAt(was, want, n + 1, chain) /\ Head(chain).awaited
  <2>1. CallFits(before, call)
    BY <1>1 DEF CallFits
  <2>2. CallIsAt(was, want, n + 1, call)
    BY <1>1 DEF CallIsAt, Ends
  <2> QED
    BY <1>1, <1>2, <2>1, <2>2 DEF ChainFits, ChainIsAt, chain
<1>16. Reads(was, want, n + 1, cur)
  BY ReadsOn
<1>17. At(device, before, was, want, n, mem, cur, loose)
       /\ \A x \in loose : LooseIs(device, was, want, n, x)
  BY DEF Ready
<1>18. At(device, before, was, want, n + 1, mm, cur, loose \cup chains)
  BY <1>3, <1>8, <1>14, <1>15, <1>16, <1>17, StepAt
<1> QED
  BY <1>18 DEF Leads, chains

(* What is wanted may be made.                                             *)
LEMMA WantFits ==
  ASSUME NEW was, NEW n, Ready(was, n), NEW c \in DeclaredClass, c \notin DOMAIN TwinOf,
         c \notin SingleClass, NEW i \in New(was, want, c), NEW op
  PROVE  CommandFits(before, Do(op, c, i, want[c][i])) /\ want[c][i] \in Values
<1>1. /\ New(was, want, c) \subseteq Item
      /\ \A j \in New(was, want, c) : want[c][j] \in Values
  BY Found
<1>2. want[c][i] # None /\ i \in Item
  BY <1>1, NetworkAssumption
<1>3. Fits(c, i, want[c][i])
  BY <1>2 DEF Ready, ConfigFits
<1> QED
  BY <1>1, <1>3, PlainFits, ClassFacts

(* Step 4, handleRouteDomain.                                              *)
LEMMA RouteDomainsStep ==
  ASSUME NEW was, Ready(was, 4)
  PROVE  Goes(was, 4)
<1> DEFINE c == "RouteDomain"
           others == Update(c) \ {Rd0}
           known == {i \in others : cur[c][i] # None}
           x == Commands("modify", c, known, want[c])
           y == Commands("create", c, others \ known, want[c])
<1>1. /\ Started(4) = Transaction(x \o y) /\ MemoryAfter(4) = mem
      /\ ConfigAfter(4) = cur
  BY NetworkStep, PlanIs, ChainsAre DEF RouteDomains
<1>2. /\ c \in DeclaredClass /\ c \notin DOMAIN TwinOf /\ c \notin SingleClass /\ c \in Class
      /\ c \notin {"DagGlobals", "VXLAN", "Tunnel"}
  BY ClassFacts, TwinFacts DEF DeclaredClass, SingleClass
<1>3. Update(c) = New(was, want, c)
  BY <1>2, Found
<1>4. \A d \in Class \ {c} : Still(4, d, mem, mem)
  BY Elsewhere DEF Still
<1>5. others \subseteq Item /\ \A i \in others : want[c][i] \in Values \cup {None}
  BY <1>2, <1>3, Found
<1>6. \A i \in others : Is(was, want, 4 + 1, mem, c, i, want[c][i])
  BY <1>3, IsUnfoldsElse DEF RouteDomainIs
<1>7. \A i \in Item \ others, v \in Values \cup {None} :
        Is(was, want, 4, mem, c, i, v) => Is(was, want, 4 + 1, mem, c, i, v)
  BY <1>3, IsUnfoldsElse DEF RouteDomainIs
<1>8. \A i \in others : \A op : CommandFits(before, Do(op, c, i, want[c][i]))
  BY <1>2, <1>3, WantFits
<1>9. known \subseteq others
  OBVIOUS
<1> HIDE DEF known, others, c, x, y
<1>10. /\ Ends(x, c, known, want[c]) /\ Ends(y, c, others \ known, want[c])
       /\ \A k \in DOMAIN x : CommandFits(before, x[k])
       /\ \A k \in DOMAIN y : CommandFits(before, y[k])
  <2>1. /\ "modify" \in Operation /\ "create" \in Operation /\ others \ known \subseteq Item
        /\ known \subseteq Item
    BY <1>5, <1>9, OperationFacts
  <2>2. /\ Ends(x, c, known, want[c])
        /\ \A k \in DOMAIN x : \E i \in known : x[k] = Do("modify", c, i, want[c][i])
    <4>1. Ends(Commands("modify", c, known, want[c]), c, known, want[c])
      BY <1>2, <2>1, CommandsEnd, Zenon
    <4>2. Says(Commands("modify", c, known, want[c]), "modify", c, known, want[c])
      BY <1>2, <2>1, CommandsEnd, Zenon
    <4> QED
      BY <4>1, <4>2 DEF x, Says
  <2>3. /\ Ends(y, c, others \ known, want[c])
        /\ \A k \in DOMAIN y : \E i \in others \ known : y[k] = Do("create", c, i, want[c][i])
    <4>1. Ends(Commands("create", c, (others \ known), want[c]), c, (others \ known), want[c])
      BY <1>2, <2>1, CommandsEnd, Zenon
    <4>2. Says(Commands("create", c, (others \ known), want[c]), "create", c, (others \ known), want[c])
      BY <1>2, <2>1, CommandsEnd, Zenon
    <4> QED
      BY <4>1, <4>2 DEF y, Says
  <2> QED
    BY <1>8, <1>9, <2>2, <2>3
<1>11. x \in Seq(Command) /\ y \in Seq(Command)
  BY <1>2, <1>5, <1>9, OperationFacts, CommandsAreTyped DEF x, y
<1>12. known \cup (others \ known) = others
  BY <1>9
<1>13. Ends(x \o y, c, others, want[c])
  <2>1. Ends(x \o y, c, known \cup (others \ known), want[c])
    BY <1>10, <1>11, BothEnd
  <2> QED
    BY <1>12, <2>1
<1>14. \A k \in DOMAIN (x \o y) : CommandFits(before, (x \o y)[k])
  BY <1>10, <1>11, BothEnd
<1>15. Remembers(was, want, 4 + 1, mem)
  BY RemembersOn
<1>16. OnlyAbout(was, 4, mem, c, others)
  BY <1>4, <1>7 DEF OnlyAbout
<1>17. Leads(was, 4, mem, cur, Transaction(x \o y))
  BY <1>2, <1>5, <1>6, <1>13, <1>14, <1>15, <1>16, TransactionStep
<1> QED
  BY <1>1, <1>17 DEF Goes

(* A transaction that deletes objects. *)
LEMMA TakeInOne ==
  ASSUME NEW was, NEW n, Ready(was, n), NEW op \in Operation,
         NEW c \in Class, c \notin DOMAIN TwinOf, c \notin SingleClass,
         c \notin {"VXLAN", "Tunnel"}, n \notin {17, 18, 21, 22},
         NEW items, items \subseteq Item,
         \A i \in items : Is(was, want, n + 1, mem, c, i, None),
         OnlyAbout(was, n, mem, c, items)
  PROVE  Leads(was, n, mem, cur, Transaction(Commands(op, c, items, Nothing)))
<1> DEFINE x == Commands(op, c, items, Nothing)
<1>1. \A i \in items : Nothing[i] = None /\ CommandFits(before, Do(op, c, i, None))
  BY PlainFits DEF Nothing
<1>2. Ends(x, c, items, Nothing) /\ \A k \in DOMAIN x : CommandFits(before, x[k])
  BY <1>1, CommandsEnd DEF Says
<1>3. Remembers(was, want, n + 1, mem)
  BY RemembersOn
<1>4. c \notin {"DagGlobals", "VXLAN", "Tunnel"}
  BY DEF SingleClass
<1>5. \A i \in items : /\ Nothing[i] \in Values \cup {None}
                       /\ Is(was, want, n + 1, mem, c, i, Nothing[i])
  BY <1>1
<1> HIDE DEF x
<1>6. Leads(was, n, mem, cur, Transaction(x))
  BY <1>2, <1>3, <1>4, <1>5, TransactionStep
<1> QED
  BY <1>6 DEF x

(* Step 52, route domains that are gone, in one transaction.               *)
LEMMA RouteDomainsGoStep ==
  ASSUME NEW was, Ready(was, 52)
  PROVE  Goes(was, 52)
<1> DEFINE c == "RouteDomain"
<1>1. c \in DeclaredClass /\ c \in Class /\ c \notin DOMAIN TwinOf /\ c \notin SingleClass
      /\ c \notin {"VXLAN", "Tunnel"}
  BY ClassFacts DEF DeclaredClass, SingleClass, TwinOf
<1>2. \A d \in Class \ {c} : Still(52, d, mem, mem)
  BY Elsewhere DEF Still
<1>3. Items(c) = Going(was, want, c) /\ Going(was, want, c) \subseteq Item
  BY <1>1, GoingIs, Found
<1>4. DeletedClass(52) = c
  BY DeletePlanIs
<1>5. Started(52) = Transaction(Commands("delete", c, Items(c), Nothing)) /\ MemoryAfter(52) = mem
      /\ ConfigAfter(52) = cur
  BY <1>1, <1>4, DeleteStep DEF Deletion
<1>6. \A i \in Items(c) : Is(was, want, 52 + 1, mem, c, i, None)
  BY <1>3, IsUnfoldsElse DEF RouteDomainIs
<1>7. \A i \in Item \ Items(c), v \in Values \cup {None} :
        Is(was, want, 52, mem, c, i, v) => Is(was, want, 52 + 1, mem, c, i, v)
  BY <1>3, IsUnfoldsElse, NetworkAssumption DEF RouteDomainIs
<1>8. "delete" \in Operation /\ Items(c) \subseteq Item
  BY <1>3, OperationFacts
<1> HIDE DEF c
<1>9. OnlyAbout(was, 52, mem, c, Items(c))
  BY <1>2, <1>7 DEF OnlyAbout
<1>10. Leads(was, 52, mem, cur, Transaction(Commands("delete", c, Items(c), Nothing)))
  BY <1>1, <1>6, <1>8, <1>9, TakeInOne
<1> QED
  BY <1>5, <1>10 DEF Goes

(* The routes to be deleted first are those the handler finds.             *)
LEMMA RoutesAre ==
  ASSUME NEW was, NEW n, Ready(was, n)
  PROVE  /\ Moved = OldRoutes(was, want) /\ Moved \subseteq Item
         /\ Update("Route") = New(was, want, "Route") /\ Update("Route") \subseteq Item
         /\ {i \in Update("Route") : cur["Route"][i] # None} \subseteq Update("Route")
<1>1. "Route" \in DeclaredClass /\ "Route" \notin DOMAIN TwinOf
  BY DEF DeclaredClass, TwinOf
<1>2. /\ Update("Route") = New(was, want, "Route") /\ New(was, want, "Route") \subseteq Item
      /\ \A i \in Item : cur["Route"][i] = was["Route"][i]
  BY <1>1, Found
<1>3. \A i \in Update("Route") : cur["Route"][i] = was["Route"][i]
  BY <1>2
<1>4. Moved = OldRoutes(was, want)
  BY <1>2, <1>3 DEF Moved, OldRoutes
<1>5. Moved \subseteq Item
  BY <1>2 DEF Moved
<1> QED
  BY <1>2, <1>4, <1>5

(* Steps 30 and 31, handleRoute.                                           *)
LEMMA RouteSteps ==
  ASSUME NEW was, NEW n, Ready(was, n)
  PROVE  n \in {30, 31} => Goes(was, n)
<1> DEFINE c == "Route"
<1>1. c \in DeclaredClass /\ c \in Class /\ c \notin DOMAIN TwinOf /\ c \notin SingleClass
      /\ c \notin {"DagGlobals", "VXLAN", "Tunnel"}
  BY ClassFacts DEF DeclaredClass, SingleClass, TwinOf
<1>2. n \in {30, 31} => \A d \in Class \ {c} : Still(n, d, mem, mem)
  BY Elsewhere DEF Still
<1>3. /\ Moved = OldRoutes(was, want) /\ Moved \subseteq Item
      /\ Update(c) = New(was, want, c) /\ Update(c) \subseteq Item
  BY RoutesAre
<1>4. CASE n = 30
  <2>1. /\ Started(n) = Transaction(Commands("delete", c, Moved, Nothing))
        /\ MemoryAfter(n) = mem /\ ConfigAfter(n) = cur
    BY <1>4, NetworkStep, PlanIs, ChainsAre
  <2>2. \A i \in Moved : Is(was, want, n + 1, mem, c, i, None)
    BY <1>3, <1>4, IsUnfoldsElse DEF RouteIs
  <2>3. \A i \in Item \ Moved, v \in Values \cup {None} :
          Is(was, want, n, mem, c, i, v) => Is(was, want, n + 1, mem, c, i, v)
    BY <1>3, <1>4, IsUnfoldsElse DEF RouteIs
  <2>4. "delete" \in Operation
    BY OperationFacts
  <2> HIDE DEF c
  <2>5. OnlyAbout(was, n, mem, c, Moved)
    BY <1>2, <1>4, <2>3 DEF OnlyAbout
  <2>6. Leads(was, n, mem, cur, Transaction(Commands("delete", c, Moved, Nothing)))
    BY <1>1, <1>3, <1>4, <2>2, <2>4, <2>5, TakeInOne
  <2> QED
    BY <2>1, <2>6 DEF Goes
<1>5. CASE n = 31
  <2> DEFINE known == {i \in Update(c) : cur[c][i] # None}
             x == Commands("delete", c, known \ Moved, Nothing)
             y == Commands("create", c, Update(c), want[c])
  <2>1. /\ Started(n) = Transaction(x \o y) /\ MemoryAfter(n) = mem /\ ConfigAfter(n) = cur
    BY <1>5, NetworkStep, PlanIs, ChainsAre DEF RoutesAnew
  <2>2. \A i \in Update(c) : Is(was, want, n + 1, mem, c, i, want[c][i])
    BY <1>3, <1>5, IsUnfoldsElse DEF RouteIs
  <2>3. \A i \in Item \ Update(c), v \in Values \cup {None} :
          Is(was, want, n, mem, c, i, v) => Is(was, want, n + 1, mem, c, i, v)
    <3>1. OldRoutes(was, want) \subseteq Update(c)
      BY <1>3 DEF OldRoutes
    <3> QED
      BY <1>3, <1>5, <3>1, IsUnfoldsElse DEF RouteIs
  <2>4. known \subseteq Update(c)
    OBVIOUS
  <2>5. Remembers(was, want, n + 1, mem)
    BY <1>5, RemembersOn
  <2>6. \A i \in Item : Nothing[i] = None
    BY DEF Nothing
  <2> HIDE DEF c, known, x, y
  <2>7. /\ \A i \in Update(c) : \A op : CommandFits(before, Do(op, c, i, want[c][i]))
        /\ \A i \in Update(c) : want[c][i] \in Values \cup {None}
        /\ \A i, op : CommandFits(before, Do(op, c, i, None))
    BY <1>1, <1>3, WantFits, PlainFits
  <2>8. /\ Ends(x, c, known \ Moved, Nothing) /\ Ends(y, c, Update(c), want[c])
        /\ \A k \in DOMAIN x : CommandFits(before, x[k])
        /\ \A k \in DOMAIN y : CommandFits(before, y[k])
    <3>1. /\ "delete" \in Operation /\ "create" \in Operation
          /\ known \ Moved \subseteq Item /\ Update(c) \subseteq Item
      BY <1>3, <2>4, OperationFacts DEF c
    <3>2. /\ Ends(x, c, known \ Moved, Nothing)
          /\ \A k \in DOMAIN x : \E i \in known \ Moved : x[k] = Do("delete", c, i, Nothing[i])
      <4>1. Ends(Commands("delete", c, (known \ Moved), Nothing), c, (known \ Moved), Nothing)
        BY <1>1, <3>1, CommandsEnd, Zenon
      <4>2. Says(Commands("delete", c, (known \ Moved), Nothing), "delete", c, (known \ Moved), Nothing)
        BY <1>1, <3>1, CommandsEnd, Zenon
      <4> QED
        BY <4>1, <4>2 DEF x, Says
    <3>3. /\ Ends(y, c, Update(c), want[c])
          /\ Says(y, "create", c, Update(c), want[c])
      BY <1>1, <3>1, CommandsEnd DEF y
    <3> QED
      BY <2>6, <2>7, <3>1, <3>2, <3>3 DEF Says
  <2>9. x \in Seq(Command) /\ y \in Seq(Command)
    BY <1>1, <1>3, <2>4, <2>6, <2>7, OperationFacts, CommandsAreTyped DEF x, y
  <2>10. (known \ Moved) \cup Update(c) = Update(c) /\ (known \ Moved) \ Update(c) = {}
    BY <2>4
  <2>11. Ends(x \o y, c, (known \ Moved) \cup Update(c), want[c])
    BY <2>8, <2>9, <2>10, BothEnd
  <2>12. \A k \in DOMAIN (x \o y) : CommandFits(before, (x \o y)[k])
    BY <2>8, <2>9, <2>10, BothEnd
  <2>13. Ends(x \o y, c, Update(c), want[c])
    BY <2>10, <2>11
  <2>14. OnlyAbout(was, n, mem, c, Update(c))
    BY <1>2, <1>5, <2>3 DEF OnlyAbout
  <2>15. Leads(was, n, mem, cur, Transaction(x \o y))
    BY <1>1, <1>3, <1>5, <2>2, <2>5, <2>7, <2>12, <2>13, <2>14, TransactionStep
  <2> QED
    BY <2>1, <2>15 DEF Goes
<1> QED
  BY <1>4, <1>5

-----------------------------------------------------------------------------
(* Chains that are alike *)

(* A chain for each of some items, about the item in some classes. *)
Family(was, n, mm, chains, items, f, classes) ==
  /\ \A x \in chains : \E i \in items : x = f[i]
  /\ \A i \in items : f[i] \in chains
  /\ \A i \in items, d \in Class, j \in Item : Writes(f[i], d, j) <=> j = i /\ d \in classes[i]
  /\ \A i \in items, d \in Class : d \in classes[i] =>
       \/ Stuck(device, f[i])
       \/ \E v \in Values \cup {None} : Leaves(f[i], d, i, v) /\ Is(was, want, n + 1, mm, d, i, v)
  /\ \A d \in Class, i \in Item, v \in Values \cup {None} :
       Is(was, want, n, mem, d, i, v) /\ ~(i \in items /\ d \in classes[i])
         => Is(was, want, n + 1, mm, d, i, v)
  /\ \A x \in loose, i \in items, d \in Class : d \in classes[i] => ~Writes(x, d, i)
  /\ \A i \in items :
       /\ ChainFits(before, f[i]) /\ ChainIsAt(was, want, n + 1, f[i])
       /\ Head(f[i]).awaited \/ LooseIs(device, was, want, n + 1, f[i])

(* A step that starts such chains does what it is to do.                   *)
LEMMA FamilyStep ==
  ASSUME NEW was, NEW n, Ready(was, n), NEW mm, NEW config, NEW chains, NEW items,
         items \subseteq Item, NEW f, NEW classes,
         Remembers(was, want, n + 1, mm), Reads(was, want, n + 1, config),
         Family(was, n, mm, chains, items, f, classes)
  PROVE  Leads(was, n, mm, config, chains)
<1>1. n \in Nat /\ Owes(device, was, want, n, mem, loose)
      /\ \A d \in Class, i \in Item : device[d][i] \in Values \cup {None}
  BY Found
<1>2. \A d \in Class, i \in Item, v \in Values \cup {None} :
        /\ Is(was, want, n, mem, d, i, v)
        /\ ~(\E chain \in chains : Writes(chain, d, i))
        => Is(was, want, n + 1, mm, d, i, v)
  <2> SUFFICES ASSUME NEW d \in Class, NEW i \in Item, NEW v \in Values \cup {None},
                      Is(was, want, n, mem, d, i, v), ~ \E chain \in chains : Writes(chain, d, i)
               PROVE  Is(was, want, n + 1, mm, d, i, v)
    OBVIOUS
  <2>1. ~(i \in items /\ d \in classes[i])
    BY DEF Family
  <2> QED
    BY <2>1 DEF Family
<1>3. \A chain \in chains, d \in Class, i \in Item :
        Writes(chain, d, i) =>
          \/ Stuck(device, chain)
          \/ \E v \in Values \cup {None} :
               Leaves(chain, d, i, v) /\ Is(was, want, n + 1, mm, d, i, v)
  <2> SUFFICES ASSUME NEW chain \in chains, NEW d \in Class, NEW i \in Item, Writes(chain, d, i),
                      ~Stuck(device, chain)
               PROVE  \E v \in Values \cup {None} :
                        Leaves(chain, d, i, v) /\ Is(was, want, n + 1, mm, d, i, v)
    OBVIOUS
  <2>1. PICK j \in items : chain = f[j]
    BY DEF Family
  <2>2. i = j /\ d \in classes[j]
    BY <2>1 DEF Family
  <2> QED
    BY <2>1, <2>2 DEF Family
<1>4. \A x, y \in chains, d \in Class, i \in Item : Writes(x, d, i) /\ Writes(y, d, i) => x = y
  BY DEF Family
<1>5. \A x \in loose, y \in chains, d \in Class, i \in Item : ~(Writes(x, d, i) /\ Writes(y, d, i))
  BY DEF Family
<1>6. Owes(device, was, want, n + 1, mm, loose \cup chains)
  BY <1>1, <1>2, <1>3, <1>4, <1>5, Begun
<1>7. At(device, before, was, want, n, mem, cur, loose)
      /\ \A x \in loose : LooseIs(device, was, want, n, x)
  BY DEF Ready
<1>8. \A x \in chains : /\ ChainFits(before, x) /\ ChainIsAt(was, want, n + 1, x)
                        /\ Head(x).awaited \/ LooseIs(device, was, want, n + 1, x)
  BY DEF Family
<1>9. At(device, before, was, want, n + 1, mm, config, loose \cup chains)
  BY <1>1, <1>6, <1>7, <1>8, StepAt
<1> QED
  BY <1>9 DEF Leads

(* Nobody waits for DAG globals. *)
LEMMA DagStep ==
  ASSUME NEW was, Ready(was, 32)
  PROVE  Goes(was, 32)
<1> DEFINE c == "DagGlobals"
           n == 32
           items == Update(c)
           f == [i \in items |-> <<Unawaited(<<Do("set", c, i, want[c][i])>>)>>]
           classes == [i \in items |-> {c}]
<1>1. Started(32) = handleDagGlobals /\ MemoryAfter(32) = mem /\ ConfigAfter(32) = cur
  BY NetworkStep, PlanIs, ChainsAre
<1>2. /\ c \in DeclaredClass /\ c \in Class /\ c \notin DOMAIN TwinOf /\ c \in Simple
      /\ UpdatedAt(c) = 32 /\ DeletedAt(c) = 56 /\ c \notin {"Tunnel", "VXLAN"}
  BY ClassFacts DEF DeclaredClass, SingleClass, TwinOf, Simple, UpdatedAt, DeletedAt
<1>3. /\ items = New(was, want, c) /\ items \subseteq Item
      /\ \A i \in items : want[c][i] \in Values /\ want[c][i] # None
  BY <1>2, Found, NetworkAssumption
<1>4. \A d \in Class \ {c} : Still(n, d, mem, mem)
  BY <1>2, UpdateStill
<1>5. handleDagGlobals = {f[i] : i \in items}
  BY DEF handleDagGlobals
<1>6. /\ \A x \in handleDagGlobals : \E i \in items : x = f[i]
      /\ \A i \in items : f[i] \in handleDagGlobals
  BY <1>5
<1>7. n \in Nat /\ n + 1 > 32 /\ n <= 32 /\ n + 1 \notin {17, 18, 21, 22} /\ ~(n > 32)
      /\ n \notin {17, 18, 21, 22} /\ ~(n > 56) /\ ~(n + 1 > 56)
  OBVIOUS
<1>8. /\ \A i \in items : f[i] = <<Unawaited(<<Do("set", c, i, want[c][i])>>)>>
      /\ \A i \in items : \A d : d \in classes[i] <=> d = c
  OBVIOUS
<1>9. /\ Remembers(was, want, n + 1, mem) /\ Reads(was, want, n + 1, cur)
      /\ Ready(was, n)
  BY RemembersOn, ReadsOn
<1> HIDE DEF c, items, f, classes, n
<1>10. \A i \in items, d \in Class, j \in Item : Hits(Do("set", c, i, want[c][i]), d, j) <=> j = i /\ d = c
  <2>1. \A d \in DOMAIN TwinOf : TwinOf[d] # c
    BY <1>2, TwinFacts
  <2> QED
    BY <2>1 DEF Hits, Do
<1>11. \A i \in items, d \in Class, j \in Item : Writes(f[i], d, j) <=> j = i /\ d = c
  <2> SUFFICES ASSUME NEW i \in items, NEW d \in Class, NEW j \in Item
               PROVE  Writes(f[i], d, j) <=> j = i /\ d = c
    OBVIOUS
  <2>1. Hits(Do("set", c, i, want[c][i]), d, j) <=> j = i /\ d = c
    BY <1>10
  <2>2. f[i] = <<Unawaited(<<Do("set", c, i, want[c][i])>>)>>
    BY <1>8
  <2> QED
    BY <2>1, <2>2, OneCallWrites, CommandHits
<1>12. ASSUME NEW i \in items
       PROVE  Leaves(f[i], c, i, want[c][i]) /\ Is(was, want, n + 1, mem, c, i, want[c][i])
  <2>1. Hits(Do("set", c, i, want[c][i]), c, i)
    BY <1>2, <1>3, <1>10
  <2>2. Leaves(f[i], c, i, want[c][i])
    BY <1>8, <2>1, OneCallWrites, CommandHits
  <2>3. Is(was, want, n + 1, mem, c, i, want[c][i])
    BY <1>2, <1>3, <1>7, IsUnfolds DEF SimpleIs
  <2> QED
    BY <2>2, <2>3
<1>13. \A d \in Class, i \in Item, v \in Values \cup {None} :
         Is(was, want, n, mem, d, i, v) /\ ~(i \in items /\ d = c)
           => Is(was, want, n + 1, mem, d, i, v)
  <2>1. \A i \in Item \ items, v \in Values \cup {None} :
          Is(was, want, n, mem, c, i, v) => Is(was, want, n + 1, mem, c, i, v)
    BY <1>2, <1>3, <1>7, IsUnfolds DEF SimpleIs
  <2> QED
    BY <1>4, <1>7, <2>1, IsStays
<1>14. \A x \in loose, i \in items : ~Writes(x, c, i)
  BY <1>2, <1>3, <1>7, <1>9, Found
<1>15. ASSUME NEW i \in items
       PROVE  /\ ChainFits(before, f[i]) /\ ChainIsAt(was, want, n + 1, f[i])
              /\ LooseIs(device, was, want, n + 1, f[i])
  <2>1. CommandFits(before, Do("set", c, i, want[c][i]))
    <3>1. Fits(c, i, want[c][i]) /\ (c \in SingleClass => before[c][i] # None)
      BY <1>2, <1>3, <1>9 DEF Ready, ConfigFits
    <3> QED
      BY <1>2, <1>3, <3>1 DEF CommandFits, Do
  <2>2. LooseIs(device, was, want, n + 1, f[i])
    BY <1>3, <1>7, <1>8 DEF LooseIs, c
  <2>3. f[i] = <<Unawaited(<<Do("set", c, i, want[c][i])>>)>>
    BY <1>8
  <2>4. ChainFits(before, f[i])
    BY <2>1, <2>3, CommandFitsChain
  <2>5. ChainIsAt(was, want, n + 1, f[i])
    BY <1>2, <2>3, CommandIsAt
  <2> QED
    BY <2>2, <2>4, <2>5
<1> DEFINE chains == handleDagGlobals
<1> HIDE DEF chains
<1>16. Leads(was, n, mem, cur, chains)
  <2>1. \A i \in items, d \in Class : d \in classes[i] <=> d = c
    BY <1>8
  <2>2. \A i \in items, d \in Class, j \in Item : Writes(f[i], d, j) <=> j = i /\ d \in classes[i]
    BY <1>11, <2>1
  <2>3. \A i \in items, d \in Class : d \in classes[i] =>
          \E v \in Values \cup {None} : Leaves(f[i], d, i, v) /\ Is(was, want, n + 1, mem, d, i, v)
    BY <1>3, <1>12, <2>1
  <2>4. \A d \in Class, i \in Item, v \in Values \cup {None} :
          Is(was, want, n, mem, d, i, v) /\ ~(i \in items /\ d \in classes[i])
            => Is(was, want, n + 1, mem, d, i, v)
    BY <1>13, <2>1
  <2>5. \A x \in loose, i \in items, d \in Class : d \in classes[i] => ~Writes(x, d, i)
    BY <1>14, <2>1
  <2>6. /\ \A x \in chains : \E i \in items : x = f[i]
        /\ \A i \in items : f[i] \in chains
    BY <1>6 DEF chains
  <2> QED
    <3>1. Family(was, n, mem, chains, items, f, classes)
      BY <1>15, <2>2, <2>3, <2>4, <2>5, <2>6 DEF Family
    <3> QED
      BY <1>3, <1>9, <3>1, FamilyStep
<1> QED
  BY <1>1, <1>16 DEF Goes, chains, n

(* The value of a list or a map without its entries refers to nothing. *)
LEMMA RefsAre ==
  ASSUME NEW v \in Values, NEW c, NEW i, c \notin {"TrafficControl", "DagGlobals"}
  PROVE  Fits(c, i, Outline(v)) /\ Fits(c, i, Profile(v))
<1>1. Outline(v).refs = {} /\ Profile(v).refs = {}
  BY CasesAssumption DEF Outline, Profile
<1> QED
  BY <1>1 DEF Fits

(* A command about a class that is there once. *)
LEMMA OneHits ==
  ASSUME NEW op, NEW c \in Class, c \notin DOMAIN TwinOf, NEW i, NEW v, NEW d \in Class, NEW j \in Item
  PROVE  Hits(Do(op, c, i, v), d, j) <=> j = i /\ d = c
<1>1. \A e \in DOMAIN TwinOf : TwinOf[e] # c
  BY TwinFacts
<1> QED
  BY <1>1 DEF Hits, Do

(* A transaction of two commands. *)
LEMMA TwoCommands ==
  ASSUME NEW x, NEW y, NEW c, NEW i, NEW first, NEW was, NEW to, NEW n
  PROVE  /\ HitsCall(Awaited(<<x, y>>), c, i) <=> Hits(x, c, i) \/ Hits(y, c, i)
         /\ CommandFits(first, x) /\ CommandFits(first, y) => CallFits(first, Awaited(<<x, y>>))
         /\ x.class \notin {"VXLAN", "Tunnel"} /\ y.class \notin {"VXLAN", "Tunnel"}
              => CallIsAt(was, to, n, Awaited(<<x, y>>))
<1> DEFINE call == Awaited(<<x, y>>)
           commands == <<x, y>>
<1>1. call.commands = commands
  BY DEF Awaited
<1>2. DOMAIN commands = {1, 2} /\ commands[1] = x /\ commands[2] = y
  OBVIOUS
<1> HIDE DEF call, commands
<1>3. HitsCall(call, c, i) <=> Hits(x, c, i) \/ Hits(y, c, i)
  BY <1>1, <1>2 DEF HitsCall
<1>4. CommandFits(first, x) /\ CommandFits(first, y) => CallFits(first, call)
  BY <1>1, <1>2 DEF CallFits
<1>5. x.class \notin {"VXLAN", "Tunnel"} /\ y.class \notin {"VXLAN", "Tunnel"}
        => CallIsAt(was, to, n, call)
  BY <1>1, <1>2 DEF CallIsAt
<1> QED
  BY <1>3, <1>4, <1>5 DEF call, commands

(* A chain of two calls.                                                   *)
LEMMA TwoCalls ==
  ASSUME NEW x, NEW y, NEW first, NEW was, NEW to, NEW n
  PROVE  /\ CallFits(first, x) /\ CallFits(first, y) => ChainFits(first, <<x, y>>)
         /\ CallIsAt(was, to, n, x) /\ CallIsAt(was, to, n, y) => ChainIsAt(was, to, n, <<x, y>>)
         /\ Head(<<x, y>>) = x
<1> DEFINE chain == <<x, y>>
<1>1. DOMAIN chain = {1, 2} /\ chain[1] = x /\ chain[2] = y /\ Head(chain) = x
  OBVIOUS
<1> HIDE DEF chain
<1>2. /\ CallFits(first, x) /\ CallFits(first, y) => ChainFits(first, chain)
      /\ CallIsAt(was, to, n, x) /\ CallIsAt(was, to, n, y) => ChainIsAt(was, to, n, chain)
  BY <1>1 DEF ChainFits, ChainIsAt
<1> QED
  BY <1>1, <1>2 DEF chain

(* The entries of prefix lists and route maps come last. *)
LEMMA EntriesLastStep ==
  ASSUME NEW was, NEW n, Ready(was, n), NEW c \in ListClass, n = UpdatedAt(c)
  PROVE  Leads(was, n, mem, cur, EntriesLast(c))
<1> DEFINE items == Update(c)
           moved == {i \in Update(c) : cur[c][i] # None /\ cur[c][i].fixed # want[c][i].fixed}
           deleted(i) == Do("delete", c, i, None)
           outline(i) == Do("create", c, i, Outline(want[c][i]))
           entries(i) == Do("createOrModify", c, i, want[c][i])
           f == [i \in items |->
                   IF i \in moved THEN <<Awaited(<<deleted(i), outline(i)>>), Awaited(<<entries(i)>>)>>
                                  ELSE <<Awaited(<<entries(i)>>)>>]
           classes == [i \in items |-> {c}]
           chains == EntriesLast(c)
<1>1. /\ c \in DeclaredClass /\ c \in Class /\ c \notin DOMAIN TwinOf /\ c \in Simple
      /\ c \notin {"Tunnel", "VXLAN", "DagGlobals", "TrafficControl"} /\ c \notin SingleClass
  BY ClassFacts DEF ListClass, DeclaredClass, SingleClass, TwinOf, Simple
<1>2. /\ items = New(was, want, c) /\ items \subseteq Item
      /\ \A i \in items : want[c][i] \in Values
  BY <1>1, Found
<1>3. /\ \A d \in Class \ {c} : Still(n, d, mem, mem)
      /\ n + 1 > UpdatedAt(c) /\ ~(n > UpdatedAt(c))
      /\ ~(n > DeletedAt(c)) /\ ~(n + 1 > DeletedAt(c))
      /\ n \notin {17, 18, 21, 22}
  BY <1>1, UpdateStill
<1>4. /\ \A x \in chains : \E i \in items : x = f[i]
      /\ \A i \in items : f[i] \in chains
  BY DEF EntriesLast, Each
<1>5. /\ \A i \in items \ moved : f[i] = <<Awaited(<<entries(i)>>)>>
      /\ \A i \in moved : f[i] = <<Awaited(<<deleted(i), outline(i)>>), Awaited(<<entries(i)>>)>>
      /\ \A i \in items : \A d : d \in classes[i] <=> d = c
      /\ moved \subseteq items
  OBVIOUS
<1>6. Remembers(was, want, n + 1, mem) /\ Reads(was, want, n + 1, cur)
  BY <1>3, RemembersOn, ReadsOn
<1>7. /\ \A i : deleted(i).class = c /\ outline(i).class = c
      /\ \A i \in items :
           /\ CommandFits(before, deleted(i)) /\ CommandFits(before, outline(i))
           /\ CommandFits(before, entries(i))
  <2>1. \A i : deleted(i).class = c /\ outline(i).class = c
    BY DEF Do
  <2>2. \A i \in items : CommandFits(before, deleted(i)) /\ CommandFits(before, outline(i))
    BY <1>1, <1>2, RefsAre, PlainFits
  <2>3. \A i \in items : CommandFits(before, entries(i))
    BY <1>1, <1>2, WantFits
  <2> QED
    BY <2>1, <2>2, <2>3
<1> HIDE DEF items, moved, f, classes, chains
<1>8. ASSUME NEW i \in items, NEW d \in Class, NEW j \in Item
      PROVE  /\ Writes(f[i], d, j) <=> j = i /\ d = c
             /\ j = i /\ d = c => Leaves(f[i], c, i, want[c][i])
  <2>1. /\ Hits(deleted(i), d, j) <=> j = i /\ d = c
        /\ Hits(outline(i), d, j) <=> j = i /\ d = c
        /\ Hits(entries(i), d, j) <=> j = i /\ d = c
    BY <1>1, OneHits
  <2>2. CASE i \notin moved
    <3>1. f[i] = <<Awaited(<<entries(i)>>)>>
      BY <1>5, <2>2
    <3> QED
      BY <2>1, <3>1, OneCallWrites, CommandHits
  <2>3. CASE i \in moved
    <3> DEFINE x == Awaited(<<deleted(i), outline(i)>>)
               y == Awaited(<<entries(i)>>)
    <3>1. f[i] = <<x, y>>
      BY <1>5, <2>3
    <3>2. HitsCall(x, d, j) <=> j = i /\ d = c
      BY <2>1, TwoCommands
    <3>3. (HitsCall(y, d, j) <=> j = i /\ d = c) /\ (j = i /\ d = c => CallLeaves(y, c, i, want[c][i]))
      BY <2>1, CommandHits
    <3> HIDE DEF x, y
    <3> QED
      BY <3>1, <3>2, <3>3, TwoCallsWrite
  <2> QED
    BY <2>2, <2>3
<1>9. \A i \in items : Is(was, want, n + 1, mem, c, i, want[c][i])
  BY <1>1, <1>2, <1>3, IsUnfolds DEF SimpleIs
<1>10. \A d \in Class, i \in Item, v \in Values \cup {None} :
         Is(was, want, n, mem, d, i, v) /\ ~(i \in items /\ d \in classes[i])
           => Is(was, want, n + 1, mem, d, i, v)
  <2>1. \A i \in Item \ items, v \in Values \cup {None} :
          Is(was, want, n, mem, c, i, v) => Is(was, want, n + 1, mem, c, i, v)
    BY <1>1, <1>2, <1>3, IsUnfolds DEF SimpleIs
  <2>2. n \in Nat
    BY Found
  <2> QED
    BY <1>3, <1>5, <2>1, <2>2, IsStays
<1>11. \A x \in loose, i \in items, d \in Class : d \in classes[i] => ~Writes(x, d, i)
  BY <1>1, <1>2, <1>5, Found
<1>12. ASSUME NEW i \in items
       PROVE  /\ ChainFits(before, f[i]) /\ ChainIsAt(was, want, n + 1, f[i])
              /\ Head(f[i]).awaited
  <2>1. \A x : Awaited(x).awaited
    BY DEF Awaited
  <2>2. \A x : Head(<<x>>) = x
    OBVIOUS
  <2>3. /\ CallFits(before, Awaited(<<entries(i)>>))
        /\ CallIsAt(was, want, n + 1, Awaited(<<entries(i)>>))
        /\ ChainFits(before, <<Awaited(<<entries(i)>>)>>)
        /\ ChainIsAt(was, want, n + 1, <<Awaited(<<entries(i)>>)>>)
    BY <1>1, <1>7, CommandFitsChain, CommandIsAt
  <2>4. CASE i \notin moved
    <3>1. f[i] = <<Awaited(<<entries(i)>>)>>
      BY <1>5, <2>4
    <3> QED
      BY <2>1, <2>2, <2>3, <3>1
  <2>5. CASE i \in moved
    <3> DEFINE x == Awaited(<<deleted(i), outline(i)>>)
               y == Awaited(<<entries(i)>>)
    <3>1. f[i] = <<x, y>>
      BY <1>5, <2>5
    <3>2. CallFits(before, x) /\ CallIsAt(was, want, n + 1, x)
      BY <1>1, <1>7, TwoCommands
    <3>3. CallFits(before, y) /\ CallIsAt(was, want, n + 1, y) /\ x.awaited
      BY <2>1, <2>3
    <3> HIDE DEF x, y
    <3> QED
      BY <3>1, <3>2, <3>3, TwoCalls
  <2> QED
    BY <2>4, <2>5
<1>13. Family(was, n, mem, chains, items, f, classes)
  <2>1. \A i \in items, d \in Class, j \in Item : Writes(f[i], d, j) <=> j = i /\ d \in classes[i]
    BY <1>5, <1>8
  <2>2. \A i \in items, d \in Class : d \in classes[i] =>
          \E v \in Values \cup {None} : Leaves(f[i], d, i, v) /\ Is(was, want, n + 1, mem, d, i, v)
    BY <1>1, <1>2, <1>5, <1>8, <1>9
  <2> QED
    BY <1>4, <1>10, <1>11, <1>12, <2>1, <2>2 DEF Family
<1>14. Leads(was, n, mem, cur, chains)
  BY <1>2, <1>6, <1>13, FamilyStep
<1> QED
  BY <1>14 DEF chains

(* Steps 36 and 37, prefix lists and route maps.                           *)
LEMMA EntriesLastSteps ==
  ASSUME NEW was, NEW n, Ready(was, n)
  PROVE  n \in {36, 37} => Goes(was, n)
<1>1. UpdatedAt("RoutingPrefixList") = 36 /\ UpdatedAt("RouteMap") = 37
  BY DEF UpdatedAt
<1>2. {"RoutingPrefixList", "RouteMap"} = ListClass
  BY DEF ListClass
<1>3. n = 36 => Started(n) = EntriesLast("RoutingPrefixList")
  BY NetworkStep, PlanIs, ChainsAre
<1>4. n = 37 => Started(n) = EntriesLast("RouteMap")
  BY NetworkStep, PlanIs, ChainsAre
<1>5. n \in {36, 37} => MemoryAfter(n) = mem /\ ConfigAfter(n) = cur
  BY NetworkStep
<1> QED
  BY <1>1, <1>2, <1>3, <1>4, <1>5, EntriesLastStep DEF Goes

(* The tunnels that handleTunnel finds.                                    *)
LEMMA TunnelsAre ==
  ASSUME NEW was, NEW n, Ready(was, n)
  PROVE  /\ Update("Tunnel") = New(was, want, "Tunnel") /\ New(was, want, "Tunnel") \subseteq Item
         /\ \A i \in New(was, want, "Tunnel") : want["Tunnel"][i] \in Values
         /\ VxlanTunnels = NewVxlan(was, want) /\ NewVxlan(was, want) \subseteq New(was, want, "Tunnel")
         /\ Recreated = OldTunnels(was, want)
         /\ OldTunnels(was, want) \subseteq New(was, want, "Tunnel")
         /\ VxlanGoing = {i \in OldTunnels(was, want) : was["Tunnel"][i].fixed \in Vxlan}
         /\ \A i \in Item : cur["Tunnel"][i] = was["Tunnel"][i]
         /\ "Tunnel" \in DeclaredClass /\ "Tunnel" \notin DOMAIN TwinOf
<1>1. "Tunnel" \in DeclaredClass /\ "Tunnel" \notin DOMAIN TwinOf
  BY TwinFacts DEF DeclaredClass
<1>2. /\ Update("Tunnel") = New(was, want, "Tunnel") /\ New(was, want, "Tunnel") \subseteq Item
      /\ \A i \in New(was, want, "Tunnel") : want["Tunnel"][i] \in Values
      /\ \A i \in Item : cur["Tunnel"][i] = was["Tunnel"][i]
  BY <1>1, Found
<1>3. VxlanTunnels = NewVxlan(was, want) /\ NewVxlan(was, want) \subseteq New(was, want, "Tunnel")
  BY <1>2 DEF VxlanTunnels, NewVxlan
<1>4. /\ \A i \in New(was, want, "Tunnel") : cur["Tunnel"][i] = was["Tunnel"][i]
      /\ OldTunnels(was, want) \subseteq New(was, want, "Tunnel")
  BY <1>2 DEF OldTunnels
<1>5. Recreated = OldTunnels(was, want)
  BY <1>2, <1>3, <1>4 DEF Recreated, OldTunnels
<1>6. VxlanGoing = {i \in OldTunnels(was, want) : was["Tunnel"][i].fixed \in Vxlan}
  BY <1>4, <1>5 DEF VxlanGoing
<1> QED
  BY <1>1, <1>2, <1>3, <1>4, <1>5, <1>6

(* Steps 6 and 9: tunnels are deleted, and made.                           *)
LEMMA TunnelSteps ==
  ASSUME NEW was, NEW n, Ready(was, n)
  PROVE  n \in {6, 9} => Goes(was, n)
<1> DEFINE c == "Tunnel"
           old == OldTunnels(was, want)
           new == New(was, want, c)
<1>1. c \in DeclaredClass /\ c \in Class /\ c \notin DOMAIN TwinOf /\ c \notin SingleClass
      /\ c # "SelfIp" /\ c # "VXLAN"
  BY ClassFacts DEF DeclaredClass, SingleClass, TwinOf
<1>2. n \in {6, 9} => \A d \in Class \ {c} : Still(n, d, mem, mem)
  BY Elsewhere DEF Still
<1>3. /\ Recreated = old /\ old \subseteq new /\ Update(c) = new /\ new \subseteq Item
  BY TunnelsAre
<1>4. n \in {6, 9} => Remembers(was, want, n + 1, mem)
  BY RemembersOn
<1>5. CASE n = 6
  <2>1. Started(n) = Each("delete", c, old, Nothing) /\ MemoryAfter(n) = mem /\ ConfigAfter(n) = cur
    BY <1>3, <1>5, NetworkStep, PlanIs, ChainsAre
  <2>2. \A i \in old : Is(was, want, n + 1, mem, c, i, None)
    BY <1>5, IsUnfoldsElse DEF TunnelIs
  <2>3. \A i \in Item \ old, v \in Values \cup {None} :
          Is(was, want, n, mem, c, i, v) => Is(was, want, n + 1, mem, c, i, v)
    BY <1>5, IsUnfoldsElse DEF TunnelIs
  <2>4. old \subseteq Item
    BY <1>3
  <2> HIDE DEF c, old
  <2>5. OnlyAbout(was, n, mem, c, old)
    BY <1>2, <1>5, <2>3 DEF OnlyAbout
  <2>6. Leads(was, n, mem, cur, Each("delete", c, old, Nothing))
    BY <1>1, <1>4, <1>5, <2>2, <2>4, <2>5, TakeStep
  <2> QED
    BY <2>1, <2>6 DEF Goes
<1>6. CASE n = 9
  <2>1. Started(n) = Each("createOrModify", c, new, want[c]) /\ MemoryAfter(n) = mem
        /\ ConfigAfter(n) = cur
    BY <1>3, <1>6, NetworkStep, PlanIs, ChainsAre DEF CreateOrModify
  <2>2. \A i \in new : Is(was, want, n + 1, mem, c, i, want[c][i])
    BY <1>6, IsUnfoldsElse DEF TunnelIs
  <2>3. \A i \in Item \ new, v \in Values \cup {None} :
          Is(was, want, n, mem, c, i, v) => Is(was, want, n + 1, mem, c, i, v)
    BY <1>3, <1>6, IsUnfoldsElse DEF TunnelIs
  <2>4. new \subseteq New(was, want, c)
    OBVIOUS
  <2>5. ~(n >= 53) /\ n \notin {17, 18, 21, 22}
    BY <1>6
  <2>6. \A d \in Class \ {c} : Still(n, d, mem, mem)
    BY <1>2, <1>6
  <2> HIDE DEF c, new
  <2>7. OnlyAbout(was, n, mem, c, new)
    BY <2>3, <2>6 DEF OnlyAbout
  <2>8. Leads(was, n, mem, cur, Each("createOrModify", c, new, want[c]))
    BY <1>1, <2>2, <2>4, <2>5, <2>7, MakeStep
  <2> QED
    BY <2>1, <2>8 DEF Goes
<1> QED
  BY <1>5, <1>6

(* Steps 7 and 8: so are the profiles, in between.                         *)
LEMMA VxlanSteps ==
  ASSUME NEW was, NEW n, Ready(was, n)
  PROVE  n \in {7, 8} => Goes(was, n)
<1> DEFINE c == "VXLAN"
           old == VxlanGoing
           new == NewVxlan(was, want)
           values == VxlanProfiles
<1>1. c \in Class /\ c \notin DOMAIN TwinOf /\ c \notin SingleClass
      /\ c \notin {"SelfIp", "Tunnel", "DagGlobals", "TrafficControl"}
  BY DEF Class, SingleClass, TwinOf
<1>2. n \in {7, 8} => \A d \in Class \ {c} : Still(n, d, mem, mem)
  BY Elsewhere DEF Still
<1>3. /\ VxlanTunnels = new /\ new \subseteq Item
      /\ old = {i \in OldTunnels(was, want) : was["Tunnel"][i].fixed \in Vxlan} /\ old \subseteq Item
      /\ \A i \in new : want["Tunnel"][i] \in Values
  BY TunnelsAre
<1>4. n \in {7, 8} => Remembers(was, want, n + 1, mem)
  BY RemembersOn
<1>5. CASE n = 7
  <2>1. Started(n) = Each("delete", c, old, Nothing) /\ MemoryAfter(n) = mem /\ ConfigAfter(n) = cur
    BY <1>5, NetworkStep, PlanIs, ChainsAre
  <2>2. \A i \in old : Is(was, want, n + 1, mem, c, i, None)
    <3>1. \A i \in old : i \in OldTunnels(was, want) /\ was["Tunnel"][i].fixed \in Vxlan
      BY <1>3
    <3> QED
      BY <1>5, <3>1, IsUnfoldsElse DEF VxlanIs
  <2>3. \A i \in Item \ old, v \in Values \cup {None} :
          Is(was, want, n, mem, c, i, v) => Is(was, want, n + 1, mem, c, i, v)
    <3>1. \A i \in Item \ old : ~(i \in OldTunnels(was, want) /\ was["Tunnel"][i].fixed \in Vxlan)
      BY <1>3
    <3> QED
      BY <1>5, <3>1, IsUnfoldsElse DEF VxlanIs
  <2>4. n <= 32 /\ \A d \in Class \ {c} : Still(n, d, mem, mem)
    BY <1>2, <1>5
  <2>5. Remembers(was, want, n + 1, mem)
    BY <1>4, <1>5
  <2> HIDE DEF c, old
  <2>6. OnlyAbout(was, n, mem, c, old)
    BY <2>3, <2>4 DEF OnlyAbout
  <2>7. Leads(was, n, mem, cur, Each("delete", c, old, Nothing))
    BY <1>1, <1>3, <2>2, <2>4, <2>5, <2>6, TakeStep
  <2> QED
    BY <2>1, <2>7 DEF Goes
<1>6. CASE n = 8
  <2>1. Started(n) = Each("createOrModify", c, new, values) /\ MemoryAfter(n) = mem
        /\ ConfigAfter(n) = cur
    BY <1>3, <1>6, NetworkStep, PlanIs, ChainsAre
  <2>2. \A i \in new : values[i] = Profile(want["Tunnel"][i])
    BY <1>3 DEF VxlanProfiles
  <2>3. \A i \in new : Is(was, want, n + 1, mem, c, i, values[i])
    BY <1>6, <2>2, IsUnfoldsElse DEF VxlanIs
  <2>4. \A i \in Item \ new, v \in Values \cup {None} :
          Is(was, want, n, mem, c, i, v) => Is(was, want, n + 1, mem, c, i, v)
    BY <1>3, <1>6, IsUnfoldsElse DEF VxlanIs
  <2>5. \A i \in new : values[i] \in Values /\ CommandFits(before, Do("createOrModify", c, i, values[i]))
    <3>1. \A i \in new : Fits(c, i, Profile(want["Tunnel"][i])) /\ Profile(want["Tunnel"][i]) \in Values
      BY <1>1, <1>3, RefsAre, NetworkAssumption
    <3> QED
      BY <1>1, <2>2, <3>1, PlainFits
  <2>6. /\ n <= 32 /\ n = 8 /\ \A d \in Class \ {c} : Still(n, d, mem, mem)
        /\ Remembers(was, want, n + 1, mem) /\ c # "Tunnel" /\ c # "SelfIp"
    BY <1>2, <1>4, <1>6
  <2>7. \A i \in new : NewVxlan(was, want) # {}
    OBVIOUS
  <2> HIDE DEF c, new, values
  <2>8. \A i \in new :
          /\ values[i] \in Values \cup {None}
          /\ CommandFits(before, Do("createOrModify", c, i, values[i]))
          /\ Is(was, want, n + 1, mem, c, i, values[i])
          /\ NewVxlan(was, want) # {}
    BY <2>3, <2>5, <2>7
  <2>9. OnlyAbout(was, n, mem, c, new)
    BY <2>4, <2>6 DEF OnlyAbout
  <2>10. Leads(was, n, mem, cur, Each("createOrModify", c, new, values))
    BY <1>1, <1>3, <2>6, <2>8, <2>9, EachStep
  <2> QED
    BY <2>1, <2>10 DEF Goes
<1> QED
  BY <1>5, <1>6

(* Step 10 puts the traffic control back.                                  *)
LEMMA AcceptIpOptionsStep ==
  ASSUME NEW was, Ready(was, 10)
  PROVE  Goes(was, 10)
<1> DEFINE c == "TrafficControl"
           said == IF Update(c) = {} THEN cur ELSE want
           items == IF NewVxlan(was, want) = {} THEN {} ELSE {Only}
           values == said[c]
<1>1. Only \in Item
  BY NetworkAssumption
<1>2. c \in DeclaredClass /\ c \in Class /\ c \notin DOMAIN TwinOf /\ c \in SingleClass
      /\ c \notin {"SelfIp", "Tunnel", "DagGlobals", "VXLAN"}
  BY ClassFacts DEF DeclaredClass, SingleClass, TwinOf
<1>3. \A d \in Class \ {c} : Still(10, d, mem, mem)
  BY Elsewhere DEF Still
<1>4. /\ Update(c) = New(was, want, c) /\ Seen(was, want)[c] = was[c]
      /\ \A i \in Item : cur[c][i] = was[c][i]
      /\ \A i \in Item : was[c][i] \in Values \cup {None}
      /\ want[c] \in Section
  BY <1>2, Found, ConfigFacts
<1>5. /\ before[c][Only] # None /\ was[c][Only] # None /\ want[c][Only] # None
      /\ Fits(c, Only, was[c][Only]) /\ Fits(c, Only, want[c][Only])
  BY <1>1, <1>2 DEF Ready, DeviceFits, ConfigFits
<1>6. /\ values[Only] = want[c][Only] \/ values[Only] = was[c][Only]
      /\ values[Only] = want[c][Only]
  <2>1. Update(c) = {} => was[c][Only] = want[c][Only]
    BY <1>1, <1>4, <1>5 DEF New, Present
  <2> QED
    BY <1>1, <1>4, <2>1
<1>7. values[Only] \in Values /\ CommandFits(before, Do("set", c, Only, values[Only]))
  <2>1. want[c][Only] \in Values
    BY <1>1, <1>4, <1>5 DEF Section
  <2> QED
    BY <1>2, <1>5, <1>6, <2>1, NetworkAssumption DEF CommandFits, Do
<1>8. Started(10) = AcceptIpOptions /\ MemoryAfter(10) = mem /\ ConfigAfter(10) = cur
  BY NetworkStep, PlanIs, ChainsAre
<1>9. AcceptIpOptions = Each("set", c, items, values)
  <2>1. VxlanTunnels = NewVxlan(was, want)
    BY TunnelsAre
  <2> QED
    BY <2>1 DEF AcceptIpOptions, Each
<1>10. \A i \in items : i = Only /\ i \in Item
  BY <1>1
<1>11. Is(was, want, 10 + 1, mem, c, Only, values[Only])
  BY <1>6, IsUnfoldsElse
<1>12. \A i \in Item \ items, v \in Values \cup {None} :
         Is(was, want, 10, mem, c, i, v) => Is(was, want, 10 + 1, mem, c, i, v)
  BY IsUnfoldsElse
<1>13. Remembers(was, want, 10 + 1, mem) /\ 10 <= 32
  BY RemembersOn
<1> HIDE DEF items, values, c
<1>14. \A i \in items :
         /\ values[i] \in Values \cup {None}
         /\ CommandFits(before, Do("set", c, i, values[i]))
         /\ Is(was, want, 10 + 1, mem, c, i, values[i])
  BY <1>7, <1>10, <1>11
<1>15. items \subseteq Item
  BY <1>10
<1>16. OnlyAbout(was, 10, mem, c, items)
  BY <1>3, <1>12 DEF OnlyAbout
<1>17. Leads(was, 10, mem, cur, Each("set", c, items, values))
  BY <1>2, <1>13, <1>14, <1>15, <1>16, EachStep
<1> QED
  BY <1>8, <1>9, <1>17 DEF Goes

(* Step 53, tunnels that are gone; their profiles go after them, and       *)
(* nobody waits for that.                                                  *)
LEMMA TunnelsGoStep ==
  ASSUME NEW was, Ready(was, 53)
  PROVE  Goes(was, 53)
<1> DEFINE c == "Tunnel"
           n == 53
           items == Items(c)
           vxlan == {i \in items : cur[c][i].fixed \in Vxlan}
           tunnel(i) == Do("clear", c, i, None)
           profile(i) == Do("clear", "VXLAN", i, None)
           f == [i \in items |->
                   IF cur[c][i].fixed \in Vxlan
                     THEN <<Awaited(<<tunnel(i)>>), Unawaited(<<profile(i)>>)>>
                     ELSE <<Awaited(<<tunnel(i)>>)>>]
           classes == [i \in items |-> IF i \in vxlan THEN {c, "VXLAN"} ELSE {c}]
           chains == Deletion(c)
<1>1. /\ c \in DeclaredClass /\ c \in Class /\ c \notin DOMAIN TwinOf /\ c \notin SingleClass
      /\ "VXLAN" \in Class /\ "VXLAN" \notin DOMAIN TwinOf /\ "VXLAN" \notin SingleClass
      /\ c # "VXLAN" /\ c # "RouteDomain"
  BY ClassFacts DEF DeclaredClass, SingleClass, TwinOf, Class
<1>2. /\ items = Going(was, want, c) /\ items \subseteq Item
      /\ \A i \in items : cur[c][i] = was[c][i]
  BY <1>1, GoingIs, Found
<1>3. vxlan = GoingVxlan(was, want) /\ vxlan \subseteq items
  BY <1>2 DEF GoingVxlan
<1>4. Started(53) = chains /\ MemoryAfter(53) = mem /\ ConfigAfter(53) = cur
  BY <1>1, DeleteStep, DeletePlanIs
<1>5. chains = {f[i] : i \in items}
  BY <1>1 DEF Deletion
<1>6. /\ \A x \in chains : \E i \in items : x = f[i]
      /\ \A i \in items : f[i] \in chains
  BY <1>5
<1>7. /\ \A i \in vxlan : f[i] = <<Awaited(<<tunnel(i)>>), Unawaited(<<profile(i)>>)>>
      /\ \A i \in items \ vxlan : f[i] = <<Awaited(<<tunnel(i)>>)>>
      /\ \A i \in items : \A d : d \in classes[i] <=> d = c \/ (d = "VXLAN" /\ i \in vxlan)
  OBVIOUS
<1>8. /\ \A d \in Class \ {c, "VXLAN"} : Still(n, d, mem, mem)
      /\ Remembers(was, want, n + 1, mem) /\ Reads(was, want, n + 1, cur) /\ Ready(was, n)
      /\ n \in Nat
  BY Elsewhere, RemembersOn, ReadsOn DEF Still
<1>9. /\ \A i \in items : Is(was, want, n + 1, mem, c, i, None)
      /\ \A i \in vxlan : Is(was, want, n + 1, mem, "VXLAN", i, None)
      /\ \A i \in Item \ items, v \in Values \cup {None} :
           Is(was, want, n, mem, c, i, v) => Is(was, want, n + 1, mem, c, i, v)
      /\ \A i \in Item \ vxlan, v \in Values \cup {None} :
           Is(was, want, n, mem, "VXLAN", i, v) => Is(was, want, n + 1, mem, "VXLAN", i, v)
  <2>1. \A i \in items : Is(was, want, n + 1, mem, c, i, None)
    BY <1>2, IsUnfoldsElse DEF TunnelIs
  <2>2. \A i \in vxlan : Is(was, want, n + 1, mem, "VXLAN", i, None)
    BY <1>3, IsUnfoldsElse DEF VxlanIs
  <2>3. \A i \in Item \ items, v \in Values \cup {None} :
          Is(was, want, n, mem, c, i, v) => Is(was, want, n + 1, mem, c, i, v)
    BY <1>2, IsUnfoldsElse DEF TunnelIs
  <2>4. \A i \in Item \ vxlan, v \in Values \cup {None} :
          Is(was, want, n, mem, "VXLAN", i, v) => Is(was, want, n + 1, mem, "VXLAN", i, v)
    BY <1>3, IsUnfoldsElse DEF VxlanIs
  <2> QED
    BY <2>1, <2>2, <2>3, <2>4
<1>10. \A x \in loose, i \in items, d \in Class : d \in {c, "VXLAN"} => ~Writes(x, d, i)
  <2>1. \A x \in loose : LooseIs(device, was, want, n, x)
    BY DEF Ready
  <2>2. ~(n > 53) /\ c # "DagGlobals" /\ "VXLAN" # "DagGlobals" /\ c # "VXLAN"
    OBVIOUS
  <2> HIDE DEF n, c, items
  <2> QED
    BY <2>1, <2>2, LooseWrites
<1>11. n + 1 > 53
  OBVIOUS
<1> HIDE DEF items, vxlan, f, classes, chains, n, c
<1>12. ASSUME NEW i \in items, NEW d \in Class, NEW j \in Item
       PROVE  /\ Writes(f[i], d, j) <=> j = i /\ d \in classes[i]
              /\ j = i /\ d \in classes[i] => Leaves(f[i], d, i, None)
  <2>1. Hits(tunnel(i), d, j) <=> j = i /\ d = c
    BY <1>1, OneHits
  <2>2. Hits(profile(i), d, j) <=> j = i /\ d = "VXLAN"
    BY <1>1, OneHits
  <2>3. CASE i \notin vxlan
    <3>1. f[i] = <<Awaited(<<tunnel(i)>>)>> /\ (d \in classes[i] <=> d = c)
      BY <1>7, <2>3
    <3> QED
      BY <2>1, <3>1, OneCallWrites, CommandHits
  <2>4. CASE i \in vxlan
    <3> DEFINE x == Awaited(<<tunnel(i)>>)
               y == Unawaited(<<profile(i)>>)
    <3>1. f[i] = <<x, y>> /\ (d \in classes[i] <=> d = c \/ d = "VXLAN")
      BY <1>7, <2>4
    <3>2. (HitsCall(x, d, j) <=> j = i /\ d = c) /\ (j = i /\ d = c => CallLeaves(x, d, i, None))
      BY <2>1, CommandHits
    <3>3. /\ HitsCall(y, d, j) <=> j = i /\ d = "VXLAN"
          /\ j = i /\ d = "VXLAN" => CallLeaves(y, d, i, None)
      BY <2>2, CommandHits
    <3> HIDE DEF x, y
    <3>4. Writes(<<x, y>>, d, j) <=> j = i /\ (d = c \/ d = "VXLAN")
      BY <3>2, <3>3, TwoCallsWrite
    <3>5. j = i /\ d = "VXLAN" => Leaves(<<x, y>>, d, i, None)
      BY <3>3, TwoCallsWrite
    <3>6. j = i /\ d = c => Leaves(<<x, y>>, d, i, None)
      BY <1>1, <3>2, <3>3, TwoCallsWrite
    <3> QED
      BY <3>1, <3>4, <3>5, <3>6
  <2> QED
    BY <2>3, <2>4
<1>13. \A d \in Class, i \in Item, v \in Values \cup {None} :
         Is(was, want, n, mem, d, i, v) /\ ~(i \in items /\ d \in classes[i])
           => Is(was, want, n + 1, mem, d, i, v)
  <2> SUFFICES ASSUME NEW d \in Class, NEW i \in Item, NEW v \in Values \cup {None},
                      Is(was, want, n, mem, d, i, v), ~(i \in items /\ d \in classes[i])
               PROVE  Is(was, want, n + 1, mem, d, i, v)
    OBVIOUS
  <2>1. CASE d = c
    BY <1>7, <1>9, <2>1
  <2>2. CASE d = "VXLAN"
    BY <1>3, <1>7, <1>9, <2>2
  <2>3. CASE d \notin {c, "VXLAN"}
    BY <1>8, <2>3, IsStays
  <2> QED
    BY <2>1, <2>2, <2>3
<1>14. ASSUME NEW i \in items
       PROVE  /\ ChainFits(before, f[i]) /\ ChainIsAt(was, want, n + 1, f[i])
              /\ Head(f[i]).awaited
  <2>1. \A x : Awaited(x).awaited
    BY DEF Awaited
  <2>2. \A x : Head(<<x>>) = x
    OBVIOUS
  <2>3. CommandFits(before, tunnel(i)) /\ CommandFits(before, profile(i))
    BY <1>1, PlainFits
  <2>4. /\ CallFits(before, Awaited(<<tunnel(i)>>))
        /\ CallIsAt(was, want, n + 1, Awaited(<<tunnel(i)>>))
        /\ ChainFits(before, <<Awaited(<<tunnel(i)>>)>>)
        /\ ChainIsAt(was, want, n + 1, <<Awaited(<<tunnel(i)>>)>>)
        /\ CallFits(before, Unawaited(<<profile(i)>>))
        /\ CallIsAt(was, want, n + 1, Unawaited(<<profile(i)>>))
    BY <2>3, CommandFitsChain, CommandIsAt
  <2>5. CASE i \notin vxlan
    BY <1>7, <2>1, <2>2, <2>4, <2>5
  <2>6. CASE i \in vxlan
    <3> DEFINE x == Awaited(<<tunnel(i)>>)
               y == Unawaited(<<profile(i)>>)
    <3>1. f[i] = <<x, y>> /\ x.awaited
      BY <1>7, <2>1, <2>6
    <3>2. /\ CallFits(before, x) /\ CallIsAt(was, want, n + 1, x)
          /\ CallFits(before, y) /\ CallIsAt(was, want, n + 1, y)
      BY <2>4
    <3> HIDE DEF x, y
    <3> QED
      BY <3>1, <3>2, TwoCalls
  <2> QED
    BY <2>5, <2>6
<1>15. Family(was, n, mem, chains, items, f, classes)
  <2>1. \A i \in items, d \in Class, j \in Item : Writes(f[i], d, j) <=> j = i /\ d \in classes[i]
    BY <1>12
  <2>2. \A i \in items, d \in Class : d \in classes[i] =>
          \E v \in Values \cup {None} : Leaves(f[i], d, i, v) /\ Is(was, want, n + 1, mem, d, i, v)
    BY <1>2, <1>7, <1>9, <1>12
  <2>3. \A x \in loose, i \in items, d \in Class : d \in classes[i] => ~Writes(x, d, i)
    BY <1>7, <1>10
  <2> QED
    BY <1>6, <1>13, <1>14, <2>1, <2>2, <2>3 DEF Family
<1>16. Leads(was, n, mem, cur, chains)
  BY <1>2, <1>8, <1>15, FamilyStep
<1> QED
  BY <1>4, <1>16 DEF Goes, n

(* The two classes of a list.                                              *)
LEMMA TwinsAre ==
  ASSUME NEW c \in DOMAIN TwinOf
  PROVE  /\ TwinOf[c] \in DOMAIN TwinOf /\ TwinOf[TwinOf[c]] = c /\ TwinOf[c] # c
         /\ \A d \in DOMAIN TwinOf : c = TwinOf[d] <=> d = TwinOf[c]
         /\ First(TwinOf[c]) = First(c) /\ First(c) \in {c, TwinOf[c]}
         /\ c # First(c) => c = TwinOf[First(c)]
         /\ c \in DeclaredClass /\ c \in Class /\ c \notin SingleClass
         /\ c \notin {"VXLAN", "Tunnel", "DagGlobals", "TrafficControl", "SelfIp", "RouteDomain"}
<1>1. /\ TwinOf["NetAddressList"] = "FirewallAddressList"
      /\ TwinOf["FirewallAddressList"] = "NetAddressList"
      /\ TwinOf["NetPortList"] = "FirewallPortList"
      /\ TwinOf["FirewallPortList"] = "NetPortList"
      /\ DOMAIN TwinOf = {"NetAddressList", "FirewallAddressList", "NetPortList", "FirewallPortList"}
  BY DEF TwinOf
<1>2. /\ TwinOf[c] \in DOMAIN TwinOf /\ TwinOf[TwinOf[c]] = c /\ TwinOf[c] # c
      /\ \A d \in DOMAIN TwinOf : c = TwinOf[d] <=> d = TwinOf[c]
  BY <1>1
<1>3. /\ First(TwinOf[c]) = First(c) /\ First(c) \in {c, TwinOf[c]}
      /\ c # First(c) => c = TwinOf[First(c)]
  BY <1>1 DEF First
<1>4. /\ c \notin SingleClass
      /\ c \notin {"VXLAN", "Tunnel", "DagGlobals", "TrafficControl", "SelfIp", "RouteDomain"}
  BY <1>1 DEF SingleClass
<1>5. c \in DeclaredClass /\ c \in Class
  BY TwinFacts, ClassFacts
<1> QED
  BY <1>2, <1>3, <1>4, <1>5

(* A command for each of some items of a list, in either of its classes. *)
Twins(was, n, chains, op, c, items, e, values) ==
  /\ \A x \in chains : \E i \in items : x = <<Awaited(<<Do(op, e[i], i, values[i])>>)>>
  /\ \A i \in items : <<Awaited(<<Do(op, e[i], i, values[i])>>)>> \in chains
  /\ \A i \in items : /\ e[i] \in {c, TwinOf[c]} /\ (Afm \/ (e[i] = c /\ c # First(c)))
                      /\ values[i] \in Values \cup {None}
                      /\ values[i] # None => Fits(e[i], i, values[i])
                      /\ Is(was, want, n + 1, mem, c, i, values[i])
                      /\ Afm => Is(was, want, n + 1, mem, TwinOf[c], i, values[i])
  /\ \A d \in {c, TwinOf[c]}, i \in Item, v \in Values \cup {None} :
       Is(was, want, n, mem, d, i, v) /\ ~(i \in items /\ (Afm \/ d = c))
         => Is(was, want, n + 1, mem, d, i, v)
  /\ \A d \in Class \ {c, TwinOf[c]} : Still(n, d, mem, mem)

(* A step that starts such commands does what it is to do.                 *)
LEMMA TwinStep ==
  ASSUME NEW was, NEW n, Ready(was, n), NEW config, NEW chains, NEW op,
         NEW c \in DOMAIN TwinOf, NEW items, items \subseteq Item, NEW e, NEW values,
         Remembers(was, want, n + 1, mem), Reads(was, want, n + 1, config),
         Twins(was, n, chains, op, c, items, e, values)
  PROVE  Leads(was, n, mem, config, chains)
<1> DEFINE f == [i \in items |-> <<Awaited(<<Do(op, e[i], i, values[i])>>)>>]
           classes == [i \in items |-> IF Afm THEN {c, TwinOf[c]} ELSE {c}]
<1>1. /\ \A x \in chains : \E i \in items : x = f[i]
      /\ \A i \in items : f[i] \in chains
      /\ \A i \in items : f[i] = <<Awaited(<<Do(op, e[i], i, values[i])>>)>>
      /\ \A i \in items : \A d : d \in classes[i] <=> d = c \/ (Afm /\ d = TwinOf[c])
  BY DEF Twins
<1>2. /\ TwinOf[c] \in DOMAIN TwinOf /\ TwinOf[TwinOf[c]] = c /\ TwinOf[c] # c
      /\ \A d \in DOMAIN TwinOf : c = TwinOf[d] <=> d = TwinOf[c]
      /\ First(TwinOf[c]) = First(c)
      /\ {c, TwinOf[c]} \cap {"VXLAN", "Tunnel", "DagGlobals", "TrafficControl"} = {}
      /\ \A d \in {c, TwinOf[c]} : d \in Class /\ d \notin SingleClass
  BY TwinsAre
<1> HIDE DEF f, classes
<1>3. ASSUME NEW i \in items, NEW d \in Class, NEW j \in Item
      PROVE  /\ Writes(f[i], d, j) <=> j = i /\ d \in classes[i]
             /\ j = i /\ d \in classes[i] => Leaves(f[i], d, i, values[i])
  <2>1. Hits(Do(op, e[i], i, values[i]), d, j) <=>
          j = i /\ (d = e[i] \/ (Afm /\ d \in DOMAIN TwinOf /\ e[i] = TwinOf[d]))
    BY DEF Hits, Do
  <2>2. d = e[i] \/ (Afm /\ d \in DOMAIN TwinOf /\ e[i] = TwinOf[d]) <=> d \in classes[i]
    <3>1. e[i] = c \/ (e[i] = TwinOf[c] /\ Afm)
      BY DEF Twins
    <3>2. CASE e[i] = c
      BY <1>1, <1>2, <3>2
    <3>3. CASE e[i] = TwinOf[c] /\ Afm
      <4>1. \A g \in DOMAIN TwinOf : TwinOf[c] = TwinOf[g] <=> g = c
        BY <1>2, TwinsAre
      <4> QED
        BY <1>1, <1>2, <3>3, <4>1
    <3> QED
      BY <3>1, <3>2, <3>3
  <2>3. f[i] = <<Awaited(<<Do(op, e[i], i, values[i])>>)>>
    BY <1>1
  <2> QED
    BY <2>1, <2>2, <2>3, OneCallWrites, CommandHits
<1>4. ASSUME NEW i \in items
      PROVE  /\ ChainFits(before, f[i]) /\ ChainIsAt(was, want, n + 1, f[i])
             /\ Head(f[i]).awaited
  <2>1. CommandFits(before, Do(op, e[i], i, values[i]))
    <3>1. /\ e[i] \in {c, TwinOf[c]} /\ (Afm \/ (e[i] = c /\ c # First(c)))
          /\ values[i] # None => Fits(e[i], i, values[i])
      BY DEF Twins
    <3> QED
      BY <1>2, <3>1 DEF CommandFits, Do
  <2>2. f[i] = <<Awaited(<<Do(op, e[i], i, values[i])>>)>>
    BY <1>1
  <2>3. e[i] # "VXLAN" /\ e[i] # "Tunnel"
    <3>1. e[i] \in {c, TwinOf[c]}
      BY DEF Twins
    <3> QED
      BY <1>2, <3>1
  <2>4. ChainFits(before, f[i]) /\ ChainIsAt(was, want, n + 1, f[i])
    <3>1. ChainFits(before, <<Awaited(<<Do(op, e[i], i, values[i])>>)>>)
      BY <2>1, CommandFitsChain
    <3>2. ChainIsAt(was, want, n + 1, <<Awaited(<<Do(op, e[i], i, values[i])>>)>>)
      BY <2>3, CommandIsAt
    <3> QED
      BY <2>2, <3>1, <3>2
  <2>5. \A x : Awaited(x).awaited
    BY DEF Awaited
  <2>6. \A x : Head(<<x>>) = x
    OBVIOUS
  <2> QED
    BY <2>2, <2>4, <2>5, <2>6
<1>5. \A d \in Class, i \in Item, v \in Values \cup {None} :
         Is(was, want, n, mem, d, i, v) /\ ~(i \in items /\ d \in classes[i])
           => Is(was, want, n + 1, mem, d, i, v)
  <2> SUFFICES ASSUME NEW d \in Class, NEW i \in Item, NEW v \in Values \cup {None},
                      Is(was, want, n, mem, d, i, v), ~(i \in items /\ d \in classes[i])
               PROVE  Is(was, want, n + 1, mem, d, i, v)
    OBVIOUS
  <2>1. CASE d \in {c, TwinOf[c]}
    <3>1. ~(i \in items /\ (Afm \/ d = c))
      BY <1>1, <2>1
    <3> QED
      BY <2>1, <3>1 DEF Twins
  <2>2. CASE d \notin {c, TwinOf[c]}
    <3>1. n \in Nat /\ Still(n, d, mem, mem)
      BY <2>2, Found DEF Twins
    <3> QED
      BY <3>1, IsStays
  <2> QED
    BY <2>1, <2>2
<1>6. \A i \in items, d \in Class : d \in classes[i] =>
        \E v \in Values \cup {None} : Leaves(f[i], d, i, v) /\ Is(was, want, n + 1, mem, d, i, v)
  <2> SUFFICES ASSUME NEW i \in items, NEW d \in Class, d \in classes[i]
               PROVE  /\ Leaves(f[i], d, i, values[i]) /\ values[i] \in Values \cup {None}
                      /\ Is(was, want, n + 1, mem, d, i, values[i])
    OBVIOUS
  <2>1. d = c \/ (Afm /\ d = TwinOf[c])
    BY <1>1
  <2>2. i \in Item
    OBVIOUS
  <2>3. /\ Is(was, want, n + 1, mem, c, i, values[i]) /\ values[i] \in Values \cup {None}
        /\ Afm => Is(was, want, n + 1, mem, TwinOf[c], i, values[i])
    BY DEF Twins
  <2> QED
    BY <1>3, <2>1, <2>2, <2>3
<1>7. \A x \in loose, i \in items, d \in Class : d \in classes[i] => ~Writes(x, d, i)
  <2>1. \A i \in items, d \in Class : d \in classes[i] => d \notin {"DagGlobals", "VXLAN"}
    BY <1>1, <1>2
  <2>2. \A i \in items : i \in Item
    OBVIOUS
  <2> QED
    BY <2>1, <2>2, Found
<1>8. Family(was, n, mem, chains, items, f, classes)
  <2>1. \A i \in items, d \in Class, j \in Item : Writes(f[i], d, j) <=> j = i /\ d \in classes[i]
    BY <1>3
  <2> QED
    BY <1>1, <1>4, <1>5, <1>6, <1>7, <2>1 DEF Family
<1> QED
  BY <1>8, FamilyStep

(* When a list is made, and when it goes. *)
MadeAt(c) == IF c = First(c) THEN FirstAt(c) ELSE FirstAt(c) + 3

(* The steps of a list and of its twin.                                    *)
LEMMA ListTimes ==
  ASSUME NEW c \in DOMAIN TwinOf
  PROVE  /\ FirstAt(TwinOf[c]) = FirstAt(c) /\ ListGoesAt(TwinOf[c]) = ListGoesAt(c)
         /\ FirstAt(c) \in {11, 12}
         /\ ListGoesAt(c) = FirstAt(c) + (IF Afm THEN 33 ELSE 35)
         /\ GoneAt(c) = FirstAt(c) + (IF c = First(c) THEN 33 ELSE 35)
         /\ MadeAt(c) = FirstAt(c) + (IF c = First(c) THEN 0 ELSE 3)
<1>1. /\ GoneAt("FirewallAddressList") = 44 /\ GoneAt("FirewallPortList") = 45
      /\ GoneAt("NetAddressList") = 46 /\ GoneAt("NetPortList") = 47
  BY DEF GoneAt
<1>2. /\ First("FirewallAddressList") = "FirewallAddressList"
      /\ First("NetAddressList") = "FirewallAddressList"
      /\ First("FirewallPortList") = "FirewallPortList"
      /\ First("NetPortList") = "FirewallPortList"
  BY DEF First
<1>3. c \in {"NetAddressList", "FirewallAddressList", "NetPortList", "FirewallPortList"}
  BY DEF TwinOf
<1>4. FirstAt(c) = IF First(c) = "FirewallAddressList" THEN 11 ELSE 12
  BY DEF FirstAt
<1>5. FirstAt(TwinOf[c]) = FirstAt(c) /\ ListGoesAt(TwinOf[c]) = ListGoesAt(c)
      /\ ListGoesAt(c) = FirstAt(c) + (IF Afm THEN 33 ELSE 35)
  <2>1. First(TwinOf[c]) = First(c)
    BY TwinsAre
  <2> QED
    BY <2>1 DEF FirstAt, ListGoesAt
<1>6. FirstAt(c) \in {11, 12}
  BY <1>4
<1>7. GoneAt(c) = FirstAt(c) + (IF c = First(c) THEN 33 ELSE 35)
  BY <1>1, <1>2, <1>3, <1>4
<1>8. MadeAt(c) = FirstAt(c) + (IF c = First(c) THEN 0 ELSE 3)
  BY <1>6 DEF MadeAt
<1> QED
  BY <1>5, <1>6, <1>7, <1>8

(* What a list is, for it and its twin. *)
ListNow(was, to, n, c, d, i) ==
  IF ~Afm /\ d = First(c) THEN None
  ELSE IF n > ListGoesAt(c) /\ i \in Dropped(was, to, d) THEN None
  ELSE IF n > FirstAt(c) + 3 /\ i \in New(was, to, TwinOf[First(c)]) THEN to[TwinOf[First(c)]][i]
  ELSE IF n > FirstAt(c) /\ i \in New(was, to, First(c)) THEN to[First(c)][i]
  ELSE was[d][i]

LEMMA ListUnfolds ==
  ASSUME NEW was, NEW to, NEW n, NEW m, NEW c \in DOMAIN TwinOf, NEW d \in {c, TwinOf[c]},
         NEW i, NEW v
  PROVE  Is(was, to, n, m, d, i, v) <=> v = ListNow(was, to, n, c, d, i)
<1>1. d \in DOMAIN TwinOf /\ First(d) = First(c)
  BY TwinsAre
<1>2. FirstAt(d) = FirstAt(c) /\ ListGoesAt(d) = ListGoesAt(c)
  BY ListTimes
<1> QED
  BY <1>1, <1>2, IsUnfolds DEF ListIs, ListNow

(* Nothing else is made or deleted in them.                                *)
LEMMA ListsStill ==
  ASSUME NEW c \in DOMAIN TwinOf, NEW n, n \in {MadeAt(c), GoneAt(c)},
         NEW d \in Class \ {c, TwinOf[c]}, NEW m
  PROVE  Still(n, d, m, m)
<1>1. n \in {11, 12, 14, 15, 44, 45, 46, 47}
  BY ListTimes
<1>2. d \in Simple => n \notin {UpdatedAt(d), DeletedAt(d)}
  <2>1. d \in Simple => /\ UpdatedAt(d) \in {1, 2, 5, 13, 16, 32, 34, 35, 36, 37}
                        /\ DeletedAt(d) \in {40, 43, 48, 49, 50, 51, 54, 55, 56}
    BY DEF Simple, UpdatedAt, DeletedAt
  <2> QED
    BY <1>1, <2>1
<1>3. d \in DOMAIN TwinOf => n \notin {FirstAt(d), FirstAt(d) + 3, ListGoesAt(d)}
  <2>1. d \in DOMAIN TwinOf => FirstAt(d) # FirstAt(c)
    <3>1. /\ First("FirewallAddressList") = "FirewallAddressList"
          /\ First("NetAddressList") = "FirewallAddressList"
          /\ First("FirewallPortList") = "FirewallPortList"
          /\ First("NetPortList") = "FirewallPortList"
      BY DEF First
    <3>2. /\ TwinOf["NetAddressList"] = "FirewallAddressList"
          /\ TwinOf["FirewallAddressList"] = "NetAddressList"
          /\ TwinOf["NetPortList"] = "FirewallPortList"
          /\ TwinOf["FirewallPortList"] = "NetPortList"
          /\ DOMAIN TwinOf = {"NetAddressList", "FirewallAddressList", "NetPortList", "FirewallPortList"}
      BY DEF TwinOf
    <3> QED
      BY <3>1, <3>2 DEF FirstAt
  <2>2. d \in DOMAIN TwinOf =>
          FirstAt(d) \in {11, 12} /\ ListGoesAt(d) = FirstAt(d) + (IF Afm THEN 33 ELSE 35)
    BY ListTimes
  <2>3. /\ FirstAt(c) \in {11, 12}
        /\ n \in {FirstAt(c), FirstAt(c) + 3, FirstAt(c) + 33, FirstAt(c) + 35}
    BY ListTimes
  <2> QED
    BY <2>1, <2>2, <2>3
<1> QED
  BY <1>1, <1>2, <1>3 DEF Still

(* A list is made.                                                         *)
LEMMA ListMakeStep ==
  ASSUME NEW was, NEW n, Ready(was, n), NEW c \in DOMAIN TwinOf, n = MadeAt(c)
  PROVE  Leads(was, n, mem, cur, CreateOrModify(c))
<1> DEFINE items == Update(c)
           e == [i \in Item |-> c]
           values == want[c]
           op == "createOrModify"
           chains == CreateOrModify(c)
<1>1. /\ FirstAt(c) \in {11, 12} /\ n = FirstAt(c) + (IF c = First(c) THEN 0 ELSE 3)
      /\ ListGoesAt(c) = FirstAt(c) + (IF Afm THEN 33 ELSE 35)
  BY ListTimes
<1>2. n <= 44 /\ n \notin {17, 18, 21, 22}
  BY <1>1
<1>3. /\ c \in DeclaredClass /\ First(c) \in {c, TwinOf[c]} /\ (c # First(c) => c = TwinOf[First(c)])
      /\ TwinOf[c] # c /\ TwinOf[TwinOf[c]] = c
  BY TwinsAre
<1>4. /\ items = New(was, want, c) /\ items \subseteq Item
      /\ \A i \in items : want[c][i] \in Values /\ want[c][i] # None
  BY <1>2, <1>3, Found, NetworkAssumption
<1>5. ~Afm /\ c = First(c) => items = {}
  <2>1. ~Afm /\ c = First(c) => want[c] = Nothing
    BY DEF Ready, ConfigFits
  <2> QED
    BY <2>1 DEF Update, Present, Nothing
<1>6. /\ Remembers(was, want, n + 1, mem) /\ Reads(was, want, n + 1, cur)
      /\ n \in Nat /\ Afm \in BOOLEAN
  BY <1>2, RemembersOn, ReadsOn, Found, NetworkAssumption
<1>7. \A d \in Class \ {c, TwinOf[c]} : Still(n, d, mem, mem)
  BY ListsStill
<1>8. ~(n > ListGoesAt(c)) /\ ~(n + 1 > ListGoesAt(c))
      /\ (c = First(c) =>
             /\ n = FirstAt(c) /\ ~(n > FirstAt(c)) /\ n + 1 > FirstAt(c)
             /\ ~(n > FirstAt(c) + 3) /\ ~(n + 1 > FirstAt(c) + 3))
      /\ (c # First(c) =>
             /\ n > FirstAt(c) /\ n + 1 > FirstAt(c)
             /\ ~(n > FirstAt(c) + 3) /\ n + 1 > FirstAt(c) + 3)
  BY <1>1
<1> HIDE DEF items
<1>9. \A i \in items, d \in {c, TwinOf[c]} : (Afm \/ d = c) => Is(was, want, n + 1, mem, d, i, want[c][i])
  <2> SUFFICES ASSUME NEW i \in items, NEW d \in {c, TwinOf[c]}, Afm \/ d = c
               PROVE  Is(was, want, n + 1, mem, d, i, want[c][i])
    OBVIOUS
  <2>1. ~(~Afm /\ d = First(c))
    BY <1>5
  <2>2. ListNow(was, want, n + 1, c, d, i) = want[c][i]
    BY <1>3, <1>4, <1>8, <2>1 DEF ListNow
  <2>3. Is(was, want, n + 1, mem, d, i, want[c][i]) <=> want[c][i] = ListNow(was, want, n + 1, c, d, i)
    BY ListUnfolds
  <2> QED
    BY <2>2, <2>3
<1>10. \A d \in {c, TwinOf[c]}, i \in Item, v \in Values \cup {None} :
         Is(was, want, n, mem, d, i, v) /\ ~(i \in items /\ (Afm \/ d = c))
           => Is(was, want, n + 1, mem, d, i, v)
  <2> SUFFICES ASSUME NEW d \in {c, TwinOf[c]}, NEW i \in Item, NEW v \in Values \cup {None},
                      Is(was, want, n, mem, d, i, v), ~(i \in items /\ (Afm \/ d = c))
               PROVE  Is(was, want, n + 1, mem, d, i, v)
    OBVIOUS
  <2>1. ListNow(was, want, n + 1, c, d, i) = ListNow(was, want, n, c, d, i)
    <3>1. CASE ~Afm /\ d = First(c)
      BY <3>1 DEF ListNow
    <3>2. CASE ~(~Afm /\ d = First(c)) /\ i \notin items
      <4>1. i \notin New(was, want, c)
        BY <1>4, <3>2
      <4> QED
        BY <1>3, <1>8, <3>2, <4>1 DEF ListNow
    <3>3. CASE ~(~Afm /\ d = First(c)) /\ i \in items
      <4>1. c = First(c)
        BY <1>3, <3>3
      <4> QED
        BY <1>5, <3>3, <4>1
    <3> QED
      BY <3>1, <3>2, <3>3
  <2>2. Is(was, want, n, mem, d, i, v) <=> v = ListNow(was, want, n, c, d, i)
    BY ListUnfolds
  <2>3. Is(was, want, n + 1, mem, d, i, v) <=> v = ListNow(was, want, n + 1, c, d, i)
    BY ListUnfolds
  <2> QED
    BY <2>1, <2>2, <2>3
<1>11. \A i \in items : e[i] = c /\ (Afm \/ c # First(c))
  BY <1>4, <1>5
<1>12. /\ \A x \in chains : \E i \in items : x = <<Awaited(<<Do(op, e[i], i, values[i])>>)>>
       /\ \A i \in items : <<Awaited(<<Do(op, e[i], i, values[i])>>)>> \in chains
  <2>1. chains = Each(op, c, items, values)
    BY DEF CreateOrModify, items
  <2> HIDE DEF chains, e, values
  <2> QED
    BY <1>11, <2>1 DEF Each
<1>13. \A i \in items : /\ e[i] \in {c, TwinOf[c]} /\ (Afm \/ (e[i] = c /\ c # First(c)))
                        /\ values[i] \in Values \cup {None}
                        /\ values[i] # None => Fits(e[i], i, values[i])
                        /\ Is(was, want, n + 1, mem, c, i, values[i])
                        /\ Afm => Is(was, want, n + 1, mem, TwinOf[c], i, values[i])
  <2>1. \A i \in items : Fits(c, i, want[c][i])
    BY <1>3, <1>4 DEF Ready, ConfigFits
  <2> QED
    BY <1>3, <1>4, <1>9, <1>11, <2>1
<1> HIDE DEF e, values, op, chains
<1>14. Twins(was, n, chains, op, c, items, e, values)
  BY <1>7, <1>10, <1>12, <1>13 DEF Twins
<1>15. Leads(was, n, mem, cur, chains)
  BY <1>4, <1>6, <1>14, TwinStep
<1> QED
  BY <1>15 DEF chains

(* The items of a list that the delete handler deletes. *)
LEMMA ListItems ==
  ASSUME NEW was, NEW n, Ready(was, n), NEW c \in DOMAIN TwinOf, n = GoneAt(c)
  PROVE  /\ Items(c) \subseteq Dropped(was, want, c) /\ Dropped(was, want, c) \subseteq Item
         /\ n = ListGoesAt(c) => Items(c) = Dropped(was, want, c)
         /\ Afm => Dropped(was, want, c) = Dropped(was, want, TwinOf[c])
         /\ ~Afm => /\ c = First(c) => Items(c) = {}
                    /\ c # First(c) => \A i \in Item : ~HasTwin(c, i)
<1>1. /\ TwinOf[c] \in DOMAIN TwinOf /\ TwinOf[TwinOf[c]] = c /\ TwinOf[c] # c
      /\ First(c) \in {c, TwinOf[c]} /\ First(TwinOf[c]) = First(c)
      /\ c \in DeclaredClass /\ TwinOf[c] \in DeclaredClass /\ c \in Class /\ TwinOf[c] \in Class
      /\ c \notin {"Tunnel", "RouteDomain"} /\ c # "DNS_Resolver"
  <2>1. c # "DNS_Resolver"
    BY DEF TwinOf
  <2> QED
    BY <2>1, TwinsAre
<1>2. /\ doomed[c] = Dropped(was, want, c) /\ Dropped(was, want, c) \subseteq Item
      /\ n \in Nat
  BY <1>1, Found
<1>3. \A i : <<c, i>> \notin Retained
  <2>1. \A r \in Retained : r[1] \in {"RouteDomain", "Tunnel", "DNS_Resolver"}
    BY CasesAssumption
  <2>2. \A i : <<c, i>>[1] = c
    OBVIOUS
  <2> QED
    BY <1>1, <2>1, <2>2
<1>4. Reads(was, want, n, cur)
  BY DEF Ready, At
<1>5. \A i \in Item : cur[c][i] # Seen(was, want)[c][i] =>
        /\ n > GoneAt(TwinOf[c]) /\ cur[c][i] = None /\ i \in Dropped(was, want, TwinOf[c])
  BY <1>1, <1>4 DEF Reads
<1>6. \A i \in Item : cur[TwinOf[c]][i] # Seen(was, want)[TwinOf[c]][i] =>
        cur[TwinOf[c]][i] = None
  BY <1>1, <1>4 DEF Reads
<1>7. \A i \in Item, d \in {c, TwinOf[c]} :
        Seen(was, want)[d][i] = IF want[TwinOf[d]][i] # None THEN None ELSE was[d][i]
  BY <1>1 DEF Seen
<1>8. Afm => was[c] = was[TwinOf[c]]
  BY DEF Ready, DeviceFits
<1>9. ~Afm => was[First(c)] = Nothing
  BY <1>1 DEF Ready, DeviceFits
<1>10. want[c] = Nothing => \A i \in Present(cur, c) : i \in Dropped(was, want, c)
  <2> SUFFICES ASSUME want[c] = Nothing, NEW i \in Present(cur, c)
               PROVE  i \in Dropped(was, want, c)
    OBVIOUS
  <2>1. i \in Item /\ cur[c][i] # None /\ want[c][i] = None
    BY DEF Present, Nothing
  <2>2. cur[c][i] = Seen(was, want)[c][i]
    BY <1>5, <2>1
  <2> QED
    BY <2>1, <2>2 DEF Dropped, Present
<1>11. Items(c) = IF want[c] = Nothing /\ Dropped(was, want, c) # {} THEN Present(cur, c)
                                                                    ELSE Dropped(was, want, c)
  BY <1>2, <1>3 DEF Items, Present
<1>12. Items(c) \subseteq Dropped(was, want, c)
  BY <1>10, <1>11
<1>13. ~Afm => Dropped(was, want, First(c)) = {}
  <2> SUFFICES ASSUME ~Afm, NEW i \in Dropped(was, want, First(c))
               PROVE  FALSE
    OBVIOUS
  <2>1. i \in Item /\ Seen(was, want)[First(c)][i] # None
    BY DEF Dropped, Present
  <2> QED
    BY <1>1, <1>7, <1>9, <2>1 DEF Nothing
<1>14. /\ FirstAt(c) \in {11, 12} /\ FirstAt(TwinOf[c]) = FirstAt(c)
       /\ ListGoesAt(c) = FirstAt(c) + (IF Afm THEN 33 ELSE 35)
       /\ n = FirstAt(c) + (IF c = First(c) THEN 33 ELSE 35)
  BY ListTimes
<1>15. GoneAt(TwinOf[c]) = FirstAt(TwinOf[c]) + (IF TwinOf[c] = First(TwinOf[c]) THEN 33 ELSE 35)
  BY <1>1, ListTimes
<1>16. ASSUME n = ListGoesAt(c)
       PROVE  Items(c) = Dropped(was, want, c)
  <2>1. \A i \in Item : cur[c][i] = Seen(was, want)[c][i]
    <3>1. CASE Afm
      <4>1. c = First(c) /\ GoneAt(TwinOf[c]) = n + 2
        BY <1>1, <1>14, <1>15, <1>16, <3>1
      <4> QED
        BY <1>2, <1>5, <4>1
    <3>2. CASE ~Afm
      <4>1. c # First(c)
        BY <1>16, <1>14, <3>2
      <4> QED
        BY <1>1, <1>5, <1>13, <3>2, <4>1
    <3> QED
      BY <3>1, <3>2
  <2>2. \A i \in Dropped(was, want, c) : i \in Present(cur, c)
    BY <2>1 DEF Dropped, Present
  <2> QED
    BY <1>11, <1>12, <2>2
<1>17. Afm => Dropped(was, want, c) = Dropped(was, want, TwinOf[c])
  BY <1>1, <1>7, <1>8 DEF Dropped, Present
<1>18. ~Afm => /\ c = First(c) => Items(c) = {}
               /\ c # First(c) => \A i \in Item : ~HasTwin(c, i)
  <2>1. ~Afm /\ c = First(c) => Items(c) = {}
    BY <1>12, <1>13
  <2>2. ~Afm /\ c # First(c) => \A i \in Item : ~HasTwin(c, i)
    <3> SUFFICES ASSUME ~Afm, c # First(c), NEW i \in Item
                 PROVE  cur[TwinOf[c]][i] = None
      BY DEF HasTwin
    <3>1. was[TwinOf[c]][i] = None
      BY <1>1, <1>9 DEF Nothing
    <3>2. Seen(was, want)[TwinOf[c]][i] = None
      BY <1>1, <1>7, <3>1
    <3> QED
      BY <1>6, <3>2
  <2> QED
    BY <2>1, <2>2
<1> QED
  BY <1>2, <1>12, <1>16, <1>17, <1>18

(* The twins of deleted lists are not seen any more.                       *)
LEMMA ListGoReads ==
  ASSUME NEW was, NEW n, Ready(was, n), NEW c \in DOMAIN TwinOf, n = GoneAt(c)
  PROVE  Reads(was, want, n + 1, WithoutTwins(c))
<1>1. /\ TwinOf[c] \in DOMAIN TwinOf /\ TwinOf[TwinOf[c]] = c /\ TwinOf[c] \in DeclaredClass
  BY TwinsAre
<1>2. n \in Nat /\ cur \in Config /\ Reads(was, want, n + 1, cur)
  BY Found, ReadsOn
<1>3. Items(c) \subseteq Dropped(was, want, c)
  BY ListItems
<1>4. ASSUME NEW d \in DeclaredClass, NEW j \in Item
      PROVE  WithoutTwins(c)[d][j] = IF d = TwinOf[c] /\ j \in Items(c) THEN None ELSE cur[d][j]
  BY <1>1, <1>2 DEF WithoutTwins, Config
<1>5. n + 1 > GoneAt(c)
  BY <1>2
<1> DEFINE config == WithoutTwins(c)
<1>6. \A d \in DeclaredClass, j \in Item :
        config[d][j] = IF d = TwinOf[c] /\ j \in Items(c) THEN None ELSE cur[d][j]
  BY <1>4
<1> HIDE DEF config
<1>7. Reads(was, want, n + 1, config)
  BY <1>1, <1>2, <1>3, <1>5, <1>6 DEF Reads
<1> QED
  BY <1>7 DEF config

(* A list is deleted.                                                      *)
LEMMA ListGoStep ==
  ASSUME NEW was, NEW n, Ready(was, n), NEW c \in DOMAIN TwinOf, n = GoneAt(c)
  PROVE  Leads(was, n, mem, WithoutTwins(c), Deletion(c))
<1> DEFINE items == Items(c)
           e == [i \in Item |-> IF HasTwin(c, i) THEN TwinOf[c] ELSE c]
           values == Nothing
           op == "clear"
           chains == Deletion(c)
<1>1. /\ FirstAt(c) \in {11, 12} /\ n = FirstAt(c) + (IF c = First(c) THEN 33 ELSE 35)
      /\ ListGoesAt(c) = FirstAt(c) + (IF Afm THEN 33 ELSE 35)
  BY ListTimes
<1>2. n \notin {17, 18, 21, 22}
  BY <1>1
<1>3. /\ c \in DeclaredClass /\ First(c) \in {c, TwinOf[c]} /\ (c # First(c) => c = TwinOf[First(c)])
      /\ TwinOf[c] # c /\ TwinOf[TwinOf[c]] = c /\ c \notin {"Tunnel", "RouteDomain"}
  BY TwinsAre
<1>4. /\ items \subseteq Dropped(was, want, c) /\ items \subseteq Item
      /\ n = ListGoesAt(c) => items = Dropped(was, want, c)
      /\ Afm => Dropped(was, want, c) = Dropped(was, want, TwinOf[c])
      /\ ~Afm => /\ c = First(c) => items = {}
                 /\ c # First(c) => \A i \in Item : ~HasTwin(c, i)
  BY ListItems
<1>5. /\ \A i \in Item : values[i] = None
      /\ \A i \in Item : e[i] = IF HasTwin(c, i) THEN TwinOf[c] ELSE c
  BY DEF Nothing
<1>6. /\ Remembers(was, want, n + 1, mem) /\ Reads(was, want, n + 1, WithoutTwins(c))
      /\ n \in Nat /\ Afm \in BOOLEAN
  BY <1>2, RemembersOn, ListGoReads, Found, NetworkAssumption
<1>7. \A d \in Class \ {c, TwinOf[c]} : Still(n, d, mem, mem)
  BY ListsStill
<1>8. /\ n + 1 > FirstAt(c) + 3 /\ n > FirstAt(c) + 3 /\ n > FirstAt(c) /\ n + 1 > FirstAt(c)
      /\ n # ListGoesAt(c) => (n > ListGoesAt(c) <=> n + 1 > ListGoesAt(c))
      /\ n = ListGoesAt(c) => n + 1 > ListGoesAt(c) /\ ~(n > ListGoesAt(c))
      /\ Afm => n + 1 > ListGoesAt(c)
      /\ c # First(c) => n + 1 > ListGoesAt(c)
      /\ ~Afm /\ c = First(c) => n # ListGoesAt(c)
  BY <1>1, <1>6
<1>9. \A x : x \in chains <=>
        \E i \in items : x = <<Awaited(<<Do("clear", IF HasTwin(c, i) THEN TwinOf[c] ELSE c, i, None)>>)>>
  BY <1>3 DEF Deletion
<1> HIDE DEF items, e, values, op, chains
<1>10. \A i \in items, d \in {c, TwinOf[c]} : (Afm \/ d = c) => Is(was, want, n + 1, mem, d, i, None)
  <2> SUFFICES ASSUME NEW i \in items, NEW d \in {c, TwinOf[c]}, Afm \/ d = c
               PROVE  Is(was, want, n + 1, mem, d, i, None)
    OBVIOUS
  <2>1. i \in Dropped(was, want, d)
    BY <1>3, <1>4
  <2>2. n + 1 > ListGoesAt(c)
    BY <1>4, <1>8
  <2>3. ListNow(was, want, n + 1, c, d, i) = None
    BY <2>1, <2>2 DEF ListNow
  <2>4. Is(was, want, n + 1, mem, d, i, None) <=> None = ListNow(was, want, n + 1, c, d, i)
    BY ListUnfolds
  <2> QED
    BY <2>3, <2>4
<1>11. \A d \in {c, TwinOf[c]}, i \in Item, v \in Values \cup {None} :
         Is(was, want, n, mem, d, i, v) /\ ~(i \in items /\ (Afm \/ d = c))
           => Is(was, want, n + 1, mem, d, i, v)
  <2> SUFFICES ASSUME NEW d \in {c, TwinOf[c]}, NEW i \in Item, NEW v \in Values \cup {None},
                      Is(was, want, n, mem, d, i, v), ~(i \in items /\ (Afm \/ d = c))
               PROVE  Is(was, want, n + 1, mem, d, i, v)
    OBVIOUS
  <2>1. ListNow(was, want, n + 1, c, d, i) = ListNow(was, want, n, c, d, i)
    <3>1. CASE ~Afm /\ d = First(c)
      BY <3>1 DEF ListNow
    <3>2. CASE ~(~Afm /\ d = First(c)) /\ n # ListGoesAt(c)
      BY <1>8, <3>2 DEF ListNow
    <3>3. CASE ~(~Afm /\ d = First(c)) /\ n = ListGoesAt(c)
      <4>1. i \notin Dropped(was, want, d)
        <5>1. items = Dropped(was, want, c)
          BY <1>4, <3>3
        <5>2. CASE Afm
          BY <1>4, <5>1, <5>2
        <5>3. CASE ~Afm
          <6>1. c # First(c)
            BY <1>8, <3>3, <5>3
          <6>2. d = c
            BY <1>3, <3>3, <5>3, <6>1
          <6> QED
            BY <5>1, <6>2
        <5> QED
          BY <5>2, <5>3
      <4> QED
        BY <1>8, <3>3, <4>1 DEF ListNow
    <3> QED
      BY <3>1, <3>2, <3>3
  <2>2. Is(was, want, n, mem, d, i, v) <=> v = ListNow(was, want, n, c, d, i)
    BY ListUnfolds
  <2>3. Is(was, want, n + 1, mem, d, i, v) <=> v = ListNow(was, want, n + 1, c, d, i)
    BY ListUnfolds
  <2> QED
    BY <2>1, <2>2, <2>3
<1>12. \A i \in items : e[i] \in {c, TwinOf[c]} /\ (Afm \/ (e[i] = c /\ c # First(c)))
  BY <1>4, <1>5
<1>13. /\ \A x \in chains : \E i \in items : x = <<Awaited(<<Do(op, e[i], i, values[i])>>)>>
       /\ \A i \in items : <<Awaited(<<Do(op, e[i], i, values[i])>>)>> \in chains
  <2>1. \A i \in items : <<Awaited(<<Do(op, e[i], i, values[i])>>)>>
                  = <<Awaited(<<Do("clear", IF HasTwin(c, i) THEN TwinOf[c] ELSE c, i, None)>>)>>
    BY <1>4, <1>5 DEF op
  <2> QED
    BY <1>9, <2>1
<1>14. \A i \in items : /\ e[i] \in {c, TwinOf[c]} /\ (Afm \/ (e[i] = c /\ c # First(c)))
                        /\ values[i] \in Values \cup {None}
                        /\ values[i] # None => Fits(e[i], i, values[i])
                        /\ Is(was, want, n + 1, mem, c, i, values[i])
                        /\ Afm => Is(was, want, n + 1, mem, TwinOf[c], i, values[i])
  <2>1. \A i \in items : values[i] = None
    BY <1>4, <1>5
  <2> QED
    BY <1>10, <1>12, <2>1
<1>15. Twins(was, n, chains, op, c, items, e, values)
  BY <1>7, <1>11, <1>13, <1>14 DEF Twins
<1>16. Leads(was, n, mem, WithoutTwins(c), chains)
  BY <1>4, <1>6, <1>15, TwinStep
<1> QED
  BY <1>16 DEF chains

(* The steps of all the lists.                                             *)
LEMMA ListSteps ==
  ASSUME NEW was, NEW n, Ready(was, n), n \in {11, 12, 14, 15, 44, 45, 46, 47}
  PROVE  Goes(was, n)
<1>1. /\ MadeAt("FirewallAddressList") = 11 /\ MadeAt("FirewallPortList") = 12
      /\ MadeAt("NetAddressList") = 14 /\ MadeAt("NetPortList") = 15
      /\ GoneAt("FirewallAddressList") = 44 /\ GoneAt("FirewallPortList") = 45
      /\ GoneAt("NetAddressList") = 46 /\ GoneAt("NetPortList") = 47
  BY DEF MadeAt, FirstAt, First, GoneAt
<1>2. DOMAIN TwinOf = {"NetAddressList", "FirewallAddressList", "NetPortList", "FirewallPortList"}
  BY DEF TwinOf
<1>3. CASE n \in {11, 12, 14, 15}
  <2>1. /\ Started(n) = Chains(NetworkPlan[n]) /\ MemoryAfter(n) = mem /\ ConfigAfter(n) = cur
    BY <1>3, NetworkStep
  <2>2. \E c \in DOMAIN TwinOf : n = MadeAt(c) /\ Chains(NetworkPlan[n]) = CreateOrModify(c)
    <3>1. /\ Chains("FirewallAddressList") = CreateOrModify("FirewallAddressList")
          /\ Chains("FirewallPortList") = CreateOrModify("FirewallPortList")
          /\ Chains("NetAddressList") = CreateOrModify("NetAddressList")
          /\ Chains("NetPortList") = CreateOrModify("NetPortList")
      BY DEF Chains, handleFirewallAddressList, handleFirewallPortList, handleNetAddressList,
             handleNetPortList
    <3> QED
      BY <1>1, <1>2, <1>3, <3>1, PlanIs
  <2> QED
    BY <2>1, <2>2, ListMakeStep DEF Goes
<1>4. CASE n \in {44, 45, 46, 47}
  <2>1. /\ Started(n) = Deletion(DeletedClass(n)) /\ MemoryAfter(n) = mem
        /\ ConfigAfter(n) = WithoutTwins(DeletedClass(n))
    BY <1>4, DeleteStep
  <2>2. DeletedClass(n) \in DOMAIN TwinOf /\ n = GoneAt(DeletedClass(n))
    BY <1>1, <1>2, <1>4, DeletePlanIs
  <2> QED
    BY <2>1, <2>2, ListGoStep DEF Goes
<1> QED
  BY <1>3, <1>4

-----------------------------------------------------------------------------
(* The steps of handleSelfIp *)

(* What they find. *)
LEMMA AddressFacts ==
  ASSUME NEW was, NEW n, Ready(was, n)
  PROVE  /\ \A kind : /\ NewSelfIps(kind) = NewAddresses(was, want, kind)
                      /\ NewAddresses(was, want, kind) \subseteq New(was, want, "SelfIp")
                      /\ NewAddresses(was, want, kind) \subseteq Item
                      /\ Changing(was, want, kind) \subseteq Item
         /\ NewAddresses(was, want, "local") \cap NewAddresses(was, want, "floating") = {}
         /\ \A i \in Item : device["SelfIp"][i] = SelfIpIs(was, want, n, mem, i)
         /\ \A i \in Item : n > 24 => i \notin mem.matching \cap Changing(was, want, "local")
         /\ \A i \in Item : device["Route"][i] = RouteIs(was, want, n, mem, i)
         /\ device["ConfigSync"][Only] = IF n \in 19 .. 28 /\ mem.sync # None THEN None
                                         ELSE was["ConfigSync"][Only]
         /\ Remembers(was, want, n, mem) /\ mem \in Memory
<1>1. /\ "SelfIp" \in DeclaredClass /\ "SelfIp" \notin DOMAIN TwinOf
      /\ {"SelfIp", "Route", "ConfigSync"} \subseteq Class
  BY DEF Class, DeclaredClass, TwinOf
<1>2. /\ Update("SelfIp") = New(was, want, "SelfIp") /\ New(was, want, "SelfIp") \subseteq Item
      /\ Remembers(was, want, n, mem)
  BY <1>1, Found
<1>3. \A kind : /\ NewSelfIps(kind) = NewAddresses(was, want, kind)
                /\ NewAddresses(was, want, kind) \subseteq New(was, want, "SelfIp")
                /\ NewAddresses(was, want, kind) \subseteq Item
                /\ Changing(was, want, kind) \subseteq Item
  BY <1>2 DEF NewSelfIps, NewAddresses, Changing
<1>4. NewAddresses(was, want, "local") \cap NewAddresses(was, want, "floating") = {}
  BY DEF NewAddresses
<1>5. \A c \in {"SelfIp", "Route", "ConfigSync"}, i \in Item :
        Is(was, want, n, mem, c, i, device[c][i])
  BY <1>1, Found
<1>6. \A i \in Item : Is(was, want, n, mem, "SelfIp", i, device["SelfIp"][i])
  BY <1>5
<1>7. \A i \in Item : Is(was, want, n, mem, "Route", i, device["Route"][i])
  BY <1>5
<1>8. Only \in Item /\ Is(was, want, n, mem, "ConfigSync", Only, device["ConfigSync"][Only])
  BY <1>5, NetworkAssumption
<1>9. \A i \in Item : /\ device["SelfIp"][i] = SelfIpIs(was, want, n, mem, i)
                      /\ n > 24 => i \notin mem.matching \cap Changing(was, want, "local")
  BY <1>6, IsUnfoldsElse
<1>10. \A i \in Item : device["Route"][i] = RouteIs(was, want, n, mem, i)
  BY <1>7, IsUnfoldsElse
<1>11. device["ConfigSync"][Only] = IF n \in 19 .. 28 /\ mem.sync # None THEN None
                                    ELSE was["ConfigSync"][Only]
  BY <1>8, IsUnfoldsElse
<1>12. mem \in Memory
  BY DEF Ready, Typed
<1> QED
  BY <1>2, <1>3, <1>4, <1>9, <1>10, <1>11, <1>12

(* What they start and remember.                                           *)
LEMMA PlanOfSelfIps ==
  /\ Chains("floatingRoutes") =
       Each("delete", "Route", MatchingRoutes(Existing("floating")), Nothing)
  /\ Chains("localRoutes") = Each("delete", "Route", MatchingRoutes(Existing("local")), Nothing)
  /\ Chains("floatingDepends") = ClearConfigSync /\ Chains("localDepends") = ClearConfigSync
  /\ Chains("floatingMatching") = Each("delete", "SelfIp", mem.matching, Nothing)
  /\ Chains("localMatching") = Each("delete", "SelfIp", mem.matching, Nothing)
  /\ Chains("floatingDelete") = Each("delete", "SelfIp", mem.existing, Nothing)
  /\ Chains("localDelete") = Each("delete", "SelfIp", mem.existing, Nothing)
  /\ Chains("localCreate") = Each("create", "SelfIp", NewSelfIps("local"), want["SelfIp"])
  /\ Chains("floatingCreate") = Each("create", "SelfIp", NewSelfIps("floating"), want["SelfIp"])
  /\ Chains("floatingRecall") = Recall("SelfIp", mem.floats)
  /\ Chains("syncRecall") = RestoreConfigSync
  /\ Chains("routesRecall") = Recall("Route", mem.routes)
  /\ Remember("floatingRoutes") = FindRoutes("floating")
  /\ Remember("floatingDepends") = FindSelfIps("floating")
  /\ Remember("localRoutes") = FindRoutes("local")
  /\ Remember("localDepends") = FindSelfIps("local")
  BY DEF Chains, SelfIpChains, Remember

(* The routes to the self IPs that change are taken away. *)
LEMMA RoutesAwayStep ==
  ASSUME NEW was, NEW n, Ready(was, n), NEW kind,
         (n = 17 /\ kind = "floating") \/ (n = 21 /\ kind = "local")
  PROVE  Leads(was, n, FindRoutes(kind), cur,
                Each("delete", "Route", MatchingRoutes(Existing(kind)), Nothing))
<1> DEFINE c == "Route"
           mm == FindRoutes(kind)
           items == MatchingRoutes(Existing(kind))
<1>1. c \in DeclaredClass /\ c \in Class /\ c \notin DOMAIN TwinOf /\ c \notin SingleClass
  BY ClassFacts DEF DeclaredClass, SingleClass, TwinOf
<1>2. Remembers(was, want, n, mem) /\ mem \in Memory
  BY AddressFacts
<1>3. \A i \in items : i \in Item /\ device["Route"][i] # None
  BY DEF MatchingRoutes, Present
<1>4. /\ mm.existing = Existing(kind) /\ mm.matching = mem.matching /\ mm.floats = mem.floats
      /\ mm.sync = mem.sync
      /\ \A r \in Item : mm.routes[r] = IF r \in items THEN device["Route"][r] ELSE mem.routes[r]
  BY <1>2 DEF FindRoutes, Add, Memory
<1>5. \A i \in Item : device["Route"][i] = IF n = 21 /\ mem.routes[i] # None THEN None
                                           ELSE was["Route"][i]
  BY AddressFacts DEF RouteIs
<1>6. Existing(kind) = Changing(was, want, kind)
  <2>1. /\ NewSelfIps(kind) = NewAddresses(was, want, kind)
        /\ NewAddresses(was, want, kind) \subseteq Item
    BY AddressFacts
  <2>2. \A i \in NewAddresses(was, want, kind) : device["SelfIp"][i] = was["SelfIp"][i]
    <3>1. \A i \in NewAddresses(was, want, kind) :
            device["SelfIp"][i] = SelfIpIs(was, want, n, mem, i)
      BY <2>1, AddressFacts
    <3>2. n = 21 => \A i \in NewAddresses(was, want, kind) : i \notin Changing(was, want, "floating")
      BY AddressFacts DEF Changing
    <3> QED
      BY <3>1, <3>2 DEF SelfIpIs
  <2> QED
    BY <2>1, <2>2 DEF Existing, Changing
<1>7. Remembers(was, want, n + 1, mm)
  <2>1. \A r \in Item : mm.routes[r] \in {None, was["Route"][r]}
    BY <1>2, <1>3, <1>4, <1>5 DEF Remembers
  <2>2. n = 17 => mem = NoMemory
    BY <1>2 DEF Remembers
  <2>3. /\ mm.sync \in {None, was["ConfigSync"][Only]} /\ mm.matching = {} /\ mm.floats = Nothing
        /\ n = 17 => mm.sync = None
    BY <1>2, <1>4, <2>2 DEF Remembers, NoMemory
  <2> HIDE DEF mm
  <2> QED
    BY <1>4, <1>6, <2>1, <2>3 DEF Remembers
<1> HIDE DEF mm, items
<1>8. \A d \in Class \ {c} : Still(n, d, mem, mm)
  BY <1>4, Elsewhere DEF Still
<1>9. \A i \in items : Is(was, want, n + 1, mm, c, i, None)
  <2>1. \A i \in items : mm.routes[i] # None
    BY <1>3, <1>4
  <2> QED
    BY <2>1, IsUnfoldsElse DEF RouteIs
<1>10. \A i \in Item \ items, v \in Values \cup {None} :
         Is(was, want, n, mem, c, i, v) => Is(was, want, n + 1, mm, c, i, v)
  <2>1. n = 17 => \A i \in Item : mem.routes[i] = None
    BY <1>2 DEF Remembers, NoMemory, Nothing
  <2> QED
    BY <1>4, <2>1, IsUnfoldsElse DEF RouteIs
<1>11. items \subseteq Item /\ c # "VXLAN" /\ c # "SelfIp"
  BY <1>3
<1>12. OnlyAbout(was, n, mm, c, items)
  BY <1>8, <1>10 DEF OnlyAbout
<1>13. Leads(was, n, mm, cur, Each("delete", c, items, Nothing))
  BY <1>1, <1>7, <1>9, <1>11, <1>12, TakeStep
<1> QED
  BY <1>13 DEF mm, items

(* The floating self IPs and the config sync address that are found. *)
LEMMA FloatingFacts ==
  ASSUME NEW was, NEW n, Ready(was, n), NEW kind,
         (n = 18 /\ kind = "floating") \/ (n = 22 /\ kind = "local")
  PROVE  /\ Remembers(was, want, n + 1, FindSelfIps(kind))
         /\ FindSelfIps(kind).routes = mem.routes
         /\ n = 18 => FindSelfIps(kind).matching = mem.matching
         /\ LET sync == MatchingConfigSync(mem.existing, MatchingFloating(mem.existing))
            IN FindSelfIps(kind).sync = IF mem.sync # None THEN mem.sync ELSE sync
<1> DEFINE mm == FindSelfIps(kind)
           floating == MatchingFloating(mem.existing)
           sync == MatchingConfigSync(mem.existing, floating)
<1>1. Remembers(was, want, n, mem) /\ mem \in Memory
  BY AddressFacts
<1>2. /\ mm.existing = mem.existing /\ mm.matching = floating /\ mm.routes = mem.routes
      /\ mm.floats = Add(mem.floats, "SelfIp", Kept(kind, floating))
      /\ mm.sync = IF mem.sync # None THEN mem.sync ELSE sync
  BY <1>1 DEF FindSelfIps, Memory
<1>3. \A f \in floating : f \in Item /\ f \in Floating(device)
  BY DEF MatchingFloating, Floating, Present
<1>4. mem.existing = Changing(was, want, kind) /\ mem.floats = Nothing /\ mem.matching = {}
  BY <1>1 DEF Remembers
<1>5. n = 18 => floating = {}
  <2>1. \A i \in Changing(was, want, kind) : want["SelfIp"][i].fixed = kind
    BY DEF Changing, NewAddresses
  <2> QED
    BY <1>4, <2>1 DEF MatchingFloating
<1>6. \A f \in floating : /\ device["SelfIp"][f] = was["SelfIp"][f] /\ was["SelfIp"][f] # None
                          /\ n = 22 => f \notin Changing(was, want, "floating")
  <2> SUFFICES ASSUME NEW f \in floating
               PROVE  /\ device["SelfIp"][f] = was["SelfIp"][f] /\ was["SelfIp"][f] # None
                      /\ n = 22 => f \notin Changing(was, want, "floating")
    OBVIOUS
  <2>1. device["SelfIp"][f] = SelfIpIs(was, want, n, mem, f)
    BY <1>3, AddressFacts
  <2>2. device["SelfIp"][f] # None
    BY <1>3 DEF Floating, Present
  <2> QED
    BY <2>1, <2>2 DEF SelfIpIs
<1>7. mm.sync \in {None, was["ConfigSync"][Only]} /\ (n = 18 => mem.sync = None)
  <2>1. sync \in {None, device["ConfigSync"][Only]}
    BY DEF MatchingConfigSync
  <2>2. device["ConfigSync"][Only] \in {None, was["ConfigSync"][Only]}
    BY AddressFacts
  <2> QED
    BY <1>1, <1>2, <2>1, <2>2 DEF Remembers
<1>8. mm.floats = [i \in Item |-> IF i \in floating THEN was["SelfIp"][i] ELSE None]
  <2>1. n = 22 => Kept(kind, floating) = floating
    BY DEF Kept
  <2>2. n = 18 => Kept(kind, floating) = {}
    BY <1>5 DEF Kept
  <2>3. Kept(kind, floating) = floating
    BY <1>5, <2>1, <2>2
  <2> HIDE DEF floating
  <2> QED
    BY <1>2, <1>3, <1>4, <1>6, <2>3 DEF Add, Nothing
<1>9. n = 18 => mm.floats = Nothing
  BY <1>5, <1>8 DEF Nothing
<1>10. \A r \in Item : mm.routes[r] \in {None, was["Route"][r]}
  BY <1>1, <1>2 DEF Remembers
<1>11. n = 22 => floating \subseteq Present(was, "SelfIp") \ Changing(was, want, "floating")
  BY <1>3, <1>6 DEF Present
<1> HIDE DEF mm, floating, sync
<1>12. Remembers(was, want, n + 1, mm)
  <2>1. CASE n = 18
    BY <1>2, <1>4, <1>5, <1>7, <1>9, <1>10, <2>1 DEF Remembers
  <2>2. CASE n = 22
    BY <1>2, <1>4, <1>7, <1>8, <1>10, <1>11, <2>2 DEF Remembers
  <2> QED
    BY <2>1, <2>2
<1>13. n = 18 => mm.matching = mem.matching
  BY <1>2, <1>4, <1>5
<1> QED
  BY <1>2, <1>12, <1>13 DEF mm, floating, sync

(* The config sync address is cleared.  *)
LEMMA ConfigSyncAwayStep ==
  ASSUME NEW was, NEW n, Ready(was, n), NEW kind,
         (n = 18 /\ kind = "floating") \/ (n = 22 /\ kind = "local")
  PROVE  Leads(was, n, FindSelfIps(kind), cur, ClearConfigSync)
<1> DEFINE c == "ConfigSync"
           mm == FindSelfIps(kind)
           sync == MatchingConfigSync(mem.existing, MatchingFloating(mem.existing))
           items == IF sync = None THEN {} ELSE {Only}
<1>1. c \in Class /\ c \notin DOMAIN TwinOf /\ c \notin SingleClass
  BY DEF Class, SingleClass, TwinOf
<1>2. /\ Remembers(was, want, n + 1, mm) /\ mm.routes = mem.routes
      /\ n = 18 => mm.matching = mem.matching
      /\ mm.sync = IF mem.sync # None THEN mem.sync ELSE sync
  BY FloatingFacts
<1>3. sync # None => device["ConfigSync"][Only] = sync
  BY DEF MatchingConfigSync
<1>4. /\ device["ConfigSync"][Only] = IF n \in 19 .. 28 /\ mem.sync # None THEN None
                                      ELSE was["ConfigSync"][Only]
      /\ n = 18 => mem.sync = None
  <2>1. Remembers(was, want, n, mem)
    BY AddressFacts
  <2>2. n = 18 => mem.sync = None
    BY <2>1 DEF Remembers
  <2> QED
    BY <2>2, AddressFacts
<1>5. ClearConfigSync = Each("set", c, items, Nothing)
  BY DEF ClearConfigSync, Each
<1>6. items \subseteq Item
  BY NetworkAssumption
<1>7. \A i \in items : i = Only /\ sync # None
  OBVIOUS
<1>8. Only \notin items => sync = None
  OBVIOUS
<1> HIDE DEF mm, sync, items
<1>9. \A d \in Class \ {c} : Still(n, d, mem, mm)
  <2>1. n < 23
    OBVIOUS
  <2> QED
    BY <1>2, <2>1, Elsewhere DEF Still
<1>10. \A i \in items : Is(was, want, n + 1, mm, c, i, None)
  <2>1. \A i \in items : i = Only /\ mm.sync # None
    BY <1>2, <1>7
  <2> QED
    BY <2>1, IsUnfoldsElse
<1>11. ASSUME NEW i \in Item \ items, NEW v \in Values \cup {None},
              Is(was, want, n, mem, c, i, v)
       PROVE  Is(was, want, n + 1, mm, c, i, v)
  <2>1. v = IF n \in 19 .. 28 /\ i = Only /\ mem.sync # None THEN None ELSE was[c][i]
    BY <1>11, IsUnfoldsElse
  <2>2. CASE i = Only
    <3>1. mm.sync = mem.sync
      BY <1>2, <1>8, <2>2
    <3> QED
      BY <1>4, <2>1, <2>2, <3>1, IsUnfoldsElse
  <2>3. CASE i # Only
    BY <2>1, <2>3, IsUnfoldsElse
  <2> QED
    BY <2>2, <2>3
<1>12. c # "VXLAN" /\ c # "SelfIp"
  OBVIOUS
<1> HIDE DEF c
<1>13. OnlyAbout(was, n, mm, c, items)
  BY <1>9, <1>11 DEF OnlyAbout
<1>14. Leads(was, n, mm, cur, Each("set", c, items, Nothing))
  BY <1>1, <1>2, <1>6, <1>10, <1>12, <1>13, TakeStep
<1> QED
  BY <1>5, <1>14 DEF mm

(* Self IPs go before they are made again. *)
LEMMA AddressesAwayStep ==
  ASSUME NEW was, NEW n, Ready(was, n), NEW items,
         (n \in {19, 23} /\ items = mem.matching) \/ (n \in {20, 24} /\ items = mem.existing)
  PROVE  Leads(was, n, mem, cur, Each("delete", "SelfIp", items, Nothing))
<1> DEFINE c == "SelfIp"
<1>1. c \in DeclaredClass /\ c \in Class /\ c \notin DOMAIN TwinOf /\ c \notin SingleClass
  BY ClassFacts DEF DeclaredClass, SingleClass, TwinOf
<1>2. Remembers(was, want, n, mem) /\ mem \in Memory
      /\ \A i \in Item : device["SelfIp"][i] = SelfIpIs(was, want, n, mem, i)
  BY AddressFacts
<1>3. items \subseteq Item
  BY <1>2 DEF Memory
<1>4. /\ n = 19 => items = {}
      /\ n = 20 => items = Changing(was, want, "floating")
      /\ n = 23 => items = mem.matching
      /\ n = 24 => items = Changing(was, want, "local")
  BY <1>2 DEF Remembers
<1>5. Remembers(was, want, n + 1, mem)
  BY RemembersOn
<1>6. \A d \in Class \ {c} : Still(n, d, mem, mem)
  BY Elsewhere DEF Still
<1>7. ASSUME NEW i \in items
      PROVE  \/ Is(was, want, n + 1, mem, c, i, None)
             \/ "delete" = "delete" /\ c = "SelfIp" /\ device["SelfIp"][i] = None
  <2>1. CASE n = 24 /\ i \in mem.matching
    <3>1. SelfIpIs(was, want, n, mem, i) = None
      BY <2>1 DEF SelfIpIs
    <3> QED
      BY <1>2, <1>3, <3>1
  <2>2. CASE ~(n = 24 /\ i \in mem.matching)
    <3>1. SelfIpIs(was, want, n + 1, mem, i) = None /\ (n + 1 > 24 => i \notin mem.matching)
      BY <1>4, <2>2 DEF SelfIpIs
    <3> QED
      BY <3>1, IsUnfoldsElse
  <2> QED
    BY <2>1, <2>2
<1>8. ASSUME NEW i \in Item \ items, NEW v \in Values \cup {None},
             Is(was, want, n, mem, c, i, v)
      PROVE  Is(was, want, n + 1, mem, c, i, v)
  <2>1. v = SelfIpIs(was, want, n, mem, i)
    BY <1>8, IsUnfoldsElse
  <2>2. SelfIpIs(was, want, n + 1, mem, i) = SelfIpIs(was, want, n, mem, i)
    BY <1>4 DEF SelfIpIs
  <2>3. n + 1 > 24 => i \notin mem.matching \cap Changing(was, want, "local")
    BY <1>4
  <2> QED
    BY <2>1, <2>2, <2>3, IsUnfoldsElse
<1>9. c # "VXLAN"
  OBVIOUS
<1> HIDE DEF c
<1>10. OnlyAbout(was, n, mem, c, items)
  BY <1>6, <1>8 DEF OnlyAbout
<1>11. Leads(was, n, mem, cur, Each("delete", c, items, Nothing))
  BY <1>1, <1>3, <1>5, <1>7, <1>9, <1>10, TakeStep
<1> QED
  BY <1>11 DEF c

(* Self IPs are made as they are wanted. *)
LEMMA AddressesMadeStep ==
  ASSUME NEW was, NEW n, Ready(was, n), NEW kind,
         (n = 25 /\ kind = "local") \/ (n = 26 /\ kind = "floating")
  PROVE  Leads(was, n, mem, cur, Each("create", "SelfIp", NewSelfIps(kind), want["SelfIp"]))
<1> DEFINE c == "SelfIp"
           items == NewSelfIps(kind)
<1>1. c \in DeclaredClass /\ c \in Class /\ c \notin DOMAIN TwinOf /\ c \notin SingleClass
  BY ClassFacts DEF DeclaredClass, SingleClass, TwinOf
<1>2. /\ items = NewAddresses(was, want, kind) /\ items \subseteq New(was, want, c)
      /\ items \subseteq Item
      /\ NewAddresses(was, want, "local") \cap NewAddresses(was, want, "floating") = {}
      /\ \A i \in Item : i \notin mem.matching \cap Changing(was, want, "local")
  <2>1. n > 24
    OBVIOUS
  <2> QED
    BY <2>1, AddressFacts
<1> HIDE DEF items
<1>3. \A d \in Class \ {c} : Still(n, d, mem, mem)
  BY Elsewhere DEF Still
<1>4. ASSUME NEW i \in items
      PROVE  Is(was, want, n + 1, mem, c, i, want[c][i])
  <2>1. SelfIpIs(was, want, n + 1, mem, i) = want[c][i]
    BY <1>2 DEF SelfIpIs
  <2> QED
    BY <1>2, <2>1, IsUnfoldsElse
<1>5. ASSUME NEW i \in Item \ items, NEW v \in Values \cup {None},
             Is(was, want, n, mem, c, i, v)
      PROVE  Is(was, want, n + 1, mem, c, i, v)
  <2>1. v = SelfIpIs(was, want, n, mem, i)
    BY <1>5, IsUnfoldsElse
  <2>2. SelfIpIs(was, want, n + 1, mem, i) = SelfIpIs(was, want, n, mem, i)
    BY <1>2 DEF SelfIpIs
  <2> QED
    BY <1>2, <2>1, <2>2, IsUnfoldsElse
<1>6. c # "Tunnel" /\ n \notin {17, 18, 21, 22}
  OBVIOUS
<1> HIDE DEF c
<1>7. OnlyAbout(was, n, mem, c, items)
  BY <1>3, <1>5 DEF OnlyAbout
<1>8. Leads(was, n, mem, cur, Each("create", c, items, want[c]))
  BY <1>1, <1>2, <1>4, <1>6, <1>7, MakeStep
<1> QED
  BY <1>8 DEF c, items

(* What was taken away for them comes back. *)
LEMMA RecallStep ==
  ASSUME NEW was, NEW n, Ready(was, n), NEW op, NEW c \in {"SelfIp", "Route", "ConfigSync"},
         NEW items, items \subseteq Item, NEW values,
         n \in {27, 28, 29},
         \A i \in items : values[i] = was[c][i] /\ was[c][i] # None,
         \A i \in items : Is(was, want, n + 1, mem, c, i, was[c][i]),
         OnlyAbout(was, n, mem, c, items)
  PROVE  Leads(was, n, mem, cur, Each(op, c, items, values))
<1>1. c \in Class /\ c \notin DOMAIN TwinOf /\ c \notin SingleClass
  BY DEF Class, DeclaredClass, SingleClass, TwinOf
<1>2. \A i \in Item : was[c][i] \in Values \cup {None}
  BY <1>1, Found
<1>3. \A i \in items : CommandFits(before, Do(op, c, i, values[i]))
  <2>1. \A i \in items : Fits(c, i, values[i])
    BY <1>1 DEF Ready, DeviceFits
  <2> QED
    BY <1>1, <2>1, PlainFits
<1>4. Remembers(was, want, n + 1, mem)
  BY RemembersOn
<1>5. c \notin {"DagGlobals", "VXLAN", "Tunnel"}
  OBVIOUS
<1>6. \A i \in items : /\ values[i] \in Values \cup {None}
                       /\ CommandFits(before, Do(op, c, i, values[i]))
                       /\ Is(was, want, n + 1, mem, c, i, values[i])
  BY <1>2, <1>3
<1> QED
  BY <1>1, <1>4, <1>5, <1>6, EachStep

(* Step 27, the floating self IPs.                                         *)
LEMMA FloatingRecallStep ==
  ASSUME NEW was, NEW n, n = 27, Ready(was, n)
  PROVE  Leads(was, n, mem, cur, Recall("SelfIp", mem.floats))
<1> DEFINE items == {i \in Item : mem.floats[i] # None}
           values == mem.floats
<1>1. /\ mem.floats = [i \in Item |-> IF i \in mem.matching THEN was["SelfIp"][i] ELSE None]
      /\ mem.matching \subseteq Present(was, "SelfIp") \ Changing(was, want, "floating")
      /\ \A i \in Item : i \notin mem.matching \cap Changing(was, want, "local")
  <2>1. Remembers(was, want, n, mem)
        /\ \A i \in Item : i \notin mem.matching \cap Changing(was, want, "local")
    BY AddressFacts
  <2> QED
    BY <2>1 DEF Remembers
<1>2. \A i \in Item : i \in items <=> i \in mem.matching
  BY <1>1 DEF Present
<1>3. \A i \in items : values[i] = was["SelfIp"][i] /\ was["SelfIp"][i] # None
  BY <1>1
<1>4. Recall("SelfIp", mem.floats) = Each("create", "SelfIp", items, values)
  BY DEF Recall
<1>5. items \subseteq Item
  OBVIOUS
<1> HIDE DEF items, values
<1>6. \A d \in Class \ {"SelfIp"} : Still(n, d, mem, mem)
  BY Elsewhere DEF Still
<1>7. ASSUME NEW i \in items
      PROVE  Is(was, want, n + 1, mem, "SelfIp", i, was["SelfIp"][i])
  <2>1. /\ i \notin Changing(was, want, "local") /\ i \notin Changing(was, want, "floating")
        /\ i \in Item /\ was["SelfIp"][i] # None
    BY <1>1, <1>2, <1>3, <1>5
  <2>2. i \notin NewAddresses(was, want, "local") /\ i \notin NewAddresses(was, want, "floating")
    BY <2>1 DEF Changing
  <2>3. SelfIpIs(was, want, n + 1, mem, i) = was["SelfIp"][i]
    BY <2>1, <2>2 DEF SelfIpIs
  <2> QED
    BY <2>1, <2>3, IsUnfoldsElse
<1>8. ASSUME NEW i \in Item \ items, NEW v \in Values \cup {None},
             Is(was, want, n, mem, "SelfIp", i, v)
      PROVE  Is(was, want, n + 1, mem, "SelfIp", i, v)
  <2>1. v = SelfIpIs(was, want, n, mem, i) /\ i \notin mem.matching
    BY <1>2, <1>8, IsUnfoldsElse
  <2>2. SelfIpIs(was, want, n + 1, mem, i) = SelfIpIs(was, want, n, mem, i)
    BY <2>1 DEF SelfIpIs
  <2> QED
    BY <2>1, <2>2, IsUnfoldsElse
<1>9. OnlyAbout(was, n, mem, "SelfIp", items)
  BY <1>6, <1>8 DEF OnlyAbout
<1>10. Leads(was, n, mem, cur, Each("create", "SelfIp", items, values))
  BY <1>3, <1>5, <1>7, <1>9, RecallStep
<1> QED
  BY <1>4, <1>10

(* Step 28, the config sync address.                                       *)
LEMMA SyncRecallStep ==
  ASSUME NEW was, NEW n, n = 28, Ready(was, n)
  PROVE  Leads(was, n, mem, cur, RestoreConfigSync)
<1> DEFINE items == IF mem.sync = None THEN {} ELSE {Only}
           values == [i \in Item |-> mem.sync]
<1>1. mem.sync \in {None, was["ConfigSync"][Only]}
  <2>1. Remembers(was, want, n, mem)
    BY AddressFacts
  <2> QED
    BY <2>1 DEF Remembers
<1>2. Only \in Item
  BY NetworkAssumption
<1>3. \A i \in items : /\ i = Only /\ values[i] = was["ConfigSync"][i]
                       /\ was["ConfigSync"][i] # None
  BY <1>1, <1>2
<1>4. RestoreConfigSync = Each("set", "ConfigSync", items, values)
  BY DEF RestoreConfigSync, Each
<1>5. items \subseteq Item /\ (Only \notin items => mem.sync = None)
  BY <1>2
<1> HIDE DEF items, values
<1>6. \A d \in Class \ {"ConfigSync"} : Still(n, d, mem, mem)
  BY Elsewhere DEF Still
<1>7. \A i \in items : Is(was, want, n + 1, mem, "ConfigSync", i, was["ConfigSync"][i])
  BY IsUnfoldsElse
<1>8. ASSUME NEW i \in Item \ items, NEW v \in Values \cup {None},
             Is(was, want, n, mem, "ConfigSync", i, v)
      PROVE  Is(was, want, n + 1, mem, "ConfigSync", i, v)
  BY <1>5, <1>8, IsUnfoldsElse
<1>9. OnlyAbout(was, n, mem, "ConfigSync", items)
  BY <1>6, <1>8 DEF OnlyAbout
<1>10. Leads(was, n, mem, cur, Each("set", "ConfigSync", items, values))
  BY <1>3, <1>5, <1>7, <1>9, RecallStep
<1> QED
  BY <1>4, <1>10

(* Step 29, the routes.                                                    *)
LEMMA RoutesRecallStep ==
  ASSUME NEW was, NEW n, n = 29, Ready(was, n)
  PROVE  Leads(was, n, mem, cur, Recall("Route", mem.routes))
<1> DEFINE items == {i \in Item : mem.routes[i] # None}
           values == mem.routes
<1>1. \A r \in Item : mem.routes[r] \in {None, was["Route"][r]}
  <2>1. Remembers(was, want, n, mem)
    BY AddressFacts
  <2> QED
    BY <2>1 DEF Remembers
<1>2. \A i \in Item : i \notin items => mem.routes[i] = None
  OBVIOUS
<1>3. \A i \in items : values[i] = was["Route"][i] /\ was["Route"][i] # None
  BY <1>1
<1>4. Recall("Route", mem.routes) = Each("create", "Route", items, values)
  BY DEF Recall
<1>5. items \subseteq Item
  OBVIOUS
<1> HIDE DEF items, values
<1>6. \A d \in Class \ {"Route"} : Still(n, d, mem, mem)
  BY Elsewhere DEF Still
<1>7. \A i \in items : Is(was, want, n + 1, mem, "Route", i, was["Route"][i])
  BY IsUnfoldsElse DEF RouteIs
<1>8. \A i \in Item \ items, v \in Values \cup {None} :
        Is(was, want, n, mem, "Route", i, v) => Is(was, want, n + 1, mem, "Route", i, v)
  BY <1>2, IsUnfoldsElse DEF RouteIs
<1>9. OnlyAbout(was, n, mem, "Route", items)
  BY <1>6, <1>8 DEF OnlyAbout
<1>10. Leads(was, n, mem, cur, Each("create", "Route", items, values))
  BY <1>3, <1>5, <1>7, <1>9, RecallStep
<1> QED
  BY <1>4, <1>10

(* Step 42, self IPs that are gone.                                        *)
LEMMA SelfIpsGoStep ==
  ASSUME NEW was, Ready(was, 42)
  PROVE  Goes(was, 42)
<1> DEFINE c == "SelfIp"
<1>1. c \in DeclaredClass /\ c \in Class /\ c \notin DOMAIN TwinOf /\ c \notin SingleClass
  BY ClassFacts DEF DeclaredClass, SingleClass, TwinOf
<1>2. \A d \in Class \ {c} : Still(42, d, mem, mem)
  BY Elsewhere DEF Still
<1>3. Items(c) = Going(was, want, c) /\ Going(was, want, c) \subseteq Item
  BY <1>1, GoingIs, Found
<1>4. DeletedClass(42) = c
  BY DeletePlanIs
<1>5. Started(42) = Each("clear", c, Items(c), Nothing) /\ MemoryAfter(42) = mem
      /\ ConfigAfter(42) = cur
  BY <1>1, <1>4, DeleteStep DEF Deletion
<1>6. \A i \in Item : i \notin mem.matching \cap Changing(was, want, "local")
  BY AddressFacts
<1>7. \A i \in Items(c) : Is(was, want, 42 + 1, mem, c, i, None)
  BY <1>3, <1>6, IsUnfoldsElse DEF SelfIpIs
<1>8. ASSUME NEW i \in Item \ Items(c), NEW v \in Values \cup {None},
             Is(was, want, 42, mem, c, i, v)
      PROVE  Is(was, want, 42 + 1, mem, c, i, v)
  <2>1. SelfIpIs(was, want, 42 + 1, mem, i) = SelfIpIs(was, want, 42, mem, i)
    BY <1>3 DEF SelfIpIs
  <2> QED
    BY <1>6, <1>8, <2>1, IsUnfoldsElse
<1>9. Remembers(was, want, 42 + 1, mem)
  BY RemembersOn
<1>10. c # "VXLAN"
  OBVIOUS
<1>11. OnlyAbout(was, 42, mem, c, Items(c))
  BY <1>2, <1>8 DEF OnlyAbout
<1>12. Leads(was, 42, mem, cur, Each("clear", c, Items(c), Nothing))
  BY <1>1, <1>3, <1>7, <1>9, <1>10, <1>11, TakeStep
<1> QED
  BY <1>5, <1>12 DEF Goes

(* Steps 17 to 29, handleSelfIp.                                           *)
LEMMA SelfIpSteps ==
  ASSUME NEW was, NEW n, Ready(was, n), n \in 17 .. 29
  PROVE  Goes(was, n)
<1>1. Started(n) = Chains(NetworkPlan[n]) /\ MemoryAfter(n) = Remember(NetworkPlan[n])
      /\ ConfigAfter(n) = cur /\ (n \notin {17, 18, 21, 22} => MemoryAfter(n) = mem)
  BY NetworkStep
<1>2. CASE n = 17
  <2>1. (n = 17 /\ "floating" = "floating") \/ (n = 21 /\ "floating" = "local")
    BY <1>2
  <2>2. Leads(was, n, FindRoutes("floating"), cur,
                Each("delete", "Route", MatchingRoutes(Existing("floating")), Nothing))
    BY <2>1, RoutesAwayStep
  <2> QED
    BY <1>1, <1>2, <2>2, PlanIs, PlanOfSelfIps DEF Goes
<1>3. CASE n = 18
  <2>1. (n = 18 /\ "floating" = "floating") \/ (n = 22 /\ "floating" = "local")
    BY <1>3
  <2>2. Leads(was, n, FindSelfIps("floating"), cur, ClearConfigSync)
    BY <2>1, ConfigSyncAwayStep
  <2> QED
    BY <1>1, <1>3, <2>2, PlanIs, PlanOfSelfIps DEF Goes
<1>4. CASE n = 19
  <2>1. (n \in {19, 23} /\ mem.matching = mem.matching) \/ (n \in {20, 24} /\ mem.matching = mem.existing)
    BY <1>4
  <2>2. Leads(was, n, mem, cur, Each("delete", "SelfIp", mem.matching, Nothing))
    BY <2>1, AddressesAwayStep
  <2> QED
    BY <1>1, <1>4, <2>2, PlanIs, PlanOfSelfIps DEF Goes
<1>5. CASE n = 20
  <2>1. Leads(was, n, mem, cur, Each("delete", "SelfIp", mem.existing, Nothing))
    BY <1>5, AddressesAwayStep
  <2> QED
    BY <1>1, <1>5, <2>1, PlanIs, PlanOfSelfIps DEF Goes
<1>6. CASE n = 21
  <2>1. Leads(was, n, FindRoutes("local"), cur,
                Each("delete", "Route", MatchingRoutes(Existing("local")), Nothing))
    BY <1>6, RoutesAwayStep
  <2> QED
    BY <1>1, <1>6, <2>1, PlanIs, PlanOfSelfIps DEF Goes
<1>7. CASE n = 22
  <2>1. Leads(was, n, FindSelfIps("local"), cur, ClearConfigSync)
    BY <1>7, ConfigSyncAwayStep
  <2> QED
    BY <1>1, <1>7, <2>1, PlanIs, PlanOfSelfIps DEF Goes
<1>8. CASE n = 23
  <2>1. (n \in {19, 23} /\ mem.matching = mem.matching) \/ (n \in {20, 24} /\ mem.matching = mem.existing)
    BY <1>8
  <2>2. Leads(was, n, mem, cur, Each("delete", "SelfIp", mem.matching, Nothing))
    BY <2>1, AddressesAwayStep
  <2> QED
    BY <1>1, <1>8, <2>2, PlanIs, PlanOfSelfIps DEF Goes
<1>9. CASE n = 24
  <2>1. Leads(was, n, mem, cur, Each("delete", "SelfIp", mem.existing, Nothing))
    BY <1>9, AddressesAwayStep
  <2> QED
    BY <1>1, <1>9, <2>1, PlanIs, PlanOfSelfIps DEF Goes
<1>10. CASE n = 25
  <2>1. (n = 25 /\ "local" = "local") \/ (n = 26 /\ "local" = "floating")
    BY <1>10
  <2>2. Leads(was, n, mem, cur, Each("create", "SelfIp", NewSelfIps("local"), want["SelfIp"]))
    BY <2>1, AddressesMadeStep
  <2> QED
    BY <1>1, <1>10, <2>2, PlanIs, PlanOfSelfIps DEF Goes
<1>11. CASE n = 26
  <2>1. Leads(was, n, mem, cur, Each("create", "SelfIp", NewSelfIps("floating"), want["SelfIp"]))
    BY <1>11, AddressesMadeStep
  <2> QED
    BY <1>1, <1>11, <2>1, PlanIs, PlanOfSelfIps DEF Goes
<1>12. CASE n = 27
  <2>1. Leads(was, n, mem, cur, Recall("SelfIp", mem.floats))
    BY <1>12, FloatingRecallStep
  <2> QED
    BY <1>1, <1>12, <2>1, PlanIs, PlanOfSelfIps DEF Goes
<1>13. CASE n = 28
  <2>1. Leads(was, n, mem, cur, RestoreConfigSync)
    BY <1>13, SyncRecallStep
  <2> QED
    BY <1>1, <1>13, <2>1, PlanIs, PlanOfSelfIps DEF Goes
<1>14. CASE n = 29
  <2>1. Leads(was, n, mem, cur, Recall("Route", mem.routes))
    BY <1>14, RoutesRecallStep
  <2> QED
    BY <1>1, <1>14, <2>1, PlanIs, PlanOfSelfIps DEF Goes
<1> QED
  BY <1>2, <1>3, <1>4, <1>5, <1>6, <1>7, <1>8, <1>9, <1>10, <1>11, <1>12, <1>13, <1>14

(* Every step leaves what is to be before the next. *)
LEMMA EveryStep ==
  ASSUME NEW was, NEW n, Ready(was, n)
  PROVE  Goes(was, n)
<1>1. n \in 1 .. 55
  BY DEF Ready
<1>2. CASE n \in {1, 2, 5, 13, 16, 34, 35, 40, 43, 48, 49, 50, 51, 54, 55}
  BY <1>2, SimpleSteps
<1>3. CASE n \in {11, 12, 14, 15, 44, 45, 46, 47}
  BY <1>3, ListSteps
<1>4. CASE n \in 17 .. 29
  BY <1>4, SelfIpSteps
<1>5. CASE n \in {6, 7, 8, 9}
  BY <1>5, TunnelSteps, VxlanSteps
<1>6. CASE n \in {30, 31, 36, 37, 38, 39}
  BY <1>6, RouteSteps, EntriesLastSteps, BgpSteps
<1>7. CASE n \in {3, 4, 10, 32}
  BY <1>7, RouteDomain0Step, RouteDomainsStep, AcceptIpOptionsStep, DagStep
<1>8. CASE n \in {33, 41, 42, 52, 53}
  BY <1>8, EnableRoutingStep, RoutesGoStep, SelfIpsGoStep, RouteDomainsGoStep, TunnelsGoStep
<1> QED
  BY <1>1, <1>2, <1>3, <1>4, <1>5, <1>6, <1>7, <1>8

-----------------------------------------------------------------------------
(* Which chains are waited for *)

AllAwaited(chain) == \A k \in DOMAIN chain : chain[k].awaited

(* All of a chain is waited for, but for the profile of a vxlan tunnel.    *)
Waits(was, to, n, chain) ==
  \/ AllAwaited(chain)
  \/ \E i \in GoingVxlan(was, to) :
       /\ n > 53
       /\ chain = <<Awaited(<<Do("clear", "Tunnel", i, None)>>),
                    Unawaited(<<Do("clear", "VXLAN", i, None)>>)>>

(* The chains of the steps are waited for, class by class.                 *)
LEMMA OneAwaited ==
  ASSUME NEW x, NEW y
  PROVE  AllAwaited(<<Awaited(x)>>) /\ AllAwaited(<<Awaited(x), Awaited(y)>>)
<1>1. Awaited(x).awaited /\ Awaited(y).awaited
  BY DEF Awaited
<1> HIDE DEF Awaited
<1>2. DOMAIN <<Awaited(x)>> = {1} /\ <<Awaited(x)>>[1] = Awaited(x)
  OBVIOUS
<1>3. /\ DOMAIN <<Awaited(x), Awaited(y)>> = {1, 2}
      /\ <<Awaited(x), Awaited(y)>>[1] = Awaited(x)
      /\ <<Awaited(x), Awaited(y)>>[2] = Awaited(y)
  OBVIOUS
<1> QED
  BY <1>1, <1>2, <1>3 DEF AllAwaited

LEMMA EachAwaited ==
  ASSUME NEW op, NEW c, NEW items, NEW values, NEW commands
  PROVE  /\ \A chain \in Each(op, c, items, values) : AllAwaited(chain)
         /\ \A chain \in Transaction(commands) : AllAwaited(chain)
<1>1. \A chain \in Each(op, c, items, values) : \E x : chain = <<Awaited(x)>>
  BY DEF Each
<1>2. \A chain \in Transaction(commands) : \E x : chain = <<Awaited(x)>>
  BY DEF Transaction
<1> QED
  BY <1>1, <1>2, OneAwaited

LEMMA PlainAwaited ==
  ASSUME NEW step \in PlainStep
  PROVE  \A chain \in Chains(step) : AllAwaited(chain)
<1>1. \E c : Chains(step) = CreateOrModify(c)
  BY DEF PlainStep, PlainClass, Chains, handleTrunk, handleVlan, handleDnsResolver, handleTunnel,
         handleFirewallAddressList, handleFirewallPortList, handleFirewallPolicy,
         handleNetAddressList, handleNetPortList, handleRoutingAsPath, handleRoutingAccessList,
         handleRoutingBGP
<1> QED
  BY <1>1, EachAwaited DEF CreateOrModify

LEMMA EntriesLastAwaited ==
  ASSUME NEW c
  PROVE  \A chain \in EntriesLast(c) : AllAwaited(chain)
<1> DEFINE moved == {i \in Update(c) : cur[c][i] # None /\ cur[c][i].fixed # want[c][i].fixed}
<1>1. \A chain \in EntriesLast(c) :
        \/ chain \in Each("createOrModify", c, Update(c) \ moved, want[c])
        \/ \E x, y : chain = <<Awaited(x), Awaited(y)>>
  BY DEF EntriesLast
<1> HIDE DEF moved
<1>2. \A chain \in Each("createOrModify", c, Update(c) \ moved, want[c]) : AllAwaited(chain)
  BY EachAwaited
<1>3. \A x, y : AllAwaited(<<Awaited(x), Awaited(y)>>)
  BY OneAwaited
<1> QED
  BY <1>1, <1>2, <1>3

LEMMA OthersAwaited ==
  ASSUME NEW step \in OtherStep, step # "DagGlobals"
  PROVE  \A chain \in Chains(step) : AllAwaited(chain)
<1>1. step \in {"RouteDomain0", "RouteDomain"} => \A chain \in Chains(step) : AllAwaited(chain)
  BY EachAwaited DEF Chains, RouteDomain0, RouteDomains
<1>2. step \in {"tunnelDelete", "vxlanDelete", "vxlanCreate"}
        => \A chain \in Chains(step) : AllAwaited(chain)
  BY EachAwaited DEF Chains
<1>3. step = "acceptIpOptions" => \A chain \in Chains(step) : AllAwaited(chain)
  <2>1. \A chain \in AcceptIpOptions : \E x : chain = <<Awaited(x)>>
    BY DEF AcceptIpOptions
  <2> QED
    BY <2>1, OneAwaited DEF Chains
<1>4. step \in {"routeDelete", "routeCreate"} => \A chain \in Chains(step) : AllAwaited(chain)
  BY EachAwaited DEF Chains, RoutesAnew
<1>5. step \in {"ManagementIpFirewall", "bgpDelete"}
        => \A chain \in Chains(step) : AllAwaited(chain)
  BY EachAwaited DEF Chains, handleManagementIpFirewall
<1>6. step = "enableRouting" => \A chain \in Chains(step) : AllAwaited(chain)
  <2>1. \A chain \in handleEnableRouting : \E x : chain = <<Awaited(x)>>
    BY DEF handleEnableRouting
  <2> QED
    BY <2>1, OneAwaited DEF Chains
<1>7. step \in {"RoutingPrefixList", "RouteMap"} => \A chain \in Chains(step) : AllAwaited(chain)
  BY EntriesLastAwaited DEF Chains, handleRoutingPrefixList, handleRouteMap
<1> QED
  BY <1>1, <1>2, <1>3, <1>4, <1>5, <1>6, <1>7 DEF OtherStep

LEMMA SelfIpAwaited ==
  ASSUME NEW step \in SelfIpStep
  PROVE  \A chain \in Chains(step) : AllAwaited(chain)
<1>1. Chains(step) = SelfIpChains(step)
  BY DEF SelfIpStep, Chains
<1>2. step \in {"floatingRoutes", "localRoutes", "floatingMatching", "localMatching",
                "floatingDelete", "localDelete", "localCreate", "floatingCreate"}
        => \A chain \in SelfIpChains(step) : AllAwaited(chain)
  BY EachAwaited DEF SelfIpChains
<1>3. step \in {"floatingDepends", "localDepends"}
        => \A chain \in SelfIpChains(step) : AllAwaited(chain)
  BY EachAwaited DEF SelfIpChains, ClearConfigSync
<1>4. step \in {"floatingRecall", "routesRecall"}
        => \A chain \in SelfIpChains(step) : AllAwaited(chain)
  BY EachAwaited DEF SelfIpChains, Recall
<1>5. step = "syncRecall" => \A chain \in SelfIpChains(step) : AllAwaited(chain)
  BY EachAwaited DEF SelfIpChains, RestoreConfigSync
<1> QED
  BY <1>1, <1>2, <1>3, <1>4, <1>5 DEF SelfIpStep

LEMMA DeletionAwaited ==
  ASSUME NEW c \in Deletable, c # "Tunnel"
  PROVE  \A chain \in Deletion(c) : AllAwaited(chain)
<1>1. CASE c = "RouteDomain"
  BY <1>1, EachAwaited, TwinFacts DEF Deletion
<1>2. CASE c \in DOMAIN TwinOf
  <2>1. c # "RouteDomain"
    BY <1>2, TwinFacts
  <2>2. \A chain \in Deletion(c) : \E x : chain = <<Awaited(x)>>
    BY <1>2, <2>1 DEF Deletion
  <2> QED
    BY <2>2, OneAwaited
<1>3. CASE c # "RouteDomain" /\ c \notin DOMAIN TwinOf
  BY <1>3, EachAwaited DEF Deletion
<1> QED
  BY <1>1, <1>2, <1>3

LEMMA TunnelsWait ==
  ASSUME NEW was, Ready(was, 53), NEW chain \in Deletion("Tunnel")
  PROVE  Waits(was, want, 54, chain)
<1> DEFINE c == "Tunnel"
<1>1. c \in DeclaredClass /\ c \notin DOMAIN TwinOf /\ c # "RouteDomain"
  BY TwinFacts DEF DeclaredClass
<1>2. Items(c) = Going(was, want, c) /\ Items(c) \subseteq Item
      /\ \A i \in Item : cur[c][i] = was[c][i]
  BY <1>1, GoingIs, Found
<1>3. PICK i \in Items(c) :
        chain = IF cur[c][i].fixed \in Vxlan
                  THEN <<Awaited(<<Do("clear", c, i, None)>>),
                         Unawaited(<<Do("clear", "VXLAN", i, None)>>)>>
                  ELSE <<Awaited(<<Do("clear", c, i, None)>>)>>
  BY <1>1 DEF Deletion
<1>4. 54 > 53
  OBVIOUS
<1>5. CASE cur[c][i].fixed \in Vxlan
  <2>1. i \in GoingVxlan(was, want)
    BY <1>2, <1>5 DEF GoingVxlan
  <2> QED
    BY <1>3, <1>4, <1>5, <2>1 DEF Waits
<1>6. CASE ~(cur[c][i].fixed \in Vxlan)
  BY <1>3, <1>6, OneAwaited DEF Waits
<1> QED
  BY <1>5, <1>6

(* The chains of a step are waited for, or the loose ones of DagGlobals.   *)
LEMMA StartedWaits ==
  ASSUME NEW was, NEW n, Ready(was, n), NEW chain \in Started(n), Head(chain).awaited
  PROVE  Waits(was, want, n + 1, chain)
<1>1. n \in 1 .. 55
  BY DEF Ready
<1>2. CASE n \in 1 .. 39
  <2>1. NetworkPlan[n] \in PlainStep \cup OtherStep \cup SelfIpStep
        /\ Started(n) = Chains(NetworkPlan[n])
    BY <1>2, PlanFacts, NetworkStep
  <2>2. CASE NetworkPlan[n] = "DagGlobals"
    <3>1. PICK x : chain = <<Unawaited(x)>>
      BY <2>1, <2>2 DEF Chains, handleDagGlobals
    <3>2. ~Unawaited(x).awaited /\ Head(<<Unawaited(x)>>) = Unawaited(x)
      BY DEF Unawaited
    <3> QED
      BY <3>1, <3>2
  <2>3. CASE NetworkPlan[n] # "DagGlobals"
    BY <2>1, <2>3, PlainAwaited, OthersAwaited, SelfIpAwaited DEF Waits
  <2> QED
    BY <2>2, <2>3
<1>3. CASE n \in 40 .. 55
  <2>1. DeletedClass(n) \in Deletable /\ Started(n) = Deletion(DeletedClass(n))
    <3>1. n - 39 \in 1 .. 16
      BY <1>3
    <3> QED
      BY <1>3, <3>1, PlanFacts, DeleteStep DEF DeletedClass
  <2>2. CASE DeletedClass(n) = "Tunnel"
    <3>1. n = 53
      <4>1. n \in {40, 41, 42, 43, 44, 45, 46, 47, 48, 49, 50, 51, 52, 53, 54, 55}
        BY <1>3
      <4> QED
        BY <2>2, <4>1, DeletePlanIs
    <3> QED
      BY <2>1, <2>2, <3>1, TunnelsWait
  <2>3. CASE DeletedClass(n) # "Tunnel"
    BY <2>1, <2>3, DeletionAwaited DEF Waits
  <2> QED
    BY <2>2, <2>3
<1> QED
  BY <1>1, <1>2, <1>3

-----------------------------------------------------------------------------
(* What an accepted call leaves of a device *)

(* A transaction of one command.                                           *)
LEMMA OneCommand ==
  ASSUME device \in Device, NEW call \in Call, NEW cmd, call.commands = <<cmd>>
  PROVE  Outcome(call) = Executed(device, cmd)
<1>1. Len(call.commands) = 1 /\ call.commands[1] = cmd
  OBVIOUS
<1>2. PICK f : f[0] = device /\ f[1] = Outcome(call) /\ f[1] = Executed(f[0], call.commands[1])
  <2>1. 1 \in 1 .. 1 /\ 1 - 1 = 0
    OBVIOUS
  <2> QED
    BY <1>1, <2>1, OutcomeSteps
<1> QED
  BY <1>1, <1>2

(* An object to which nothing refers may go, and one that refers to        *)
(* nothing may be set, when the network has no say in it.                  *)
LEMMA StaysSound ==
  ASSUME NEW dev \in Device, Sound(dev), NEW c \in {"DagGlobals", "VXLAN"}, NEW op, NEW j \in Item,
         NEW v \in Values \cup {None}, c = "VXLAN" => v = None, v # None => v.refs = {},
         v = None => \A d \in Class : \A i \in Present(dev, d) : <<c, j>> \notin dev[d][i].refs
  PROVE  Sound(After(dev, Do(op, c, j, v)))
<1> DEFINE to == After(dev, Do(op, c, j, v))
<1>1. /\ c \notin DOMAIN TwinOf /\ c \in Class
      /\ \A d \in DOMAIN TwinOf : TwinOf[d] # c
      /\ \A d \in {"Route", "SelfIp", "ConfigSync", "RoutingBGP"} : d \in Class /\ d # c
  BY DEF TwinOf, Class, DeclaredClass, SingleClass, PlainClass
<1>2. \A d \in Class : d # c => to[d] = dev[d]
  BY <1>1 DEF After, Do
<1>3. dev[c] \in [Item -> Values \cup {None}]
  BY <1>1 DEF Device, Section
<1>4. to[c] = [dev[c] EXCEPT ![j] = v]
  BY <1>1 DEF After, Do
<1>5. \A i \in Item : to[c][i] = IF i = j THEN v ELSE dev[c][i]
  BY <1>3, <1>4
<1> HIDE DEF to
<1>6. to["Route"] = dev["Route"] /\ to["SelfIp"] = dev["SelfIp"]
      /\ to["ConfigSync"] = dev["ConfigSync"] /\ to["RoutingBGP"] = dev["RoutingBGP"]
  BY <1>1, <1>2
<1>7. ASSUME NEW d \in Class, NEW i \in Present(to, d), NEW r \in to[d][i].refs
      PROVE  to[r[1]][r[2]] # None
  <2>1. /\ i \in Present(dev, d) /\ to[d][i] = dev[d][i]
    <3>1. i \in Item /\ to[d][i] # None
      BY DEF Present
    <3>2. CASE d # c \/ i # j
      BY <1>2, <1>5, <3>1, <3>2 DEF Present
    <3>3. CASE d = c /\ i = j
      <4>1. v # None /\ v.refs = {} /\ to[d][i] = v
        BY <1>5, <3>1, <3>3
      <4> QED
        BY <1>7, <4>1
    <3> QED
      BY <3>2, <3>3
  <2>2. dev[d][i] \in Values
    BY <2>1, DeviceFacts
  <2>3. r \in Class \X Item
    BY <1>7, <2>1, <2>2, CasesAssumption
  <2>4. r[1] \in Class /\ r[2] \in Item /\ r = <<r[1], r[2]>>
    BY <2>3
  <2>5. dev[r[1]][r[2]] # None
    BY <1>7, <2>1 DEF Sound
  <2>6. CASE r[1] = c /\ r[2] = j
    <3>1. v # None
      BY <1>7, <2>1, <2>4, <2>6
    <3> QED
      BY <1>5, <2>6, <3>1
  <2>7. CASE ~(r[1] = c /\ r[2] = j)
    BY <1>2, <1>5, <2>4, <2>5, <2>7
  <2> QED
    BY <2>6, <2>7
<1>8. /\ Present(to, "Route") = Present(dev, "Route")
      /\ Present(to, "SelfIp") = Present(dev, "SelfIp")
      /\ Present(to, "ConfigSync") = Present(dev, "ConfigSync")
      /\ Present(to, "RoutingBGP") = Present(dev, "RoutingBGP")
  BY <1>6 DEF Present
<1>9. Local(to) = Local(dev) /\ Floating(to) = Floating(dev)
  BY <1>6, <1>8 DEF Local, Floating
<1>10. \A net : Reachable(to, net) <=> Reachable(dev, net)
  BY <1>6, <1>9 DEF Reachable
<1> QED
  BY <1>6, <1>7, <1>8, <1>9, <1>10 DEF Sound, to

(* The calls nobody waits for are accepted whenever they arrive.           *)
LEMMA LooseAccepted ==
  ASSUME Typed, DeviceFits(before, device), ConfigFits(before, want),
         NEW was, NEW n, NEW chain, LooseIs(device, was, want, n, chain)
  PROVE  /\ chain \in Chain /\ Accepted(Head(chain)) /\ Rest(chain) = {}
<1>1. device \in Device /\ want \in Config /\ Refused \notin Device /\ None \notin Values
  BY NetworkAssumption DEF Typed
<1>2. Sound(device)
  BY DEF DeviceFits
<1>3. ASSUME NEW op \in {"set", "clear"}, NEW c \in {"DagGlobals", "VXLAN"}, NEW i \in Item,
             NEW v \in Values \cup {None}, Sound(After(device, Do(op, c, i, v))),
             chain = <<Unawaited(<<Do(op, c, i, v)>>)>>
      PROVE  /\ chain \in Chain /\ Accepted(Head(chain)) /\ Rest(chain) = {}
  <2> DEFINE cmd == Do(op, c, i, v)
             call == Unawaited(<<cmd>>)
  <2>1. c \in Class /\ op \in Operation
    BY DEF Class, DeclaredClass, SingleClass, Operation
  <2>2. cmd \in Command /\ <<cmd>> \in Seq(Command)
    BY <2>1, CommandFacts
  <2>3. call \in Call /\ <<call>> \in Chain
    BY <2>2, CallFacts
  <2>4. call.commands = <<cmd>>
    BY DEF Unawaited
  <2>5. Outcome(call) = Executed(device, cmd)
    BY <1>1, <2>3, <2>4, OneCommand
  <2>6. Allowed(device, cmd)
    BY DEF Allowed, Do
  <2>7. Executed(device, cmd) = After(device, cmd)
    BY <1>1, <2>6 DEF Executed
  <2>8. After(device, cmd) # Refused
    <3>1. Executed(device, cmd) \in Device \cup {Refused}
      BY <1>1, <2>2, CommandIsTyped
    <3>2. After(device, cmd) = [d \in Class |-> After(device, cmd)[d]]
      BY DEF After
    <3>3. \A d \in Class : After(device, cmd)[d] \in Section
      <4> SUFFICES ASSUME NEW d \in Class
                   PROVE  After(device, cmd)[d] \in Section
        OBVIOUS
      <4>1. /\ device[d] \in Section /\ cmd.item \in Item /\ cmd.value \in Values \cup {None}
            /\ Only \in Item /\ AcceptAll \in Values
        BY <1>1, <2>2, DeviceFacts, NetworkAssumption DEF Command
      <4>2. /\ [device[d] EXCEPT ![cmd.item] = cmd.value] \in Section
            /\ [device[d] EXCEPT ![Only] = AcceptAll] \in Section
        BY <4>1 DEF Section
      <4> HIDE DEF cmd
      <4> QED
        BY <4>1, <4>2 DEF After
    <3> HIDE DEF cmd
    <3> QED
      BY <1>1, <3>2, <3>3 DEF Device
  <2> HIDE DEF call
  <2>9. Head(<<call>>) = call /\ Tail(<<call>>) = <<>>
    OBVIOUS
  <2>10. chain = <<call>>
    BY <1>3 DEF call
  <2> QED
    BY <1>3, <2>3, <2>5, <2>7, <2>8, <2>9, <2>10 DEF Accepted, Rest
<1>4. ASSUME NEW i \in New(was, want, "DagGlobals"),
             chain = <<Unawaited(<<Do("set", "DagGlobals", i, want["DagGlobals"][i])>>)>>
      PROVE  /\ chain \in Chain /\ Accepted(Head(chain)) /\ Rest(chain) = {}
  <2> DEFINE v == want["DagGlobals"][i]
  <2>1. "DagGlobals" \in DeclaredClass
    BY DEF DeclaredClass, SingleClass
  <2>2. i \in Item /\ v # None
    BY DEF New, Present
  <2>3. v \in Values
    BY <1>1, <2>1, <2>2, ConfigFacts
  <2>4. v.refs = {}
    BY <2>1, <2>2 DEF ConfigFits, Fits
  <2> HIDE DEF v
  <2>5. Sound(After(device, Do("set", "DagGlobals", i, v)))
    BY <1>1, <1>2, <2>2, <2>3, <2>4, StaysSound
  <2> QED
    BY <1>3, <1>4, <2>2, <2>3, <2>5 DEF v
<1>5. ASSUME NEW i \in GoingVxlan(was, want), device["Tunnel"][i] = None,
             chain = <<Unawaited(<<Do("clear", "VXLAN", i, None)>>)>>
      PROVE  /\ chain \in Chain /\ Accepted(Head(chain)) /\ Rest(chain) = {}
  <2>1. i \in Item
    BY DEF GoingVxlan, Going, Dropped, Present
  <2>2. \A d \in Class : \A j \in Present(device, d) : <<"VXLAN", i>> \notin device[d][j].refs
    BY <1>5, <2>1 DEF DeviceFits, Fits, Present
  <2>3. Sound(After(device, Do("clear", "VXLAN", i, None)))
    BY <1>1, <1>2, <2>1, <2>2, StaysSound
  <2> QED
    BY <1>3, <1>5, <2>1, <2>3
<1> QED
  BY <1>4, <1>5 DEF LooseIs

(* A call that is accepted keeps what is assumed of the device.            *)
LEMMA OutcomeFits ==
  ASSUME NEW first, Typed, DeviceFits(first, device), first["TrafficControl"][Only] # None,
         NEW call \in Call, CallFits(first, call), Accepted(call)
  PROVE  DeviceFits(first, Outcome(call)) /\ Outcome(call) \in Device
<1> DEFINE dev == Outcome(call)
<1>1. device \in Device /\ dev \in Device /\ dev # Refused /\ Sound(dev)
  <2>1. device \in Device
    BY DEF Typed
  <2> QED
    BY <2>1, OutcomeIsTyped DEF Accepted
<1> HIDE DEF dev
<1>2. ASSUME NEW c \in Class, NEW i \in Item
      PROVE  \/ CallLeaves(call, c, i, dev[c][i])
             \/ ~HitsCall(call, c, i) /\ dev[c][i] = device[c][i]
             \/ c = "TrafficControl" /\ i = Only /\ dev[c][i] = AcceptAll
  BY <1>1, OutcomeIs DEF dev
<1>3. \A c \in DOMAIN TwinOf : /\ TwinOf[c] \in DOMAIN TwinOf /\ TwinOf[TwinOf[c]] = c
                               /\ c \in Class /\ TwinOf[c] \in Class
                               /\ c \notin {"TrafficControl", "DagGlobals", "Tunnel"}
                               /\ c \notin SingleClass
  BY DEF TwinOf, Class, DeclaredClass, PlainClass, SingleClass
<1>4. ASSUME NEW c \in Class, NEW i \in Item, NEW v, CallLeaves(call, c, i, v)
      PROVE  /\ v # None => Fits(c, i, v)
             /\ c \in SingleClass => v # None /\ first[c][i] # None
             /\ ~(~Afm /\ c \in DOMAIN TwinOf /\ c = First(c))
  <2>1. PICK k \in DOMAIN call.commands : Hits(call.commands[k], c, i) /\ v = call.commands[k].value
    BY <1>4 DEF CallLeaves
  <2> DEFINE cmd == call.commands[k]
  <2>2. CommandFits(first, cmd)
    BY DEF CallFits
  <2>3. cmd.item = i /\ v = cmd.value
        /\ (c = cmd.class \/ (Afm /\ c \in DOMAIN TwinOf /\ cmd.class = TwinOf[c]))
    BY <2>1 DEF Hits
  <2> HIDE DEF cmd
  <2>4. CASE c = cmd.class
    BY <2>2, <2>3, <2>4 DEF CommandFits
  <2>5. CASE Afm /\ c \in DOMAIN TwinOf /\ cmd.class = TwinOf[c]
    <3>1. v # None => Fits(TwinOf[c], i, v)
      BY <2>2, <2>3, <2>5 DEF CommandFits
    <3> QED
      BY <1>3, <2>5, <3>1 DEF Fits
  <2> QED
    BY <2>3, <2>4, <2>5
<1>5. ASSUME NEW c \in Class, NEW i \in Item, dev[c][i] # None
      PROVE  Fits(c, i, dev[c][i])
  <2>1. CASE c = "TrafficControl" /\ i = Only /\ dev[c][i] = AcceptAll
    BY <2>1, CasesAssumption DEF Fits
  <2> QED
    BY <1>2, <1>4, <1>5, <2>1 DEF DeviceFits
<1>6. ASSUME NEW c \in SingleClass, NEW i \in Item
      PROVE  dev[c][i] = None <=> first[c][i] = None
  <2>1. c \in Class
    BY DEF Class, DeclaredClass
  <2>2. AcceptAll # None
    BY NetworkAssumption
  <2> QED
    BY <1>2, <1>4, <2>1, <2>2 DEF DeviceFits
<1>7. ASSUME NEW c \in DOMAIN TwinOf, Afm
      PROVE  dev[c] = dev[TwinOf[c]]
  <2>1. c \in Class /\ TwinOf[c] \in Class
    BY <1>3
  <2>2. dev[c] \in [Item -> Values \cup {None}] /\ dev[TwinOf[c]] \in [Item -> Values \cup {None}]
    BY <1>1, <2>1 DEF Device, Section
  <2>3. ASSUME NEW i \in Item
        PROVE  dev[c][i] = dev[TwinOf[c]][i]
    <3>1. \A cmd : Hits(cmd, c, i) <=> Hits(cmd, TwinOf[c], i)
      BY <1>3, <1>7 DEF Hits
    <3>2. /\ HitsCall(call, c, i) <=> HitsCall(call, TwinOf[c], i)
          /\ \A v : CallLeaves(call, c, i, v) <=> CallLeaves(call, TwinOf[c], i, v)
      BY <3>1 DEF HitsCall, CallLeaves
    <3>3. \A v : CallLeaves(call, c, i, v) => HitsCall(call, c, i)
      BY DEF CallLeaves, HitsCall
    <3>4. c # "TrafficControl" /\ TwinOf[c] # "TrafficControl"
      BY <1>3
    <3>5. \/ CallLeaves(call, c, i, dev[c][i])
          \/ ~HitsCall(call, c, i) /\ dev[c][i] = device[c][i]
      BY <1>2, <2>1, <3>4
    <3>6. \/ CallLeaves(call, TwinOf[c], i, dev[TwinOf[c]][i])
          \/ ~HitsCall(call, TwinOf[c], i) /\ dev[TwinOf[c]][i] = device[TwinOf[c]][i]
      BY <1>2, <2>1, <3>4
    <3>7. device[c] = device[TwinOf[c]]
      BY <1>7 DEF DeviceFits
    <3>8. CASE HitsCall(call, c, i)
      <4>1. CallLeaves(call, c, i, dev[c][i]) /\ CallLeaves(call, c, i, dev[TwinOf[c]][i])
        BY <3>2, <3>5, <3>6, <3>8
      <4> QED
        BY <4>1, OneIsLeft
    <3>9. CASE ~HitsCall(call, c, i)
      BY <3>2, <3>3, <3>5, <3>6, <3>7, <3>9
    <3> QED
      BY <3>8, <3>9
  <2> QED
    BY <2>2, <2>3
<1>8. ASSUME NEW c \in DOMAIN TwinOf, ~Afm, c = First(c)
      PROVE  dev[c] = Nothing
  <2>1. c \in Class /\ c # "TrafficControl"
    BY <1>3
  <2>2. dev[c] \in [Item -> Values \cup {None}]
    BY <1>1, <2>1 DEF Device, Section
  <2>3. \A i \in Item : dev[c][i] = device[c][i] /\ device[c][i] = None
    BY <1>2, <1>4, <1>8, <2>1 DEF DeviceFits, Nothing
  <2> QED
    BY <2>2, <2>3 DEF Nothing
<1> QED
  BY <1>1, <1>5, <1>6, <1>7, <1>8 DEF DeviceFits, dev

-----------------------------------------------------------------------------
(* The handlers under way *)

(* The handlers are before step n of taking the device from what it was to *)
(* what is wanted.                                                         *)
Handling(was, n) ==
  /\ was \in Device /\ DeviceFits(before, was) /\ DeviceFits(before, device)
  /\ ConfigFits(before, want) /\ before["TrafficControl"][Only] # None
  /\ doomed = [c \in DeclaredClass |-> Dropped(was, want, c)]
  /\ At(device, before, was, want, n, mem, cur, group \cup loose)
  /\ \A chain \in group : Waits(was, want, n, chain)
  /\ \A chain \in loose : LooseIs(device, was, want, n, chain)

(* Chains that are waited for and chains that are not.                     *)
LEMMA HeadsOf ==
  ASSUME NEW dev, NEW was, NEW to, NEW n, NEW chain \in Chain
  PROVE  /\ Waits(was, to, n, chain) => Head(chain).awaited
         /\ LooseIs(dev, was, to, n, chain) => ~Head(chain).awaited
<1>1. Head(chain) = chain[1] /\ 1 \in DOMAIN chain
  BY ChainParts
<1>2. \A x : Awaited(x).awaited /\ ~Unawaited(x).awaited
  BY DEF Awaited, Unawaited
<1>3. \A x, y : <<x>>[1] = x /\ <<x, y>>[1] = x
  OBVIOUS
<1>4. ASSUME Waits(was, to, n, chain)
      PROVE  Head(chain).awaited
  <2>1. CASE AllAwaited(chain)
    BY <1>1, <2>1 DEF AllAwaited
  <2>2. ASSUME NEW x, NEW y, chain = <<Awaited(x), Unawaited(y)>>
        PROVE  Head(chain).awaited
    <3>1. Head(chain) = Awaited(x)
      BY <1>1, <1>3, <2>2
    <3> QED
      BY <1>2, <3>1
  <2> QED
    BY <1>4, <2>1, <2>2 DEF Waits
<1>5. ASSUME LooseIs(dev, was, to, n, chain)
      PROVE  ~Head(chain).awaited
  <2>1. PICK x : chain = <<Unawaited(x)>>
    BY <1>5 DEF LooseIs
  <2>2. Head(chain) = Unawaited(x)
    BY <1>1, <1>3, <2>1
  <2> QED
    BY <1>2, <2>2
<1> QED
  BY <1>4, <1>5

(* A tunnel that is deleted at the end is not made again.                  *)
LEMMA TunnelStays ==
  ASSUME Typed, NEW call \in Call, Accepted(call), NEW was, NEW to, NEW n,
         CallIsAt(was, to, n, call), n > 53, NEW i \in Item, device["Tunnel"][i] = None
  PROVE  Outcome(call)["Tunnel"][i] = None
<1> DEFINE dev == Outcome(call)
           c == "Tunnel"
<1>1. c \in Class /\ c # "TrafficControl" /\ c \notin DOMAIN TwinOf
  BY DEF Class, DeclaredClass, TwinOf
<1>2. device \in Device /\ dev # Refused
  BY DEF Typed, Accepted
<1>3. CallLeaves(call, c, i, dev[c][i]) \/ dev[c][i] = device[c][i]
  BY <1>1, <1>2, OutcomeIs
<1>4. ASSUME CallLeaves(call, c, i, dev[c][i])
      PROVE  dev[c][i] = None
  <2> HIDE DEF dev
  <2>1. PICK k \in DOMAIN call.commands :
          Hits(call.commands[k], c, i) /\ dev[c][i] = call.commands[k].value
    BY <1>4 DEF CallLeaves
  <2>2. call.commands[k].class = c
    BY <1>1, <2>1 DEF Hits
  <2> QED
    BY <2>1, <2>2 DEF CallIsAt
<1> QED
  BY <1>3, <1>4

(* What comes after a call of a chain is waited for, or is about a profile *)
(* whose tunnel is gone.                                                   *)
LEMMA RestAwaits ==
  ASSUME Typed, NEW chain \in Chain, Accepted(Head(chain)), NEW was, NEW n,
         Waits(was, want, n, chain), NEW rest \in Rest(chain)
  PROVE  \/ Head(rest).awaited /\ Waits(was, want, n, rest)
         \/ ~Head(rest).awaited /\ LooseIs(Outcome(Head(chain)), was, want, n, rest)
<1>1. rest \in Chain /\ rest = Tail(chain)
  BY ChainParts
<1>2. CASE AllAwaited(chain)
  <2>1. AllAwaited(rest)
    BY <1>1, <1>2, ChainParts DEF AllAwaited
  <2>2. Waits(was, want, n, rest)
    BY <2>1 DEF Waits
  <2> QED
    BY <1>1, <2>2, HeadsOf
<1>3. ASSUME NEW i \in GoingVxlan(was, want), n > 53,
             chain = <<Awaited(<<Do("clear", "Tunnel", i, None)>>),
                       Unawaited(<<Do("clear", "VXLAN", i, None)>>)>>
      PROVE  ~Head(rest).awaited /\ LooseIs(Outcome(Head(chain)), was, want, n, rest)
  <2> DEFINE x == Awaited(<<Do("clear", "Tunnel", i, None)>>)
             y == Unawaited(<<Do("clear", "VXLAN", i, None)>>)
  <2>1. i \in Item
    BY DEF GoingVxlan, Going, Dropped, Present
  <2>2. Hits(Do("clear", "Tunnel", i, None), "Tunnel", i)
    BY DEF Hits, Do
  <2>3. HitsCall(x, "Tunnel", i) /\ CallLeaves(x, "Tunnel", i, None)
    BY <2>2, CommandHits
  <2>4. y.awaited = FALSE
    BY DEF Unawaited
  <2>5. chain = <<x, y>>
    BY <1>3
  <2> HIDE DEF x, y
  <2>6. Head(chain) = x /\ Tail(chain) = <<y>> /\ Head(<<y>>) = y
    BY <2>5
  <2>7. x \in Call /\ Outcome(x) # Refused /\ device \in Device /\ "Tunnel" \in Class
    BY <2>6, ChainParts DEF Accepted, Typed, Class, DeclaredClass
  <2>8. Outcome(x)["Tunnel"][i] = None
    <3>1. CallLeaves(x, "Tunnel", i, Outcome(x)["Tunnel"][i])
      BY <2>1, <2>3, <2>7, OutcomeIs
    <3> QED
      BY <2>3, <2>7, <3>1, OneIsLeft
  <2>9. rest = <<y>>
    BY <1>1, <2>6
  <2> QED
    BY <1>3, <2>4, <2>6, <2>8, <2>9 DEF LooseIs, y
<1> QED
  BY <1>2, <1>3 DEF Waits

(* A chain goes on by a call.                                              *)
LEMMA GoesOn ==
  ASSUME Typed, group \subseteq Chain, loose \subseteq Chain, NEW was, NEW n, Handling(was, n),
         NEW chain \in group \cup loose, Accepted(Head(chain))
  PROVE  LET dev == Outcome(Head(chain))
             chains == ((group \cup loose) \ {chain}) \cup Rest(chain)
         IN /\ DeviceFits(before, dev)
            /\ At(dev, before, was, want, n, mem, cur, chains)
            /\ \A x \in loose : LooseIs(dev, was, want, n, x)
            /\ \A rest \in Rest(chain) :
                 \/ Head(rest).awaited /\ Waits(was, want, n, rest)
                 \/ ~Head(rest).awaited /\ LooseIs(dev, was, want, n, rest)
<1> DEFINE dev == Outcome(Head(chain))
           all == group \cup loose
           chains == (all \ {chain}) \cup Rest(chain)
<1>1. chain \in Chain /\ Head(chain) \in Call /\ all \subseteq Chain /\ device \in Device
  BY ChainParts DEF Typed
<1>2. /\ Remembers(was, want, n, mem) /\ Reads(was, want, n, cur)
      /\ Owes(device, was, want, n, mem, all)
      /\ \A x \in all : ChainFits(before, x) /\ ChainIsAt(was, want, n, x)
  BY DEF Handling, At
<1>3. CallFits(before, Head(chain)) /\ CallIsAt(was, want, n, Head(chain))
  BY <1>1, <1>2, ChainParts DEF ChainFits, ChainIsAt
<1>4. DeviceFits(before, dev)
  BY <1>1, <1>3, OutcomeFits DEF Handling
<1>5. Owes(dev, was, want, n, mem, chains)
  BY <1>1, <1>2, Performed
<1>6. ASSUME NEW rest \in Rest(chain)
      PROVE  ChainFits(before, rest) /\ ChainIsAt(was, want, n, rest)
  <2>1. rest = Tail(chain) /\ \A k \in DOMAIN Tail(chain) : k + 1 \in DOMAIN chain
                               /\ Tail(chain)[k] = chain[k + 1]
    BY <1>1, ChainParts
  <2> QED
    BY <1>2, <2>1 DEF ChainFits, ChainIsAt
<1>7. ASSUME NEW x \in loose
      PROVE  LooseIs(dev, was, want, n, x)
  <2>1. LooseIs(device, was, want, n, x)
    BY DEF Handling
  <2>2. ASSUME NEW i \in GoingVxlan(was, want), n > 53, device["Tunnel"][i] = None
        PROVE  dev["Tunnel"][i] = None
    <3>1. i \in Item
      BY DEF GoingVxlan, Going, Dropped, Present
    <3> QED
      BY <1>1, <1>3, <2>2, <3>1, TunnelStays
  <2> HIDE DEF dev
  <2> QED
    BY <2>1, <2>2 DEF LooseIs
<1>8. ASSUME NEW rest \in Rest(chain)
      PROVE  \/ Head(rest).awaited /\ Waits(was, want, n, rest)
             \/ ~Head(rest).awaited /\ LooseIs(dev, was, want, n, rest)
  <2>1. CASE chain \in group
    BY <1>1, <2>1, RestAwaits DEF Handling
  <2>2. CASE chain \in loose
    <3>1. Rest(chain) = {}
      BY <2>2, LooseAccepted DEF Handling
    <3> QED
      BY <3>1
  <2> QED
    BY <2>1, <2>2
<1>9. \A x \in group : Head(x).awaited
  BY HeadsOf DEF Handling
<1> HIDE DEF dev
<1>10. At(dev, before, was, want, n, mem, cur, chains)
  BY <1>2, <1>5, <1>6, <1>7, <1>8, <1>9 DEF At
<1> QED
  BY <1>4, <1>7, <1>8, <1>10 DEF dev

(* A call of a chain, waited for or not, leaves the handlers where they    *)
(* are.                                                                    *)
LEMMA PerformHandling ==
  ASSUME TypeOK, NEW was, NEW n, Handling(was, n), NEW chain \in group, Perform(chain)
  PROVE  Handling(was, n)'
<1>1. Typed /\ group \subseteq Chain /\ loose \subseteq Chain
  BY DEF TypeOK, Typed
<1>2. /\ Accepted(Head(chain)) /\ device' = Outcome(Head(chain))
      /\ group' = (group \ {chain}) \cup {rest \in Rest(chain) : Head(rest).awaited}
      /\ loose' = loose \cup {rest \in Rest(chain) : ~Head(rest).awaited}
      /\ UNCHANGED <<before, want, doomed, mem, cur>>
  BY DEF Perform
<1>3. /\ DeviceFits(before, device')
      /\ At(device', before, was, want, n, mem, cur, ((group \cup loose) \ {chain}) \cup Rest(chain))
      /\ \A x \in loose : LooseIs(device', was, want, n, x)
      /\ \A rest \in Rest(chain) :
           \/ Head(rest).awaited /\ Waits(was, want, n, rest)
           \/ ~Head(rest).awaited /\ LooseIs(device', was, want, n, rest)
  BY <1>1, <1>2, GoesOn
<1>4. chain \notin loose
  BY <1>1, HeadsOf DEF Handling
<1>5. group' \cup loose' = ((group \cup loose) \ {chain}) \cup Rest(chain)
  BY <1>2, <1>4
<1>6. \A x \in group' : Waits(was, want, n, x)
  BY <1>2, <1>3 DEF Handling
<1>7. \A x \in loose' : LooseIs(device', was, want, n, x)
  BY <1>2, <1>3
<1> QED
  BY <1>2, <1>3, <1>5, <1>6, <1>7 DEF Handling

LEMMA PerformLooseHandling ==
  ASSUME TypeOK, NEW was, NEW n, Handling(was, n), NEW chain \in loose, PerformLoose(chain)
  PROVE  Handling(was, n)'
<1>1. Typed /\ group \subseteq Chain /\ loose \subseteq Chain
  BY DEF TypeOK, Typed
<1>2. Accepted(Head(chain)) /\ Rest(chain) = {}
  BY <1>1, LooseAccepted DEF Handling
<1>3. /\ device' = Outcome(Head(chain)) /\ loose' = loose \ {chain}
      /\ UNCHANGED <<before, want, doomed, mem, cur, group>>
  BY <1>2 DEF PerformLoose
<1>4. /\ DeviceFits(before, device')
      /\ At(device', before, was, want, n, mem, cur, ((group \cup loose) \ {chain}) \cup Rest(chain))
      /\ \A x \in loose : LooseIs(device', was, want, n, x)
  BY <1>1, <1>2, <1>3, GoesOn
<1>5. chain \notin group
  BY <1>1, HeadsOf DEF Handling
<1>6. group' \cup loose' = ((group \cup loose) \ {chain}) \cup Rest(chain)
  BY <1>2, <1>3, <1>5
<1> QED
  BY <1>3, <1>4, <1>6 DEF Handling

(* Steps that start nothing can be passed over.                            *)
LEMMA Skipped ==
  ASSUME TypeOK, NEW was, Handling(was, pc), group = {},
         NEW n \in pc .. LastStep + 1, \A k \in pc .. n - 1 : Idle(k)
  PROVE  Handling(was, n)
<1> DEFINE T == {k \in pc .. n : ~Handling(was, k)}
<1>1. pc \in 1 .. 56 /\ LastStep = 55 /\ n \in Nat /\ Typed
  BY PlanFacts DEF TypeOK, Typed
<1> SUFFICES ASSUME T # {}
             PROVE  FALSE
  BY <1>1
<1>2. PICK k \in T : \A l \in T : k <= l
  <2>1. T \subseteq Nat
    BY <1>1
  <2> HIDE DEF T
  <2> QED
    BY <2>1, Smallest
<1>3. k # pc
  BY <1>2
<1>4. k - 1 \in pc .. n - 1 /\ k - 1 \in 1 .. 55 /\ k - 1 \in pc .. n /\ k - 1 \notin T
      /\ (k - 1) + 1 = k
  BY <1>1, <1>2, <1>3
<1> DEFINE j == k - 1
<1>5. Handling(was, j)
  BY <1>4
<1> HIDE DEF T, j
<1>6. Started(j) = {} /\ MemoryAfter(j) = mem /\ ConfigAfter(j) = cur
  BY <1>4 DEF Idle, j
<1>7. group \cup loose = loose
  OBVIOUS
<1>8. Ready(was, j)
  BY <1>1, <1>4, <1>5, <1>7 DEF Ready, Handling, j
<1>9. At(device, before, was, want, j + 1, mem, cur, loose \cup {})
  BY <1>6, <1>8, EveryStep DEF Goes, Leads
<1>10. loose \cup {} = loose /\ j + 1 = k /\ j \in Nat
  BY <1>4 DEF j
<1>11. \A chain \in loose : LooseIs(device, was, want, k, chain)
  BY <1>5, <1>10, LooseStays DEF Handling
<1>12. Handling(was, k)
  BY <1>5, <1>7, <1>9, <1>10, <1>11 DEF Handling
<1> QED
  BY <1>2, <1>12 DEF T

(* A step, and the end of the last one.                                    *)
LEMMA BeginHandling ==
  ASSUME TypeOK, NEW was, Handling(was, pc), Begin
  PROVE  Handling(was, pc)'
<1> DEFINE busy == {k \in pc .. LastStep : ~Idle(k)}
           n == Min(busy)
           new == {chain \in Started(n) : Head(chain).awaited}
<1>1. /\ group = {} /\ busy # {} /\ pc' = n + 1 /\ mem' = MemoryAfter(n) /\ cur' = ConfigAfter(n)
      /\ group' = new /\ loose' = loose \cup (Started(n) \ group')
      /\ UNCHANGED <<device, before, want, doomed>>
  BY DEF Begin
<1>2. pc \in 1 .. 56 /\ LastStep = 55 /\ Typed
  BY PlanFacts DEF TypeOK, Typed
<1>3. n \in pc .. LastStep /\ n \in 1 .. 55 /\ \A k \in pc .. n - 1 : Idle(k)
  <2>1. busy \subseteq Nat /\ busy \subseteq pc .. LastStep
    BY <1>2
  <2> HIDE DEF busy
  <2>2. n \in busy /\ \A k \in busy : n <= k
    BY <1>1, <2>1, MinFacts
  <2> HIDE DEF n
  <2>3. n \in pc .. LastStep /\ n \in 1 .. 55
    BY <1>2, <2>1, <2>2
  <2>4. \A k \in pc .. n - 1 : k \in pc .. LastStep /\ ~(n <= k)
    BY <1>2, <2>3
  <2>5. \A k \in pc .. LastStep : ~Idle(k) => k \in busy
    BY DEF busy
  <2> QED
    BY <2>2, <2>3, <2>4, <2>5
<1> HIDE DEF busy, n
<1>4. Handling(was, n)
  <2>1. n \in pc .. LastStep + 1
    BY <1>2, <1>3
  <2> QED
    BY <1>1, <1>3, <2>1, Skipped
<1>5. group \cup loose = loose
  BY <1>1
<1>6. Ready(was, n)
  BY <1>2, <1>3, <1>4, <1>5 DEF Ready, Handling
<1>7. At(device, before, was, want, n + 1, mem', cur', loose \cup Started(n))
  BY <1>1, <1>6, EveryStep DEF Goes, Leads
<1>8. group' \cup loose' = loose \cup Started(n)
  BY <1>1
<1>9. \A chain \in group' : Waits(was, want, n + 1, chain)
  BY <1>1, <1>6, StartedWaits
<1>10. \A chain \in loose' : LooseIs(device, was, want, n + 1, chain)
  <2>1. n \in Nat
    BY <1>3
  <2>2. \A chain \in loose : LooseIs(device, was, want, n + 1, chain)
    BY <1>4, <2>1, LooseStays DEF Handling
  <2>3. \A chain \in Started(n) \ group' : LooseIs(device, was, want, n + 1, chain)
    BY <1>1, <1>7 DEF At
  <2> QED
    BY <1>1, <2>2, <2>3
<1> QED
  BY <1>1, <1>4, <1>7, <1>8, <1>9, <1>10 DEF Handling

LEMMA ResolveHandling ==
  ASSUME TypeOK, NEW was, Handling(was, pc), Resolve
  PROVE  Handling(was, LastStep + 1)'
<1>1. pc \in 1 .. 56 /\ LastStep = 55
  BY PlanFacts DEF TypeOK
<1>2. LastStep + 1 \in pc .. LastStep + 1 /\ (LastStep + 1) - 1 = LastStep
  BY <1>1
<1>3. Handling(was, LastStep + 1)
  BY <1>2, Skipped DEF Resolve
<1>4. UNCHANGED <<device, before, want, doomed, mem, cur, group, loose>>
  BY DEF Resolve
<1> QED
  BY <1>3, <1>4 DEF Handling

-----------------------------------------------------------------------------
(* The start of a pass *)

(* The traffic control may change first: it is not deferred.               *)
LEMMA ControlFits ==
  ASSUME NEW first, NEW dev \in Device, DeviceFits(first, dev), NEW to \in Config,
         ConfigFits(first, to)
  PROVE  LET next == [dev EXCEPT !["TrafficControl"] = to["TrafficControl"]]
         IN next \in Device /\ DeviceFits(first, next)
<1> DEFINE c == "TrafficControl"
           next == [dev EXCEPT ![c] = to[c]]
<1>1. /\ c \in Class /\ c \in DeclaredClass /\ c \in SingleClass /\ c \notin DOMAIN TwinOf
      /\ \A d \in {"Route", "SelfIp", "ConfigSync", "RoutingBGP"} : d \in Class /\ d # c
      /\ \A d \in DOMAIN TwinOf : TwinOf[d] \in DOMAIN TwinOf /\ d \in Class
  BY DEF TwinOf, Class, DeclaredClass, SingleClass, PlainClass
<1>2. /\ next \in Device /\ next[c] = to[c]
      /\ \A d \in Class : d # c => next[d] = dev[d]
  <2>1. to[c] \in Section
    BY <1>1, ConfigFacts
  <2> QED
    BY <1>1, <2>1 DEF Device
<1> HIDE DEF next
<1>3. \A i \in Item : next[c][i] = None <=> dev[c][i] = None
  BY <1>1, <1>2 DEF DeviceFits, ConfigFits
<1>4. \A i \in Item : next[c][i] # None => next[c][i].refs = {} /\ Fits(c, i, next[c][i])
  BY <1>1, <1>2 DEF ConfigFits, Fits
<1>5. /\ next["Route"] = dev["Route"] /\ next["SelfIp"] = dev["SelfIp"]
      /\ next["ConfigSync"] = dev["ConfigSync"] /\ next["RoutingBGP"] = dev["RoutingBGP"]
  BY <1>1, <1>2
<1>6. ASSUME NEW d \in Class, NEW i \in Present(next, d), NEW r \in next[d][i].refs
      PROVE  next[r[1]][r[2]] # None
  <2>1. i \in Item /\ next[d][i] # None /\ d # c
    BY <1>4, <1>6 DEF Present
  <2>2. next[d] = dev[d] /\ i \in Present(dev, d)
    BY <1>2, <2>1 DEF Present
  <2>3. dev[d][i] \in Values
    BY <2>2, DeviceFacts
  <2>4. r \in Class \X Item
    BY <1>6, <2>2, <2>3, CasesAssumption
  <2>5. r[1] \in Class /\ r[2] \in Item
    BY <2>4
  <2>6. dev[r[1]][r[2]] # None
    BY <1>6, <2>2 DEF DeviceFits, Sound
  <2> QED
    BY <1>2, <1>3, <2>5, <2>6
<1>7. /\ Present(next, "Route") = Present(dev, "Route")
      /\ Present(next, "SelfIp") = Present(dev, "SelfIp")
      /\ Present(next, "ConfigSync") = Present(dev, "ConfigSync")
      /\ Present(next, "RoutingBGP") = Present(dev, "RoutingBGP")
  BY <1>5 DEF Present
<1>8. Local(next) = Local(dev) /\ Floating(next) = Floating(dev)
  BY <1>5, <1>7 DEF Local, Floating
<1>9. \A net : Reachable(next, net) <=> Reachable(dev, net)
  BY <1>5, <1>8 DEF Reachable
<1>10. Sound(dev)
  BY DEF DeviceFits
<1>11. Sound(next)
  BY <1>5, <1>6, <1>7, <1>8, <1>9, <1>10 DEF Sound
<1>12. \A d \in Class, i \in Item : next[d][i] # None => Fits(d, i, next[d][i])
  BY <1>2, <1>4 DEF DeviceFits
<1>13. \A d \in SingleClass, i \in Item : next[d][i] = None <=> first[d][i] = None
  <2>1. \A d \in SingleClass : d \in Class
    BY DEF SingleClass, Class, DeclaredClass
  <2>2. \A d \in SingleClass, i \in Item : dev[d][i] = None <=> first[d][i] = None
    BY DEF DeviceFits
  <2> QED
    BY <1>2, <1>3, <2>1, <2>2
<1>14. \A d \in DOMAIN TwinOf :
         IF Afm THEN next[d] = next[TwinOf[d]] ELSE d = First(d) => next[d] = Nothing
  <2>1. \A d \in DOMAIN TwinOf : next[d] = dev[d] /\ next[TwinOf[d]] = dev[TwinOf[d]]
    BY <1>1, <1>2
  <2> QED
    BY <2>1 DEF DeviceFits
<1> QED
  BY <1>2, <1>11, <1>12, <1>13, <1>14 DEF DeviceFits, next

(* Before the first step every object is what it was.                      *)
LEMMA FirstIs ==
  ASSUME NEW first, NEW was \in Device, DeviceFits(first, was), NEW to, NEW m,
         NEW c \in Class, NEW i \in Item
  PROVE  /\ c # "TrafficControl" => Is(was, to, 1, m, c, i, was[c][i])
         /\ c = "TrafficControl" => Is(was, to, 1, m, c, i, to[c][i])
<1>1. /\ ~(1 > 3) /\ ~(1 > 4) /\ ~(1 > 52) /\ ~(1 > 53) /\ ~(1 > 6) /\ ~(1 > 9) /\ ~(1 > 7)
      /\ ~(1 > 8) /\ ~(1 > 38) /\ ~(1 > 39) /\ ~(1 > 41) /\ ~(1 > 31) /\ 1 \notin 18 .. 29
      /\ 1 # 31 /\ ~(1 > 42) /\ ~(1 > 25) /\ ~(1 > 26) /\ ~(1 > 20) /\ ~(1 > 24)
      /\ 1 \notin 24 .. 27 /\ 1 \notin 19 .. 28
  OBVIOUS
<1>2. CASE c \in Simple
  <2>1. \A d \in Simple : ~(1 > UpdatedAt(d)) /\ ~(1 > DeletedAt(d))
    BY DEF Simple, UpdatedAt, DeletedAt
  <2>2. c # "TrafficControl"
    BY <1>2, SimpleFacts
  <2> QED
    BY <1>2, <2>1, <2>2, IsUnfolds DEF SimpleIs
<1>3. CASE c \in DOMAIN TwinOf
  <2>1. FirstAt(c) \in {11, 12} /\ ListGoesAt(c) \in {44, 45, 46, 47} /\ c # "TrafficControl"
    BY <1>3, NetworkAssumption DEF FirstAt, ListGoesAt, TwinOf
  <2>2. ~(1 > FirstAt(c)) /\ ~(1 > FirstAt(c) + 3) /\ ~(1 > ListGoesAt(c))
    BY <2>1
  <2>3. ~Afm /\ c = First(c) => was[c][i] = None
    BY <1>3 DEF DeviceFits, Nothing
  <2> QED
    BY <1>3, <2>1, <2>2, <2>3, IsUnfolds DEF ListIs
<1>4. CASE c = "TrafficControl"
  <2>1. c \notin Simple /\ c \notin DOMAIN TwinOf
    BY <1>4, SimpleFacts
  <2> QED
    BY <1>4, <2>1 DEF Is
<1>5. CASE c = "RouteDomain"
  BY <1>1, <1>5, IsUnfoldsElse DEF RouteDomainIs
<1>6. CASE c = "Tunnel"
  BY <1>1, <1>6, IsUnfoldsElse DEF TunnelIs
<1>7. CASE c = "VXLAN"
  BY <1>1, <1>7, IsUnfoldsElse DEF VxlanIs
<1>8. CASE c = "RoutingBGP"
  BY <1>1, <1>8, IsUnfoldsElse DEF BgpIs
<1>9. CASE c = "Route"
  BY <1>1, <1>9, IsUnfoldsElse DEF RouteIs
<1>10. CASE c = "SelfIp"
  BY <1>1, <1>10, IsUnfoldsElse DEF SelfIpIs
<1>11. CASE c \in {"ConfigSync", "Routing"}
  BY <1>1, <1>11, IsUnfoldsElse
<1> QED
  <2>1. c \in Simple \cup DOMAIN TwinOf \cup {"TrafficControl", "RouteDomain", "Tunnel", "VXLAN",
               "RoutingBGP", "Route", "SelfIp", "ConfigSync", "Routing"}
    BY DEF Class, DeclaredClass, PlainClass, SingleClass, ListClass, Simple, TwinOf
  <2> QED
    BY <1>2, <1>3, <1>4, <1>5, <1>6, <1>7, <1>8, <1>9, <1>10, <1>11, <2>1

(* A pass finds the device as it is.                                       *)
LEMMA PassBegins ==
  ASSUME device \in Device, NEW target \in Config, NEW p,
         DeviceFits(before, device), ConfigFits(before, target),
         before["TrafficControl"][Only] # None,
         Process(target, WithoutDeclaredTwins(target), p),
         UNCHANGED before, group' = {}, loose' = {},
         NEW was, was = device
  PROVE  Handling(was, 1)'
<1>1. /\ want' = target /\ cur' = WithoutDeclaredTwins(target) /\ mem' = NoMemory
      /\ doomed' = [c \in DeclaredClass |-> Present(cur', c) \ Present(target, c)]
      /\ device' = [device EXCEPT !["TrafficControl"] = target["TrafficControl"]]
  BY DEF Process
<1>2. device' \in Device /\ DeviceFits(before, device')
  BY <1>1, ControlFits
<1>3. cur' = Seen(was, target)
  BY <1>1 DEF WithoutDeclaredTwins, Seen
<1>4. doomed' = [c \in DeclaredClass |-> Dropped(was, target, c)]
  BY <1>1, <1>3 DEF Dropped
<1>5. Remembers(was, target, 1, NoMemory)
  <2>1. \A r \in Item : NoMemory.routes[r] = None
    BY DEF NoMemory, Nothing
  <2>2. NoMemory.sync = None /\ NoMemory.matching = {} /\ NoMemory.floats = Nothing
    BY DEF NoMemory
  <2>3. ~(1 > 22) /\ ~(1 > 21) /\ 1 \notin 18 .. 21
    OBVIOUS
  <2> QED
    BY <2>1, <2>2, <2>3 DEF Remembers
<1>6. Reads(was, target, 1, cur')
  BY <1>3 DEF Reads
<1>7. Owes(device', was, target, 1, NoMemory, {})
  <2>1. ASSUME NEW c \in Class, NEW i \in Item
        PROVE  Is(was, target, 1, NoMemory, c, i, device'[c][i])
    <3>1. "TrafficControl" \in Class
      BY DEF Class, DeclaredClass, SingleClass
    <3>2. c # "TrafficControl" => device'[c] = was[c]
      BY <1>1 DEF Device
    <3>3. c = "TrafficControl" => device'[c] = target[c]
      BY <1>1, <3>1 DEF Device
    <3> QED
      BY <3>2, <3>3, FirstIs
  <2> QED
    BY <2>1 DEF Owes
<1>8. At(device', before, was, target, 1, NoMemory, cur', {})
  BY <1>5, <1>6, <1>7 DEF At
<1>9. group' \cup loose' = {}
  OBVIOUS
<1> QED
  BY <1>1, <1>2, <1>4, <1>8, <1>9 DEF Handling

-----------------------------------------------------------------------------
(* What a pass comes to *)

(* What is seen of an object in the end.                                   *)
Shown(was, to, c, i) ==
  IF <<c, i>> \in Retained /\ to[c][i] = None THEN was[c][i] ELSE Expected(to, c, i)

(* What is made, dropped and deleted of a class that is there once.        *)
LEMMA PlainParts ==
  ASSUME NEW was, NEW to, NEW c \in DeclaredClass, c \notin DOMAIN TwinOf, NEW i \in Item
  PROVE  /\ i \in New(was, to, c) <=> to[c][i] # None /\ to[c][i] # was[c][i]
         /\ i \in Dropped(was, to, c) <=> was[c][i] # None /\ to[c][i] = None
         /\ i \in Going(was, to, c) <=>
              was[c][i] # None /\ to[c][i] = None /\ <<c, i>> \notin Retained
         /\ Expected(to, c, i) = to[c][i]
<1>1. Seen(was, to)[c] = was[c]
  BY DEF Seen
<1> QED
  BY <1>1 DEF New, Dropped, Going, Present, Expected

(* What each class comes to.                                               *)
LEMMA SimpleShown ==
  ASSUME NEW first, NEW was, NEW to, DeviceFits(first, was), ConfigFits(first, to),
         NEW c \in Simple, NEW i \in Item
  PROVE  SimpleIs(was, to, 56, c, i) = Shown(was, to, c, i)
<1>1. c \in DeclaredClass /\ c \notin DOMAIN TwinOf
  BY SimpleFacts
<1>2. 56 > UpdatedAt(c) /\ (56 > DeletedAt(c) \/ c \in SingleClass)
  BY DEF Simple, UpdatedAt, DeletedAt, SingleClass
<1>3. c \in SingleClass => (was[c][i] = None <=> to[c][i] = None)
  BY DEF DeviceFits, ConfigFits
<1> QED
  BY <1>1, <1>2, <1>3, PlainParts DEF SimpleIs, Shown

(* There is one BGP at most.                                               *)
LEMMA OneBgp ==
  ASSUME NEW dev, Sound(dev), NEW i \in Present(dev, "RoutingBGP"),
         NEW j \in Present(dev, "RoutingBGP")
  PROVE  i = j
<1> DEFINE S == Present(dev, "RoutingBGP")
<1>1. IsFiniteSet(S) /\ Cardinality(S) <= 1
  <2>1. S \subseteq Item /\ IsFiniteSet(Item)
    BY NetworkAssumption DEF Present
  <2> QED
    BY <2>1, FS_Subset DEF Sound
<1> SUFFICES ASSUME i # j
             PROVE  FALSE
  OBVIOUS
<1>2. {i, j} \subseteq S /\ IsFiniteSet({i, j}) /\ Cardinality({i, j}) = 2
  <2>1. IsFiniteSet({i}) /\ Cardinality({i}) = 1
    BY FS_Singleton
  <2>2. IsFiniteSet({i} \cup {j}) /\ Cardinality({i} \cup {j}) = Cardinality({i}) + 1
    BY <2>1, FS_AddElement
  <2>3. {i} \cup {j} = {i, j}
    OBVIOUS
  <2> QED
    BY <2>1, <2>2, <2>3
<1>3. Cardinality({i, j}) <= Cardinality(S)
  BY <1>1, <1>2, FS_Subset
<1> HIDE DEF S
<1>4. Cardinality(S) \in Nat
  BY <1>1, FS_CardinalityType
<1> QED
  BY <1>1, <1>2, <1>3, <1>4

LEMMA BgpShown ==
  ASSUME NEW first, NEW was, NEW to, DeviceFits(first, was), ConfigFits(first, to), NEW i \in Item
  PROVE  BgpIs(was, to, 56, i) = Shown(was, to, "RoutingBGP", i)
<1> DEFINE c == "RoutingBGP"
<1>1. c \in DeclaredClass /\ c \notin DOMAIN TwinOf /\ 56 > 38 /\ 56 > 39
  BY DEF DeclaredClass, TwinOf
<1>2. <<c, i>> \notin Retained
  <2>1. <<c, i>>[1] = c
    OBVIOUS
  <2> QED
    BY <2>1, CasesAssumption
<1>3. Sound(was)
  BY DEF DeviceFits
<1>4. Shown(was, to, c, i) = to[c][i]
  BY <1>1, <1>2, PlainParts DEF Shown
<1>5. CASE i \in New(was, to, c)
  BY <1>1, <1>4, <1>5 DEF BgpIs
<1>6. CASE i \notin New(was, to, c) /\ to[c][i] = None
  <2>1. was[c][i] # None => i \in OldBgps(was, to)
    BY <1>1, <1>6, PlainParts DEF OldBgps, Present
  <2> QED
    BY <1>1, <1>4, <1>6, <2>1 DEF BgpIs
<1>7. CASE i \notin New(was, to, c) /\ to[c][i] # None
  <2>1. to[c][i] = was[c][i] /\ i \in Present(was, c) /\ i \in Present(to, c)
    BY <1>1, <1>7, PlainParts DEF Present
  <2>2. New(was, to, c) = {}
    <3> SUFFICES ASSUME NEW j \in New(was, to, c)
                 PROVE  FALSE
      OBVIOUS
    <3>1. j \in Present(to, c)
      BY DEF New
    <3>2. i = j
      BY <2>1, <3>1 DEF ConfigFits
    <3> QED
      BY <1>7, <3>2
  <2>3. Dropped(was, to, c) = {}
    <3> SUFFICES ASSUME NEW j \in Dropped(was, to, c)
                 PROVE  FALSE
      OBVIOUS
    <3>1. j \in Present(was, c) /\ j \notin Present(to, c)
      BY <1>1 DEF Dropped, Seen, Present
    <3>2. i = j
      BY <1>3, <2>1, <3>1, OneBgp
    <3> QED
      BY <2>1, <3>1, <3>2
  <2>4. OldBgps(was, to) = {}
    BY <2>2, <2>3 DEF OldBgps
  <2> QED
    BY <1>4, <1>7, <2>1, <2>4 DEF BgpIs
<1> QED
  BY <1>5, <1>6, <1>7

LEMMA OthersShown ==
  ASSUME NEW first, NEW was, NEW to, DeviceFits(first, was), ConfigFits(first, to), NEW m,
         NEW i \in Item
  PROVE  /\ RouteDomainIs(was, to, 56, i) = Shown(was, to, "RouteDomain", i)
         /\ TunnelIs(was, to, 56, i) = Shown(was, to, "Tunnel", i)
         /\ RouteIs(was, to, 56, m, i) = Shown(was, to, "Route", i)
         /\ SelfIpIs(was, to, 56, m, i) = Shown(was, to, "SelfIp", i)
<1>1. /\ 56 > 52 /\ 56 > 3 /\ 56 > 4 /\ 56 > 53 /\ 56 > 9 /\ 56 > 6 /\ 56 > 41 /\ 56 > 31
      /\ 56 # 31 /\ 56 \notin 18 .. 29 /\ 56 > 42 /\ 56 > 25 /\ 56 > 26 /\ 56 > 20 /\ 56 > 24
      /\ 56 \notin 24 .. 27
  OBVIOUS
<1>2. \A c \in {"RouteDomain", "Tunnel", "Route", "SelfIp"} :
        c \in DeclaredClass /\ c \notin DOMAIN TwinOf
  BY DEF DeclaredClass, TwinOf
<1>3. RouteDomainIs(was, to, 56, i) = Shown(was, to, "RouteDomain", i)
  BY <1>1, <1>2, PlainParts DEF RouteDomainIs, Shown
<1>4. TunnelIs(was, to, 56, i) = Shown(was, to, "Tunnel", i)
  BY <1>1, <1>2, PlainParts DEF TunnelIs, Shown, OldTunnels
<1>5. RouteIs(was, to, 56, m, i) = Shown(was, to, "Route", i)
  BY <1>1, <1>2, PlainParts DEF RouteIs, Shown
<1>6. SelfIpIs(was, to, 56, m, i) = Shown(was, to, "SelfIp", i)
  <2> DEFINE c == "SelfIp"
  <2>1. i \in New(was, to, c) => to[c][i].fixed \in {"local", "floating"}
    BY DEF New, ConfigFits
  <2>2. i \in New(was, to, c) <=> \/ i \in NewAddresses(was, to, "local")
                                  \/ i \in NewAddresses(was, to, "floating")
    BY <2>1 DEF NewAddresses
  <2> QED
    BY <1>1, <1>2, <2>2, PlainParts DEF SelfIpIs, Shown, Changing
<1> QED
  BY <1>3, <1>4, <1>5, <1>6

LEMMA ListShown ==
  ASSUME NEW first, NEW was, NEW to, DeviceFits(first, was), ConfigFits(first, to),
         NEW c \in DOMAIN TwinOf, NEW i \in Item
  PROVE  ListIs(was, to, 56, c, i) = Shown(was, to, c, i)
<1> DEFINE f == First(c)
           s == TwinOf[f]
           t == TwinOf[c]
<1>1. /\ f \in DOMAIN TwinOf /\ s \in DOMAIN TwinOf /\ t \in DOMAIN TwinOf
      /\ TwinOf[s] = f /\ TwinOf[t] = c /\ f # s
      /\ (c = f /\ t = s) \/ (c = s /\ t = f)
      /\ First(f) = f /\ f \in DeclaredClass /\ s \in DeclaredClass
      /\ c \notin {"RouteDomain", "Tunnel", "DNS_Resolver"}
  BY DEF TwinOf, First, DeclaredClass, PlainClass
<1>2. <<c, i>> \notin Retained
  <2>1. <<c, i>>[1] = c
    OBVIOUS
  <2> QED
    BY <1>1, <2>1, CasesAssumption
<1>3. Shown(was, to, c, i) = IF Afm /\ to[c][i] = None THEN to[t][i] ELSE to[c][i]
  BY <1>2 DEF Shown, Expected
<1>4. 56 > ListGoesAt(c) /\ 56 > FirstAt(c) + 3 /\ 56 > FirstAt(c)
  BY NetworkAssumption DEF ListGoesAt, FirstAt
<1>5. \A d \in {f, s} :
        /\ i \in New(was, to, d) <=>
             /\ to[d][i] # None
             /\ to[d][i] # IF to[TwinOf[d]][i] # None THEN None ELSE was[d][i]
        /\ i \in Dropped(was, to, d) <=>
             to[TwinOf[d]][i] = None /\ was[d][i] # None /\ to[d][i] = None
  BY <1>1 DEF New, Dropped, Present, Seen
<1> HIDE DEF f, s, t
<1>6. ListIs(was, to, 56, c, i) =
        IF ~Afm /\ c = f THEN None
        ELSE IF i \in Dropped(was, to, c) THEN None
        ELSE IF i \in New(was, to, s) THEN to[s][i]
        ELSE IF i \in New(was, to, f) THEN to[f][i]
        ELSE was[c][i]
  BY <1>4 DEF ListIs, f, s
<1>7. CASE ~Afm
  <2>1. was[f][i] = None /\ to[f][i] = None
    BY <1>1, <1>7 DEF DeviceFits, ConfigFits, Nothing
  <2> QED
    BY <1>1, <1>3, <1>5, <1>6, <1>7, <2>1
<1>8. CASE Afm
  <2>1. was[f] = was[s]
    BY <1>1, <1>8 DEF DeviceFits, s
  <2>2. to[f][i] # None /\ to[s][i] # None => to[f][i] = to[s][i]
    BY <1>1, <1>8 DEF ConfigFits, Present, s
  <2>3. TwinOf[f] = s /\ TwinOf[s] = f
    BY <1>1 DEF s
  <2> QED
    BY <1>1, <1>3, <1>5, <1>6, <1>8, <2>1, <2>2, <2>3
<1> QED
  BY <1>7, <1>8

(* The device shows what the handlers were given.                          *)
LEMMA FinalShown ==
  ASSUME NEW first, NEW was, NEW to, DeviceFits(first, was), ConfigFits(first, to), NEW m,
         NEW c \in DeclaredClass, NEW i \in Item, NEW v, Is(was, to, 56, m, c, i, v)
  PROVE  v = Shown(was, to, c, i)
<1>1. CASE c \in Simple
  BY <1>1, SimpleShown, IsUnfolds
<1>2. CASE c \in DOMAIN TwinOf
  BY <1>2, ListShown, IsUnfolds
<1>3. CASE c = "TrafficControl"
  <2>1. /\ c \notin Simple /\ c \notin DOMAIN TwinOf /\ c \in SingleClass
        /\ c \notin {"RouteDomain", "Tunnel", "DNS_Resolver"}
    BY <1>3, SimpleFacts DEF SingleClass
  <2>2. v = to[c][i]
    BY <1>3, <2>1 DEF Is
  <2>3. <<c, i>> \notin Retained
    <3>1. <<c, i>>[1] = c
      OBVIOUS
    <3> QED
      BY <2>1, <3>1, CasesAssumption
  <2> QED
    BY <2>1, <2>2, <2>3, PlainParts DEF Shown
<1>4. CASE c = "RoutingBGP"
  BY <1>4, BgpShown, IsUnfoldsElse
<1>5. CASE c \in {"RouteDomain", "Tunnel", "Route", "SelfIp"}
  BY <1>5, OthersShown, IsUnfoldsElse
<1> QED
  <2>1. c \in Simple \cup DOMAIN TwinOf \cup
               {"TrafficControl", "RoutingBGP", "RouteDomain", "Tunnel", "Route", "SelfIp"}
    BY DEF DeclaredClass, PlainClass, SingleClass, ListClass, Simple, TwinOf
  <2> QED
    BY <1>1, <1>2, <1>3, <1>4, <1>5, <2>1

(* What is read is what was there, or nothing.                             *)
LEMMA ReadFacts ==
  ASSUME NEW first, NEW declaredConfig, NEW n, NEW config,
         Reads(first, declaredConfig, n, config), NEW c \in DeclaredClass, NEW i \in Item
  PROVE  /\ config[c][i] \in {first[c][i], None}
         /\ c \notin DOMAIN TwinOf => config[c][i] = first[c][i]
<1>1. config[c][i] = Seen(first, declaredConfig)[c][i] \/ config[c][i] = None
  BY DEF Reads
<1>2. c \notin DOMAIN TwinOf => config[c][i] = Seen(first, declaredConfig)[c][i]
  BY DEF Reads
<1>3. /\ Seen(first, declaredConfig)[c][i] \in {first[c][i], None}
      /\ c \notin DOMAIN TwinOf => Seen(first, declaredConfig)[c][i] = first[c][i]
  BY DEF Seen
<1> QED
  BY <1>1, <1>2, <1>3

(* What is read of a device can be rolled back to.                         *)
LEMMA ReadFits ==
  ASSUME NEW first \in Device, NEW to, CaseFits(first, to), NEW n, NEW config \in Config,
         Reads(first, to, n, config)
  PROVE  ConfigFits(first, config)
<1>1. DeviceFits(first, first) /\ Sound(first)
  BY DEF CaseFits, DeviceFits
<1>2. ASSUME NEW c \in DeclaredClass, NEW i \in Item, config[c][i] # None
      PROVE  Fits(c, i, config[c][i]) /\ config[c][i] = first[c][i]
  <2>1. config[c][i] = first[c][i] /\ c \in Class
    BY <1>2, ReadFacts, ClassFacts
  <2> QED
    BY <1>1, <1>2, <2>1 DEF DeviceFits
<1>3. ASSUME NEW c \in SingleClass, NEW i \in Item
      PROVE  config[c][i] = None <=> first[c][i] = None
  <2>1. c \in DeclaredClass /\ c \notin DOMAIN TwinOf
    BY DEF DeclaredClass, SingleClass, TwinOf
  <2> QED
    BY <2>1, ReadFacts
<1>4. ASSUME NEW c \in DOMAIN TwinOf
      PROVE  IF Afm THEN \A i \in Present(config, c) \cap Present(config, TwinOf[c]) :
                           config[c][i] = config[TwinOf[c]][i]
             ELSE c = First(c) => config[c] = Nothing
  <2>1. c \in DeclaredClass /\ TwinOf[c] \in DeclaredClass
    BY TwinFacts
  <2>2. CASE Afm
    <3>1. first[c] = first[TwinOf[c]]
      BY <1>1, <2>2 DEF DeviceFits
    <3>2. \A i \in Present(config, c) \cap Present(config, TwinOf[c]) :
            config[c][i] = first[c][i] /\ config[TwinOf[c]][i] = first[TwinOf[c]][i]
      BY <1>2, <2>1 DEF Present
    <3> QED
      BY <2>2, <3>1, <3>2
  <2>3. CASE ~Afm
    <3> SUFFICES ASSUME c = First(c)
                 PROVE  config[c] = Nothing
      BY <2>3
    <3>1. first[c] = Nothing
      BY <1>1, <2>3 DEF DeviceFits
    <3>2. \A i \in Item : config[c][i] = None
      BY <2>1, <3>1, ReadFacts DEF Nothing
    <3>3. config[c] \in [Item -> Values \cup {None}]
      BY <2>1 DEF Config, Section
    <3> QED
      BY <3>2, <3>3 DEF Nothing
  <2> QED
    BY <2>2, <2>3
<1>5. \A i \in Present(config, "SelfIp") : config["SelfIp"][i].fixed \in {"local", "floating"}
  <2>1. "SelfIp" \in DeclaredClass
    BY DEF DeclaredClass
  <2>2. \A i \in Present(config, "SelfIp") :
          i \in Present(first, "SelfIp") /\ config["SelfIp"][i] = first["SelfIp"][i]
    BY <1>2, <2>1 DEF Present
  <2> QED
    BY <2>2 DEF CaseFits
<1>6. \A i, j \in Present(config, "RoutingBGP") : i = j
  <2>1. "RoutingBGP" \in DeclaredClass
    BY DEF DeclaredClass
  <2>2. \A i \in Present(config, "RoutingBGP") : i \in Present(first, "RoutingBGP")
    BY <1>2, <2>1 DEF Present
  <2> QED
    BY <1>1, <2>2, OneBgp
<1> QED
  BY <1>2, <1>3, <1>4, <1>5, <1>6 DEF ConfigFits

(* The profiles of vxlan tunnels.                                          *)
LEMMA ProfilesShown ==
  ASSUME NEW first, NEW to, CaseFits(first, to), NEW i \in Item
  PROVE  VxlanIs(first, to, 56, i) =
           IF to["Tunnel"][i] # None /\ to["Tunnel"][i].fixed \in Vxlan
             THEN Profile(to["Tunnel"][i]) ELSE None
<1>1. 56 > 53 /\ 56 > 8 /\ 56 > 7
  OBVIOUS
<1>2. "Tunnel" \in DeclaredClass /\ "Tunnel" \notin DOMAIN TwinOf
  BY DEF DeclaredClass, TwinOf
<1>3. first["VXLAN"][i] = IF first["Tunnel"][i] # None /\ first["Tunnel"][i].fixed \in Vxlan
                            THEN Profile(first["Tunnel"][i]) ELSE None
  BY DEF CaseFits
<1>4. <<"Tunnel", i>> \in Retained => first["Tunnel"][i].fixed \notin Vxlan
  BY <1>2 DEF CaseFits
<1>5. /\ i \in New(first, to, "Tunnel") <=>
           to["Tunnel"][i] # None /\ to["Tunnel"][i] # first["Tunnel"][i]
      /\ i \in Going(first, to, "Tunnel") <=>
           /\ first["Tunnel"][i] # None /\ to["Tunnel"][i] = None
           /\ <<"Tunnel", i>> \notin Retained
  BY <1>2, PlainParts
<1> QED
  BY <1>1, <1>3, <1>4, <1>5 DEF VxlanIs, GoingVxlan, NewVxlan, OldTunnels

(* What is read of a device, less what is lost of it, is all of it.        *)
LEMMA Restored ==
  ASSUME CaseFits(before, declared), NEW n, NEW to, Reads(before, declared, n, to),
         NEW was, NEW c \in DeclaredClass, NEW i \in Item
  PROVE  Shown(was, to, c, i) = before[c][i] \/ LosesList(c, i)
<1>1. CASE c \notin DOMAIN TwinOf
  <2>1. to[c][i] = before[c][i] /\ Expected(to, c, i) = to[c][i]
    BY <1>1, ReadFacts DEF Expected
  <2>2. <<c, i>> \in Retained => before[c][i] # None
    BY DEF CaseFits
  <2> QED
    BY <2>1, <2>2 DEF Shown
<1>2. CASE c \in DOMAIN TwinOf
  <2> DEFINE t == TwinOf[c]
  <2>1. /\ t \in DOMAIN TwinOf /\ TwinOf[t] = c /\ t \in DeclaredClass
        /\ c \notin {"RouteDomain", "Tunnel", "DNS_Resolver"}
        /\ c = First(c) \/ t = First(t)
    BY <1>2 DEF TwinOf, DeclaredClass, PlainClass, First
  <2>2. <<c, i>> \notin Retained
    <3>1. <<c, i>>[1] = c
      OBVIOUS
    <3> QED
      BY <2>1, <3>1, CasesAssumption
  <2>3. Shown(was, to, c, i) = IF Afm /\ to[c][i] = None THEN to[t][i] ELSE to[c][i]
    BY <1>2, <2>2 DEF Shown, Expected
  <2>4. \A d \in {c, t} :
          /\ i \in Dropped(before, declared, TwinOf[d]) =>
               declared[d][i] = None /\ declared[TwinOf[d]][i] = None
          /\ Seen(before, declared)[d][i] =
               IF declared[TwinOf[d]][i] # None THEN None ELSE before[d][i]
    BY <1>2, <2>1 DEF Dropped, Present, Seen
  <2>5. \A d \in {c, t} :
          \/ to[d][i] = Seen(before, declared)[d][i]
          \/ to[d][i] = None /\ i \in Dropped(before, declared, TwinOf[d])
    BY <2>1 DEF Reads
  <2>6. TwinOf[c] = t /\ TwinOf[t] = c
    BY <2>1
  <2>7. LosesList(c, i) <=>
          before[c][i] # None /\ (declared[c][i] = None <=> declared[t][i] = None)
    BY <1>2 DEF LosesList
  <2> HIDE DEF t
  <2>8. \A d \in {c, t} : to[d][i] \in {before[d][i], None}
    BY <2>1, ReadFacts
  <2>9. CASE Afm
    <3>1. before[c][i] = before[t][i]
      BY <1>2, <2>9 DEF CaseFits, DeviceFits, t
    <3> QED
      BY <2>3, <2>4, <2>5, <2>6, <2>7, <2>8, <2>9, <3>1
  <2>10. CASE ~Afm
    <3>1. CASE c = First(c)
      <4>1. before[c][i] = None
        BY <1>2, <2>10, <3>1 DEF CaseFits, DeviceFits, Nothing
      <4> QED
        BY <2>3, <2>8, <2>10, <4>1
    <3>2. CASE t = First(t)
      <4>1. declared[t][i] = None
        BY <2>1, <2>10, <3>2 DEF CaseFits, ConfigFits, Nothing
      <4> QED
        BY <2>3, <2>4, <2>5, <2>6, <2>7, <2>8, <2>10, <4>1
    <3> QED
      BY <2>1, <3>1, <3>2
  <2> QED
    BY <2>9, <2>10
<1> QED
  BY <1>1, <1>2

-----------------------------------------------------------------------------
(* The invariant *)

(* The step that comes next, or none. *)
Position == IF Running THEN pc ELSE LastStep + 1

(* What was there and what was declared do not change.                     *)
Origin == before \in Device /\ declared \in Config /\ CaseFits(before, declared)

(* Some calls of the handlers may still be under way. *)
Interrupted ==
  /\ \E n : Reads(before, declared, n, cur)
  /\ DeviceFits(before, device)
  /\ \A chain \in loose : ChainFits(before, chain)

(* While they apply a declaration, the handlers take the device from what  *)
(* it was before; while they roll back, unless calls of the first pass     *)
(* came late, from what they found, to what they had read.                 *)
Handled ==
  /\ phase = "start" => /\ device = before /\ want = declared
                        /\ group = {} /\ loose = {} /\ ~late
  /\ phase \in {"apply", "done"} => want = declared /\ ~late /\ Handling(before, Position)
  /\ phase = "rejected" => group = {} /\ Interrupted
  /\ phase \in {"rollback", "rolledBack"} /\ ~late =>
       /\ \E n : Reads(before, declared, n, want)
       /\ \E was : Handling(was, Position)
  /\ phase \in {"done", "rolledBack"} => group = {}

(* The inductive invariant.                                                *)
HandledInv == TypeOK /\ Origin /\ Handled

(* It holds initially, and each action keeps it.                           *)
LEMMA OriginStays ==
  ASSUME Origin, [Next]_vars
  PROVE  Origin'
<1>1. UNCHANGED <<before, declared>>
  BY DEF Next, vars, Apply, RollBack, Begin, Resolve, Perform, Reject, PerformLoose
<1> QED
  BY <1>1 DEF Origin

LEMMA HandledInit ==
  ASSUME Init
  PROVE  HandledInv
<1>1. TypeOK
  BY TypeInit
<1>2. Origin
  <2>1. PICK c \in Cases : device = c.before /\ want = c.want
    BY DEF Init
  <2>2. before = c.before /\ declared = c.want
    BY <2>1 DEF Init
  <2> QED
    BY <1>1, <2>2, CasesAssumption DEF Origin, TypeOK
<1>3. Handled
  BY DEF Init, Handled
<1> QED
  BY <1>1, <1>2, <1>3 DEF HandledInv

LEMMA ApplyHandled ==
  ASSUME HandledInv, Apply
  PROVE  Handled'
<1>1. /\ phase = "start" /\ Process(want, WithoutDeclaredTwins(want), "apply")
      /\ UNCHANGED <<before, declared, group, loose, late>>
  BY DEF Apply
<1>2. device = before /\ want = declared /\ group = {} /\ loose = {} /\ ~late
  BY <1>1 DEF HandledInv, Handled
<1>3. /\ phase' = "apply" /\ pc' = 1 /\ want' = want
  BY <1>1 DEF Process
<1>4. Handling(before, 1)'
  <2>1. /\ DeviceFits(before, device) /\ ConfigFits(before, want)
        /\ before["TrafficControl"][Only] # None /\ device \in Device /\ want \in Config
    BY <1>2 DEF HandledInv, Origin, CaseFits
  <2>2. UNCHANGED before /\ group' = {} /\ loose' = {}
    BY <1>1, <1>2
  <2>3. \A was : was = device => Handling(was, 1)'
    BY <1>1, <2>1, <2>2, PassBegins
  <2>4. before' = device
    BY <1>1, <1>2
  <2> QED
    BY <2>3, <2>4
<1>5. Position' = 1
  BY <1>3 DEF Position, Running
<1> QED
  BY <1>1, <1>2, <1>3, <1>4, <1>5 DEF Handled

LEMMA RollBackHandled ==
  ASSUME HandledInv, RollBack
  PROVE  Handled'
<1>1. /\ phase = "rejected" /\ Process(cur, WithoutDeclaredTwins(cur), "rollback")
      /\ late' = (loose # {}) /\ UNCHANGED <<before, declared, group, loose>>
  BY DEF RollBack
<1>2. phase' = "rollback" /\ pc' = 1 /\ want' = cur
  BY <1>1 DEF Process
<1>3. group = {} /\ DeviceFits(before, device)
  BY <1>1 DEF HandledInv, Handled, Interrupted
<1>4. PICK n : Reads(before, declared, n, cur)
  BY <1>1 DEF HandledInv, Handled, Interrupted
<1>5. ASSUME ~late'
      PROVE  \E was : Handling(was, 1)'
  <2>1. cur \in Config /\ device \in Device /\ before["TrafficControl"][Only] # None
    BY DEF HandledInv, TypeOK, Origin, CaseFits
  <2>2. ConfigFits(before, cur)
    BY <1>4, <2>1, ReadFits DEF HandledInv, Origin
  <2>3. loose' = {} /\ group' = {} /\ UNCHANGED before
    BY <1>1, <1>3, <1>5
  <2>4. \A was : was = device => Handling(was, 1)'
    BY <1>1, <1>3, <2>1, <2>2, <2>3, PassBegins
  <2>5. \E was : was = device
    OBVIOUS
  <2> QED
    BY <2>4, <2>5
<1>6. Position' = 1
  BY <1>2 DEF Position, Running
<1>7. (\E m : Reads(before, declared, m, want))'
  <2>1. before' = before /\ declared' = declared /\ want' = cur
    BY <1>1, <1>2
  <2> QED
    BY <1>4, <2>1
<1> QED
  BY <1>2, <1>5, <1>6, <1>7 DEF Handled

(* A step that keeps what the handlers are about, and where they are.      *)
LEMMA HandlingStays ==
  ASSUME HandledInv, UNCHANGED <<before, want, declared, late>>,
         NEW k \in Nat, Position' = k, phase' \in {"apply", "done", "rollback", "rolledBack"},
         phase \in {"apply", "done"} <=> phase' \in {"apply", "done"},
         phase \in {"rollback", "rolledBack"} <=> phase' \in {"rollback", "rolledBack"},
         phase' \in {"done", "rolledBack"} => group' = {},
         \A was : Handling(was, Position) => Handling(was, k)'
  PROVE  Handled'
<1>1. ASSUME phase' \in {"apply", "done"}
      PROVE  want' = declared' /\ ~late' /\ Handling(before, Position)'
  <2>1. want = declared /\ ~late /\ Handling(before, Position)
    BY <1>1 DEF HandledInv, Handled
  <2>2. Handling(before, k)'
    <3>1. \A was : was = before => Handling(was, k)'
      BY <2>1
    <3> QED
      BY <3>1
  <2> QED
    BY <2>1, <2>2
<1>2. ASSUME phase' \in {"rollback", "rolledBack"}, ~late'
      PROVE  /\ \E n : Reads(before, declared, n, want)'
             /\ \E was : Handling(was, Position)'
  <2>1. /\ \E n : Reads(before, declared, n, want)
        /\ \E was : Handling(was, Position)
    BY <1>2 DEF HandledInv, Handled
  <2> QED
    BY <2>1
<1> QED
  BY <1>1, <1>2 DEF Handled

LEMMA BeginHandled ==
  ASSUME HandledInv, Begin
  PROVE  Handled'
<1>1. /\ phase \in {"apply", "rollback"} /\ phase' = phase
      /\ UNCHANGED <<before, want, declared, late>>
  BY DEF Begin, Running
<1>2. Position = pc /\ Position' = pc'
  BY <1>1 DEF Position, Running
<1>3. TypeOK /\ TypeOK'
  BY TypeNext DEF HandledInv, Next
<1>4. \A was : Handling(was, pc) => Handling(was, pc)'
  BY <1>3, BeginHandling
<1>5. PICK k \in Nat : k = pc'
  BY <1>3, PlanFacts DEF TypeOK
<1>6. \A was : Handling(was, Position) => Handling(was, k)'
  BY <1>2, <1>4, <1>5
<1> QED
  BY <1>1, <1>2, <1>5, <1>6, HandlingStays

LEMMA ResolveHandled ==
  ASSUME HandledInv, Resolve
  PROVE  Handled'
<1>1. /\ phase \in {"apply", "rollback"}
      /\ phase' = IF phase = "apply" THEN "done" ELSE "rolledBack"
      /\ group' = {} /\ UNCHANGED <<before, want, declared, late>>
  BY DEF Resolve, Running
<1>2. Position = pc /\ Position' = LastStep + 1 /\ LastStep + 1 \in Nat
  BY <1>1, PlanFacts DEF Position, Running
<1>3. \A was : Handling(was, pc) => Handling(was, LastStep + 1)'
  BY ResolveHandling DEF HandledInv
<1>4. \A was : Handling(was, Position) => Handling(was, LastStep + 1)'
  BY <1>2, <1>3
<1> QED
  BY <1>1, <1>2, <1>4, HandlingStays

LEMMA PerformHandled ==
  ASSUME HandledInv, NEW chain \in group, Perform(chain)
  PROVE  Handled'
<1>1. UNCHANGED <<before, want, declared, cur, phase, pc, late>>
  BY DEF Perform
<1>2. Position' = Position /\ Position \in Nat
  BY <1>1, PlanFacts DEF Position, Running, HandledInv, TypeOK
<1>3. phase \notin {"start", "rejected", "done", "rolledBack"}
  BY DEF HandledInv, Handled
<1>4. CASE phase = "failed"
  BY <1>1, <1>4 DEF Handled
<1>5. CASE phase # "failed"
  <2>1. phase \in {"apply", "done", "rollback", "rolledBack"}
    BY <1>3, <1>5 DEF HandledInv, TypeOK, Phase
  <2>2. PICK k \in Nat : k = Position
    BY <1>2
  <2>3. \A was : Handling(was, k) => Handling(was, k)'
    BY PerformHandling DEF HandledInv
  <2> QED
    BY <1>1, <1>2, <1>3, <2>1, <2>2, <2>3, HandlingStays
<1> QED
  BY <1>4, <1>5

LEMMA RejectHandled ==
  ASSUME HandledInv, NEW chain \in group, Reject(chain)
  PROVE  Handled'
<1>1. /\ phase' = IF phase = "apply" THEN "rejected" ELSE "failed"
      /\ group' = {} /\ loose' = loose \cup (group \ {chain})
      /\ UNCHANGED <<device, before, want, declared, cur>>
  BY DEF Reject
<1>2. CASE phase # "apply"
  BY <1>1, <1>2 DEF Handled
<1>3. CASE phase = "apply"
  <2>1. want = declared /\ Handling(before, pc)
    BY <1>3 DEF HandledInv, Handled, Position, Running
  <2>2. /\ Reads(before, declared, pc, cur) /\ DeviceFits(before, device)
        /\ \A x \in group \cup loose : ChainFits(before, x)
    BY <2>1 DEF Handling, At
  <2>3. (\E n : Reads(before, declared, n, cur))'
    BY <1>1, <2>2
  <2>4. DeviceFits(before, device)'
    BY <1>1, <2>2
  <2>5. \A x \in loose' : ChainFits(before', x)
    BY <1>1, <2>2
  <2> QED
    BY <1>1, <1>3, <2>3, <2>4, <2>5 DEF Handled, Interrupted
<1> QED
  BY <1>2, <1>3

LEMMA PerformLooseHandled ==
  ASSUME HandledInv, NEW chain \in loose, PerformLoose(chain)
  PROVE  Handled'
<1>1. UNCHANGED <<before, want, declared, cur, phase, pc, group, late>>
  BY DEF PerformLoose
<1>2. Position' = Position /\ Position \in Nat
  BY <1>1, PlanFacts DEF Position, Running, HandledInv, TypeOK
<1>3. phase # "start"
  BY DEF HandledInv, Handled
<1>4. CASE phase = "failed"
  BY <1>1, <1>4 DEF Handled
<1>5. CASE phase = "rejected"
  <2>1. /\ group = {} /\ \E n : Reads(before, declared, n, cur)
        /\ DeviceFits(before, device) /\ \A x \in loose : ChainFits(before, x)
    BY <1>5 DEF HandledInv, Handled, Interrupted
  <2>2. chain \in Chain /\ Typed /\ before["TrafficControl"][Only] # None
    BY DEF HandledInv, TypeOK, Typed, Origin, CaseFits
  <2>3. /\ device' = IF Accepted(Head(chain)) THEN Outcome(Head(chain)) ELSE device
        /\ loose' \subseteq loose \cup Rest(chain)
    BY DEF PerformLoose
  <2>4. Head(chain) \in Call /\ CallFits(before, Head(chain))
    BY <2>1, <2>2, ChainParts DEF ChainFits
  <2>5. DeviceFits(before, device')
    BY <2>1, <2>2, <2>3, <2>4, OutcomeFits
  <2>6. \A x \in Rest(chain) : ChainFits(before, x)
    <3> SUFFICES ASSUME NEW x \in Rest(chain)
                 PROVE  ChainFits(before, x)
      OBVIOUS
    <3>1. x = Tail(chain) /\ \A k \in DOMAIN Tail(chain) : k + 1 \in DOMAIN chain
                              /\ Tail(chain)[k] = chain[k + 1]
      BY <2>2, ChainParts
    <3> QED
      BY <2>1, <3>1 DEF ChainFits
  <2>7. \A x \in loose' : ChainFits(before', x)
    BY <1>1, <2>1, <2>3, <2>6
  <2>8. (\E n : Reads(before, declared, n, cur))'
    BY <1>1, <2>1
  <2>9. DeviceFits(before, device)'
    BY <1>1, <2>5
  <2> QED
    BY <1>1, <1>5, <2>1, <2>7, <2>8, <2>9 DEF Handled, Interrupted
<1>6. CASE phase \notin {"failed", "rejected"}
  <2>1. phase \in {"apply", "done", "rollback", "rolledBack"}
    BY <1>3, <1>6 DEF HandledInv, TypeOK, Phase
  <2>2. PICK k \in Nat : k = Position
    BY <1>2
  <2>3. \A was : Handling(was, k) => Handling(was, k)'
    BY PerformLooseHandling DEF HandledInv
  <2>4. phase \in {"done", "rolledBack"} => group = {}
    BY DEF HandledInv, Handled
  <2> QED
    BY <1>1, <1>2, <2>1, <2>2, <2>3, <2>4, HandlingStays
<1> QED
  BY <1>4, <1>5, <1>6

LEMMA UnchangedHandled ==
  ASSUME HandledInv, UNCHANGED vars
  PROVE  Handled'
<1>1. Handled
  BY DEF HandledInv
<1>2. UNCHANGED <<device, before, want, declared, cur, doomed, phase, pc, mem, group, loose, late>>
  BY DEF vars
<1> QED
  BY <1>1, <1>2 DEF Handled, Handling, Interrupted, Position, Running

LEMMA HandledNext ==
  ASSUME HandledInv, [Next]_vars
  PROVE  HandledInv'
<1>1. TypeOK' /\ Origin'
  BY TypeNext, OriginStays DEF HandledInv
<1>2. Handled'
  <2>1. ASSUME UNCHANGED vars
        PROVE  Handled'
    BY <2>1, UnchangedHandled
  <2> QED
    BY <2>1, ApplyHandled, RollBackHandled, BeginHandled, ResolveHandled, PerformHandled,
       RejectHandled, PerformLooseHandled DEF Next
<1> QED
  BY <1>1, <1>2 DEF HandledInv

-----------------------------------------------------------------------------
(* What the handlers come to *)

(* Handlers that are at their end, with no call under way.                 *)
LEMMA Finished ==
  ASSUME TypeOK, NEW was, Handling(was, LastStep + 1), phase \in {"done", "rolledBack"},
         group = {}, loose = {}, NEW c \in Class, NEW i \in Item
  PROVE  Is(was, want, 56, mem, c, i, device[c][i])
<1>1. LastStep + 1 = 56
  BY PlanFacts
<1>2. At(device, before, was, want, 56, mem, cur, {})
  BY <1>1 DEF Handling
<1> QED
  BY <1>2 DEF At, Owes

(* What is left is the device of the last step.                            *)
LEMMA DoneIsApplied ==
  ASSUME HandledInv
  PROVE  Applied
<1> SUFFICES ASSUME phase = "done", Settled
             PROVE  /\ Shows(declared)
                    /\ HasProfiles(declared)
                    /\ device["ConfigSync"] = before["ConfigSync"]
  BY DEF Applied
<1>1. /\ want = declared /\ Handling(before, LastStep + 1) /\ CaseFits(before, declared)
      /\ group = {} /\ loose = {} /\ TypeOK
  BY DEF HandledInv, Handled, Position, Running, Origin, Settled
<1>2. \A c \in Class, i \in Item : Is(before, declared, 56, mem, c, i, device[c][i])
  <2>1. \A was : was = before =>
          \A c \in Class, i \in Item : Is(was, want, 56, mem, c, i, device[c][i])
    BY <1>1, Finished
  <2> QED
    BY <1>1, <2>1
<1>3. Shows(declared)
  <2> SUFFICES ASSUME NEW c \in DeclaredClass, NEW i \in Item
               PROVE  device[c][i] = Shown(before, declared, c, i)
    BY DEF Shows, Shown
  <2>1. DeviceFits(before, before) /\ ConfigFits(before, declared) /\ c \in Class
    BY <1>1, ClassFacts DEF CaseFits
  <2>2. Is(before, declared, 56, mem, c, i, device[c][i])
    BY <1>2, <2>1
  <2> QED
    BY <2>1, <2>2, FinalShown
<1>4. HasProfiles(declared)
  <2> SUFFICES ASSUME NEW i \in Item
               PROVE  device["VXLAN"][i] = VxlanIs(before, declared, 56, i)
    BY <1>1, ProfilesShown DEF HasProfiles
  <2>1. "VXLAN" \in Class
    BY DEF Class
  <2>2. Is(before, declared, 56, mem, "VXLAN", i, device["VXLAN"][i])
    BY <1>2, <2>1
  <2> QED
    BY <2>2, IsUnfoldsElse
<1>5. device["ConfigSync"] = before["ConfigSync"]
  <2>1. "ConfigSync" \in Class /\ 56 \notin 19 .. 28
    BY DEF Class
  <2>2. \A i \in Item : device["ConfigSync"][i] = before["ConfigSync"][i]
    <3> TAKE i \in Item
    <3>1. Is(before, declared, 56, mem, "ConfigSync", i, device["ConfigSync"][i])
      BY <1>2, <2>1
    <3> QED
      BY <2>1, <3>1, IsUnfoldsElse
  <2>3. /\ device["ConfigSync"] \in [Item -> Values \cup {None}]
        /\ before["ConfigSync"] \in [Item -> Values \cup {None}]
    BY <1>1, <2>1 DEF TypeOK, Device, Section
  <2> QED
    BY <2>2, <2>3
<1> QED
  BY <1>3, <1>4, <1>5

LEMMA RolledBackIsRestored ==
  ASSUME HandledInv
  PROVE  RollbackRestores
<1> SUFFICES ASSUME phase = "rolledBack", Settled, ~late,
                    NEW c \in DeclaredClass, NEW i \in Item
             PROVE  device[c][i] = before[c][i] \/ LosesList(c, i)
  BY DEF RollbackRestores
<1>1. /\ \E n : Reads(before, declared, n, want)
      /\ \E was : Handling(was, LastStep + 1)
      /\ CaseFits(before, declared) /\ group = {} /\ loose = {} /\ TypeOK
  BY DEF HandledInv, Handled, Position, Running, Origin, Settled
<1>2. PICK n : Reads(before, declared, n, want)
  BY <1>1
<1>3. PICK was : Handling(was, LastStep + 1)
  BY <1>1
<1>4. Is(was, want, 56, mem, c, i, device[c][i])
  BY <1>1, <1>3, Finished, ClassFacts
<1>5. DeviceFits(before, was) /\ ConfigFits(before, want)
  BY <1>3 DEF Handling
<1>6. device[c][i] = Shown(was, want, c, i)
  BY <1>4, <1>5, FinalShown
<1> QED
  BY <1>1, <1>2, <1>6, Restored

(* Applied: when the handlers are done and no call is under way, the device *)
(* shows every object that was declared and no other but what is never     *)
(* deleted, vxlan tunnels have their profiles, and the config sync address *)
(* is back, in whatever order the calls of a step were answered            *)
(* (networkHandler.js and deleteHandler.js, process).                      *)
THEOREM HandlersApply == Spec => []Applied
<1>1. Init => HandledInv
  BY HandledInit
<1>2. HandledInv /\ [Next]_vars => HandledInv'
  BY HandledNext
<1>3. HandledInv => Applied
  BY DoneIsApplied
<1> QED
  BY <1>1, <1>2, <1>3, PTL DEF Spec

(* RollbackRestores: when the handlers were interrupted by a call that was *)
(* refused, and have then applied what they had read, every declared       *)
(* object is what it was before, but for lists the delete handler had      *)
(* taken out of what was read (deleteHandler.js, deleteClass), provided    *)
(* that no call was still under way when they began again                  *)
(* (networkHandler.js and deleteHandler.js, process).                      *)
THEOREM HandlersRestore == Spec => []RollbackRestores
<1>1. Init => HandledInv
  BY HandledInit
<1>2. HandledInv /\ [Next]_vars => HandledInv'
  BY HandledNext
<1>3. HandledInv => RollbackRestores
  BY RolledBackIsRestored
<1> QED
  BY <1>1, <1>2, <1>3, PTL DEF Spec
=============================================================================
