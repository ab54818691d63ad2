----------------------------- MODULE MCReposts -----------------------------
(* Small instances of Reposts, a kind at a time: the devices to start from *)
(* and the declarations to make.                                           *)
EXTENDS Reposts, TLC

CONSTANTS v1, v2, t1, f1, r0, r1, r2, l1, l2, x1, x2, n1, n2, m1, bigip, h1, h2, a1, a2, lease,
          q1, q2, s1, s2, c1, c2, i1, i2

MCDomains == <<r0, r1, r2>>
MCIndex   == <<i1, i2>>

-----------------------------------------------------------------------------
(* A device with one domain, and one with two.                             *)
NetworkFactory ==
  {[vlans |-> {}, domains |-> [r \in {r0} |-> {f1, t1}]],
   [vlans |-> {v1}, domains |-> [r \in {r0, r1} |-> IF r = r0 THEN {f1} ELSE {v1, t1}]]}

NetworkPosts ==
  {d \in [vlans: {{}, {v1}, {v1, v2}},
          domains: UNION {[ds -> {Unsaid, {}, {v1}, {v1, v2, t1}, {v1, f1}}] :
                            ds \in SUBSET {r0, r1, r2}}] :
     /\ \A r \in DOMAIN d.domains :
          \/ r = r0 /\ d.domains[r] \in {Unsaid, {}, {v1, f1}}
          \/ r = r1 /\ d.domains[r] \in {Unsaid, {v1}, {v1, v2, t1}}
          \/ r = r2 /\ d.domains[r] \in {{}, {v1}, {v1, f1}}
     /\ d \in NetworkDeclarations}

AccessPosts == {e \in Entry : ValidAccessList(e)} \cup {Unsaid}

BgpPosts ==
  {fs \in UNION {[1 .. n -> FamilyEntry] : n \in 0 .. 2} : ValidFamilies(fs)} \cup {Unsaid}

References(n) == UNION {[1 .. i -> Reference] : i \in 0 .. n}
FirewallPosts == [source: References(1), destination: References(2)] \cup {Unsaid}

-----------------------------------------------------------------------------
VirtualServers ==
  {vs \in [name: {n1, Unsaid}, monitors: {Unsaid, <<m1>>}, translation: {Unsaid, x1}] :
     vs.monitors = Unsaid \/ vs.name = n1}

GslbServers ==
  [center: {[name |-> n1, full |-> b] : b \in BOOLEAN},
   pool: {Unsaid, [name |-> n1, full |-> TRUE]},
   product: {"bigip", "generic"}, monitors: {Unsaid, <<>>, <<m1>>},
   virtuals: {Unsaid, <<>>} \cup {<<vs>> : vs \in VirtualServers}]

Pools ==
  {Unsaid, <<>>,
   <<[server |-> [name |-> n1, full |-> TRUE]], [server |-> [name |-> n2, full |-> FALSE]]>>,
   <<[server |-> [name |-> n2, full |-> TRUE]], [server |-> [name |-> n1, full |-> TRUE]]>>}

GslbPosts ==
  [globals: {Unsaid}, server: GslbServers \cup {Unsaid}, pool: {Unsaid}] \cup
  [globals: [GlobalSetting -> GlobalValue \cup {Unsaid}] \cup {Unsaid}, server: {Unsaid},
   pool: Pools]

GslbFactory ==
  {[globals |-> [s \in GlobalSetting |-> x1], server |-> Unsaid, pool |-> Unsaid]}

-----------------------------------------------------------------------------
AuthPosts ==
  {d \in AuthDeclarations \ {Unsaid} :
     /\ d.source # "ldap" /\ d.users # s1
     /\ d.radius # Unsaid => d.radius.servers.primary = d.radius.servers.secondary
                              \/ d.radius.servers = [primary |-> s1, secondary |-> Unsaid]}
  \cup {Unsaid}

AuthFactory ==
  {v \in AuthDevice : /\ v.source = "local" /\ v.users = s1 /\ v.file = Unsaid
                      /\ v.servers # Unsaid => v.radius /\ v.servers.primary = s1}

ManagementFactory ==
  {v \in ManagementDevice : /\ v.host = h1 /\ v.ip # a2 /\ v.routes # {q2}
                            /\ v.ip = lease => v.dhcp}

-----------------------------------------------------------------------------
MCFactory ==
  [k \in Kinds |->
     CASE k = "network"    -> NetworkFactory
       [] k = "access"     -> {Unsaid}
       [] k = "bgp"        -> {Unsaid}
       [] k = "firewall"   -> {Unsaid}
       [] k = "waf"        -> Waf
       [] k = "gslb"       -> GslbFactory
       [] k = "management" -> ManagementFactory
       [] k = "auth"       -> AuthFactory]

MCDeclarationsOf ==
  [k \in Kinds |->
     CASE k = "network"    -> NetworkPosts
       [] k = "access"     -> AccessPosts
       [] k = "bgp"        -> BgpPosts
       [] k = "firewall"   -> FirewallPosts
       [] k = "waf"        -> WafDeclaration
       [] k = "gslb"       -> GslbPosts
       [] k = "management" -> ManagementDeclarations
       [] k = "auth"       -> AuthPosts]
=============================================================================
