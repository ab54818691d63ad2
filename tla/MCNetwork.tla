------------------------------ MODULE MCNetwork ------------------------------
(* Instances of Network for TLC: a device and the declaration it is given  *)
(* are two configurations of the same family.                              *)
EXTENDS Network

CONSTANTS a, b, rd0, one, two, n1, n2, vx, ppp

V(data, fixed, net, refs) == [data |-> data, fixed |-> fixed, net |-> net, refs |-> refs]

Plain(data, refs) == V(data, NoNet, NoNet, refs)

Of(x, y) == [i \in Item |-> IF i = a THEN x ELSE IF i = b THEN y ELSE None]

Base ==
  [c \in Class |->
     CASE c = "RouteDomain"    -> [Nothing EXCEPT ![rd0] = Plain(one, {})]
       [] c = "TrafficControl" -> [Nothing EXCEPT ![Only] = Plain(one, {})]
       [] OTHER                -> Nothing]

(* Self IPs on two subnets, a route through one and the config sync IP. *)
SelfIp(data, kind, net) == V(data, kind, net, {<<"VLAN", a>>})

SelfIps ==
  {[Base EXCEPT !["VLAN"] = Of(Plain(one, {}), None), !["SelfIp"] = Of(x, y),
                !["Route"] = Of(r, None), !["ConfigSync"] = [Nothing EXCEPT ![Only] = s]] :
     x \in {None, SelfIp(one, "local", n1), SelfIp(two, "local", n1), SelfIp(one, "local", n2)},
     y \in {None, SelfIp(one, "floating", n1), SelfIp(two, "floating", n1),
             SelfIp(one, "local", n1)},
     r \in {None, V(one, n1, n1, {}), V(one, n2, n1, {})},
     s \in {None, V(a, NoNet, n1, {})}}

(* Tunnels with profiles of both sorts, a self IP on one, and a resolver   *)
(* in a route domain.                                                      *)
Tunnel(data, fixed) ==
  V(data, fixed, NoNet, IF fixed = vx THEN {<<"VXLAN", a>>} ELSE {})

Tunnels ==
  {[Base EXCEPT !["Tunnel"] = Of(x, None),
                !["VXLAN"] = Of(IF x # None /\ x.fixed = vx THEN Profile(x) ELSE None, None),
                !["TrafficControl"] = [Nothing EXCEPT ![Only] = Plain(t, {})],
                !["RouteDomain"] = [Of(r, None) EXCEPT ![rd0] = Plain(t, {})],
                !["SelfIp"] = Of(None, IF x = None THEN None ELSE s),
                !["DNS_Resolver"] = Of(IF r = None THEN None ELSE Plain(t, {<<"RouteDomain", a>>}),
                                       None),
                !["DagGlobals"] = Of(Plain(t, {}), None)] :
     x \in {None} \cup {Tunnel(d, f) : d \in {one, two}, f \in {vx, ppp}},
     t \in {one, two},
     r \in {None, Plain(one, {})},
     s \in {None, V(one, "local", n2, {<<"Tunnel", a>>})}}

(* A BGP that refers to a map that refers to a list; the map and the list  *)
(* are in the same route domain.                                           *)
Routings ==
  {[Base EXCEPT
      !["RoutingPrefixList"] = Of(IF m THEN V(d, f, NoNet, {}) ELSE None, None),
      !["RouteMap"] = Of(IF m THEN V(d, f, NoNet, {<<"RoutingPrefixList", a>>}) ELSE None, None),
      !["RoutingBGP"] = Of(x, y)] :
     m \in BOOLEAN, d \in {one, two}, f \in {n1, n2},
     x \in {None} \cup {V(e, n1, NoNet, {<<"RouteMap", a>>}) : e \in {one, two}},
     y \in {None, V(one, n2, NoNet, {})}}

(* Lists of addresses, which AFM doubles, a policy that refers to one and  *)
(* a VLAN on a trunk.                                                      *)
Lists2 ==
  {[Base EXCEPT
      !["NetAddressList"] = Of(x, None), !["FirewallAddressList"] = Of(x, None),
      !["FirewallPolicy"] = Of(p, None),
      !["Trunk"] = Of(t, None),
      !["VLAN"] = Of(IF t = None THEN None ELSE Plain(one, {<<"Trunk", a>>}), None)] :
     x \in {None, Plain(one, {}), Plain(two, {})},
     p \in {None, Plain(one, {<<"FirewallAddressList", a>>})},
     t \in {None, Plain(one, {}), Plain(two, {})}}

Declarable(dev) == [c \in DeclaredClass |-> dev[c]]

(* A declaration may name a list in one of its two classes, but names what *)
(* its objects refer to.                                                   *)
Named(config) ==
  {named \in {config, [config EXCEPT !["NetAddressList"] = Nothing],
                      [config EXCEPT !["FirewallAddressList"] = Nothing]} :
     \A c \in DeclaredClass : \A i \in Present(named, c) : \A r \in named[c][i].refs :
       r[1] \in DeclaredClass => named[r[1]][r[2]] # None}

Pairs(devices) ==
  LET sound == {dev \in devices : Sound(dev)}
  IN UNION {{[before |-> dev, want |-> w] : dev \in sound, w \in Named(Declarable(target))} :
              target \in sound}

MCAcceptAll == Plain("all", {})
MCEnabled == Plain("enable", {})

Objects ==
  UNION {UNION {{dev[c][i] : i \in Item} : c \in Class} :
           dev \in SelfIps \cup Tunnels \cup Routings \cup Lists2} \ {None}

MCValues ==
  Objects \cup {Profile(v) : v \in Objects} \cup {Outline(v) : v \in Objects}
    \cup {MCAcceptAll, MCEnabled, Outline(MCAcceptAll)}

MCRetained == {<<"RouteDomain", rd0>>}

MCCases == UNION {Pairs(family) : family \in {SelfIps, Tunnels, Routings, Lists2}}
=============================================================================
