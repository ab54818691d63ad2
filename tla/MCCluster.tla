------------------------------ MODULE MCCluster ------------------------------
(* Instances of Cluster for TLC.                                           *)
EXTENDS Cluster

CONSTANTS b1, b2, b3, g1, g2

By(d, kind) == [of |-> d, kind |-> kind]
All(devices, kind) == {By(d, kind) : d \in devices}

Dg(g, owner, members) == [name |-> g, owner |-> owner, members |-> members]

NoGroups == [g \in Group |-> Absent]

OneGroup(members) == [NoGroups EXCEPT ![g1] = members]

Declaration(declared, remote, active, trusted, existing) ==
  [groups |-> declared, remote |-> remote, haOrder |-> {b1, b2}, syncs |-> TRUE,
   active |-> active, trusted |-> trusted, existing |-> existing]

(* A new cluster; each device may be given by its name or an address.      *)
NewClusters ==
  {Declaration(<<Dg(g1, By(b1, ko), {By(b1, k1), By(b2, k2)} \cup m3)>>, By(b1, kr),
               {b1, b2, b3}, {}, NoGroups) :
     ko \in {"name", "management"}, k1 \in {"name", "management"},
     k2 \in {"name", "configSync"}, kr \in {"name", "management"},
     m3 \in {{}, {By(b3, "name")}}}

(* A member has gone for good and another one replaces it.                 *)
Replacements ==
  {Declaration(<<Dg(g1, By(b2, k), All({b2, b3}, k))>>, By(b2, k), {b2, b3}, {b1, b2},
               OneGroup({b1, b2})) : k \in {"name", "management"}}

(* Trust was established before.                                           *)
Trusting ==
  {Declaration(<<Dg(g1, By(b1, k), All(members, k))>>, NoTrust, {b1, b2, b3}, {b1, b2, b3},
               existing) :
     k \in {"name", "configSync"}, members \in {{}, {b1, b2}, {b1, b2, b3}},
     existing \in {NoGroups, OneGroup({b2, b3})}}

(* Two groups, with a trust and without.                                   *)
TwoGroups ==
  {Declaration(<<Dg(g1, By(b1, "name"), All({b1, b2}, "name")),
                 Dg(g2, By(o, "name"), All({b1, b2} \cup more, "name"))>>,
               remote, {b1, b2, b3}, IF remote = NoTrust THEN {b1, b2, b3} ELSE {}, NoGroups) :
     o \in {b1, b2}, more \in {{}, {b3}}, remote \in {NoTrust, By(b1, "name")}}

(* A trust and no group.                                                   *)
OnlyTrust == {Declaration(<<>>, By(b1, "name"), {b1, b2, b3}, {}, NoGroups)}

(* Trust was established before, and is declared again.                    *)
Redeclared ==
  {Declaration(<<Dg(g1, By(b1, "name"), All({b1, b2}, "name"))>>, By(b1, "name"), active,
               {b1, b2}, NoGroups) : active \in {{b1}, {b1, b3}}}

(* Addresses for config sync are not set.                                  *)
Unsynced ==
  {[c EXCEPT !.syncs = FALSE] : c \in {c \in NewClusters : Cardinality(c.groups[1].members) = 2}}

MCCases ==
  UNION {NewClusters, Unsynced, Replacements, Trusting, TwoGroups, OnlyTrust, Redeclared}
=============================================================================
