--------------------------- MODULE MCConfigEngine ---------------------------
(* Instances of ConfigEngine for TLC: VLANs, GSLB servers that need a       *)
(* module, NTP and database variables, or some of them.                     *)
EXTENDS ConfigEngine, TLC

CONSTANTS VLAN, GSLBServer, NTP, DbVariables, x, y, factory, one

KindOf ==
  LET kinds == VLAN :> "named" @@ GSLBServer :> "gslb" @@ NTP :> "nameless" @@ DbVariables :> "db"
  IN [c \in Class |-> kinds[c]]

Of(i, v) == [Empty EXCEPT ![i] = v]

All(v) == [i \in Item |-> v]

Sections(vlan, server, ntp, db) ==
  LET sections == VLAN :> vlan @@ GSLBServer :> server @@ NTP :> ntp @@ DbVariables :> db
  IN [c \in Class |-> sections[c]]

MCFactory ==
  {[common |-> Sections(Of(x, factory), Empty, All(factory), All(factory)), module |-> FALSE]}

Decl(vlan, server, ntp, db, module) ==
  [common |-> Sections(vlan, server, ntp, db), module |-> module]

(* Between them they create, change, keep and delete an object of each     *)
(* class, provision the module, keep it and let it go.                     *)
MCDeclarations ==
  { Decl(Empty, Empty, Empty, Empty, Missing),
    Decl(Of(x, one), Of(x, one), Empty, Of(x, one), TRUE),
    Decl(Of(y, one), Of(y, one), Of(x, one), Empty, TRUE),
    Decl(Of(y, factory), Empty, Empty, Of(y, one), FALSE),
    Decl(Empty, Of(x, one), Of(y, one), Empty, Missing) }

Symmetric == Permutations(Task)
=============================================================================
