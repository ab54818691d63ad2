---------------------------- MODULE RouteDomains ----------------------------
(***************************************************************************)
(* VLANs and the route domains they belong to: the fixes the declaration   *)
(* handler applies to them (src/lib/declarationHandler.js,                 *)
(* applyDefaultRouteDomainFix and applyRouteDomainVlansFix), the calls of  *)
(* the network handler (networkHandler.js, handleVlan, handleRouteDomain)  *)
(* and of the delete handler (deleteHandler.js).                           *)
(*                                                                         *)
(* A route domain is named by its id, so that the domain with id 0 is      *)
(* Default under whatever name it was declared.  A list of VLANs is a set: *)
(* the fix sorts it and keeps a name once.                                 *)
(***************************************************************************)
EXTENDS Naturals, FiniteSets, Sequences, SequencesExt, Absence

CONSTANTS
  Vlan,        \* VLANs of the partition Common, outside of any folder
  Tunnel,      \* tunnels of Common, which the lists of route domains hold too
  Foreign,     \* VLANs of other partitions and folders
  Domains      \* the route domains in the order of Object.keys: Default is first

Default == Head(Domains)
Domain  == ToSet(Domains)

Listed == SUBSET (Vlan \cup Tunnel \cup Foreign)

ASSUME RouteDomainAssumption ==
  /\ Domains \in Seq(Domain) /\ Domains # <<>>
  /\ \A i, j \in DOMAIN Domains : i # j => Domains[i] # Domains[j]
  /\ Vlan \cap Foreign = {} /\ Vlan \cap Tunnel = {} /\ Tunnel \cap Foreign = {}
  /\ Unsaid \notin Vlan \cup Tunnel \cup Foreign /\ \A list \in Listed : list # Unsaid

Before(r, s) ==
  \E i, j \in DOMAIN Domains : i < j /\ Domains[i] = r /\ Domains[j] = s

Lists(lists, r) == IF lists[r] = Unsaid THEN {} ELSE lists[r]

(* What is on the device, and what configManager reads of it: the VLANs of *)
(* Common, and the list of each route domain.  A domain read without a     *)
(* list has an empty one here.                                             *)
Networks ==
  [vlans: SUBSET Vlan, domains: UNION {[ds -> Listed] : ds \in SUBSET Domain}]

(* On a device every VLAN is in one route domain.                          *)
Attached(n) ==
  /\ Default \in DOMAIN n.domains
  /\ \A v \in n.vlans \cup Tunnel \cup Foreign :
       \E r \in DOMAIN n.domains : \A s \in DOMAIN n.domains : v \in n.domains[s] <=> s = r
  /\ \A r \in DOMAIN n.domains : n.domains[r] \subseteq n.vlans \cup Tunnel \cup Foreign

NetworkDevice == {n \in Networks : Attached(n)}

(* What a client may declare: a route domain may come without its list,    *)
(* and no domains stands for a class left out.  The fixes see to it that a *)
(* VLAN of Common is in one list; for the others the client has to.        *)
NetworkDeclarations ==
  {d \in [vlans: SUBSET Vlan,
          domains: UNION {[ds -> {Unsaid} \cup Listed] : ds \in SUBSET Domain}] :
     \A r, s \in DOMAIN d.domains :
       r # s => Lists(d.domains, r) \cap Lists(d.domains, s) \cap Foreign = {}}

(***************************************************************************)
(* The fixes.                                                              *)
(***************************************************************************)

(* applyDefaults, for a class that is missing from the declaration.        *)
WithDefaults(d, original) ==
  [vlans   |-> IF d.vlans = {} THEN original.vlans ELSE d.vlans,
   domains |-> IF DOMAIN d.domains = {} THEN original.domains ELSE d.domains]

(* The default route domain is on every device: left out, it is copied     *)
(* from what was read, its VLANs with it.                                  *)
DefaultRouteDomainFix(lists, cur) ==
  [r \in DOMAIN lists \cup {Default} |->
     IF r \in DOMAIN lists THEN lists[r] ELSE cur.domains[r]]

(* What was read in a route domain, is in Common and is not declared.      *)
CurrentVlans(d, cur) ==
  {v \in (Vlan \cup Tunnel) \ d.vlans : \E r \in DOMAIN cur.domains : v \in cur.domains[r]}

(* A VLAN that several domains list goes to the first of them.             *)
FirstToList(v, lists) ==
  CHOOSE r \in DOMAIN lists :
    /\ v \in lists[r]
    /\ \A s \in DOMAIN lists : v \in lists[s] => s = r \/ Before(r, s)

(* Mutant: VLANs nobody lists are put nowhere. *)
RouteDomainVlansDropped(d, cur) ==
  LET lists == [r \in DOMAIN d.domains |-> Lists(d.domains, r)]
  IN [r \in DOMAIN lists |->
        IF d.domains[r] = Unsaid THEN Unsaid
        ELSE {v \in lists[r] : v \in Foreign \cup d.vlans \cup CurrentVlans(d, cur)}]

(* Declared VLANs that no domain lists go to Default; VLANs that are not   *)
(* declared and that no domain lists stay where they were read, if that    *)
(* domain is declared; names of VLANs that do not exist go.                *)
RouteDomainVlansFix(d, cur) ==
  LET lists    == [r \in DOMAIN d.domains |-> Lists(d.domains, r)]
      claimed  == UNION {lists[r] : r \in DOMAIN lists}
      present  == d.vlans \cup CurrentVlans(d, cur)
      kept(r)  == {v \in lists[r] : \/ v \in Foreign
                                    \/ v \in present /\ FirstToList(v, lists) = r}
      fresh(r) == IF r = Default THEN d.vlans \ claimed ELSE {}
      stay(r)  == IF r \in DOMAIN cur.domains
                  THEN (CurrentVlans(d, cur) \ claimed) \cap cur.domains[r] ELSE {}
      fixed(r) == kept(r) \cup fresh(r) \cup stay(r)
  IN [r \in DOMAIN lists |->
        IF d.domains[r] = Unsaid /\ fixed(r) = {} THEN Unsaid ELSE fixed(r)]

NetworkFix(declared, original, cur) ==
  LET d == WithDefaults(declared, original)
      e == [d EXCEPT !.domains = DefaultRouteDomainFix(@, cur)]
  IN [e EXCEPT !.domains = RouteDomainVlansFix(e, cur)]

(***************************************************************************)
(* The handlers.  A new VLAN, and one that loses its route domain, is in   *)
(* Default: that, and that a VLAN leaves the domain it was in when another *)
(* takes it, is the device's doing.                                        *)
(***************************************************************************)
Settled(vlans, lists) ==
  LET all     == vlans \cup Tunnel \cup Foreign
      here(r) == Lists(lists, r) \cap all
      others  == UNION {here(r) : r \in DOMAIN lists \ {Default}}
  IN [r \in DOMAIN lists |-> IF r = Default THEN all \ others ELSE here(r)]

(* handleRouteDomain leaves the VLANs of Default alone and writes those of *)
(* the other domains that changed, in one transaction; a list it does not  *)
(* give is not changed.  The delete handler removes the VLANs and then the *)
(* route domains that are no longer wanted.                                *)
NetworkWrite(dev, cur, want) ==
  LET changed == {r \in DOMAIN want.domains \ {Default} :
                    r \notin DOMAIN cur.domains \/ cur.domains[r] # want.domains[r]}
      given   == {r \in changed : want.domains[r] # Unsaid}
      taken   == UNION {want.domains[r] : r \in given}
      lists   == [r \in DOMAIN want.domains |->
                    IF r \in given THEN want.domains[r]
                    ELSE IF r \in DOMAIN dev.domains THEN dev.domains[r] \ taken ELSE {}]
  IN [vlans |-> want.vlans, domains |-> Settled(want.vlans, lists)]

(***************************************************************************)
(* What a declaration asks for.                                            *)
(***************************************************************************)

(* A declared VLAN that one declared domain lists is to be in that domain. *)
Claims(d, r) ==
  {v \in d.vlans \cap Lists(d.domains, r) :
     \A s \in DOMAIN d.domains \ {r} : v \notin Lists(d.domains, s)}

(* VLANs do not leave Default when it is left out, nor for Default a       *)
(* domain that is declared without its list.                               *)
Stuck(d, r, was) ==
  LET listless == {s \in DOMAIN d.domains \cap DOMAIN was.domains : d.domains[s] = Unsaid}
  IN IF Default \notin DOMAIN d.domains THEN was.domains[Default]
     ELSE IF r = Default THEN UNION {was.domains[s] : s \in listless} ELSE {}

(* The list of a domain that comes without one is written all the same     *)
(* when the domain has VLANs or tunnels that are not declared, and then    *)
(* the declared ones, which nobody lists, go to Default.                   *)
Rewritten(d, r, was) == (was.domains[r] \cap (Vlan \cup Tunnel)) \ d.vlans # {}

NetworkMet(dev, d, was) ==
  /\ Attached(dev)
  /\ \A r \in DOMAIN d.domains :
       Claims(d, r) \ Stuck(d, r, was) \subseteq dev.domains[r]
  /\ \A r \in DOMAIN d.domains \cap DOMAIN was.domains :
       d.domains[r] = Unsaid /\ ~Rewritten([d EXCEPT !.vlans = dev.vlans], r, was) =>
         \A v \in was.domains[r] \cap dev.vlans :
           (\A s \in DOMAIN d.domains : v \notin Lists(d.domains, s)) => v \in dev.domains[r]

(* A route domain declared without its list is read with one, and Default  *)
(* with the VLANs of other partitions that it holds.                       *)
ReadOtherwise(d, dev) ==
  \E r \in DOMAIN d.domains :
    \/ d.domains[r] = Unsaid
    \/ r = Default /\ dev.domains[r] \cap Foreign # d.domains[r] \cap Foreign
=============================================================================
