----------------------------- MODULE PolicyFixes -----------------------------
(***************************************************************************)
(* Classes whose declarations are rewritten before they are compared with  *)
(* what was read from the device, so that a declaration and its own effect *)
(* look the same (src/lib/declarationHandler.js, apply...Fixes): routing   *)
(* access lists, BGP, firewall rules and the settings of the web           *)
(* application firewall.  Addresses and names are kept to what the fixes   *)
(* tell apart.                                                             *)
(***************************************************************************)
EXTENDS Naturals, Sequences, Absence

CONSTANTS
  ListName,     \* names of address lists
  Setting,      \* built-in advanced settings of the web application firewall
  UserSetting,  \* the USER_DEFINED ones, which exist only when they are added
  Value         \* values of settings, and what a BGP address family may say

ASSUME PolicyAssumption ==
  /\ Setting \cap UserSetting = {}
  /\ Unsaid \notin Value

(***************************************************************************)
(* Access lists.  An address is one host or network, or one of the         *)
(* any-addresses :: and 0.0.0.0, with or without a mask; "full" is /32 or  *)
(* /128, "zero" is /0, "part" any other.                                   *)
(***************************************************************************)
Family  == {"ipv4", "ipv6"}
Address == [family: Family, any: BOOLEAN, mask: {"none", "full", "part", "zero"}]
Entry   == [destination: Address, source: Address]
Sides   == {"destination", "source"}

AnyOf(f)  == [family |-> f, any |-> TRUE, mask |-> "zero"]
Bare(a) == a.any /\ a.family = "ipv6" /\ a.mask = "none"     \* it is '::'

(* routingAccessListValidator: the addresses of a list are of one family,  *)
(* any-addresses aside.                                                    *)
ValidAccessList(e) ==
  /\ \A s \in Sides : ~e[s].any => e[s].mask # "zero"
  /\ ~e.destination.any /\ ~e.source.any => e.destination.family = e.source.family

(* An any-address takes the family of the other address; :: tells nothing. *)
Follow(a, other) == IF a.any /\ ~Bare(other) THEN AnyOf(other.family) ELSE a

(* What is left: 0.0.0.0 gets the mask it has on the device, a host the    *)
(* longest one.                                                            *)
Masked(a) ==
  IF a.any /\ a.family = "ipv4" THEN AnyOf("ipv4")
  ELSE IF a.mask = "none" /\ ~Bare(a) THEN [a EXCEPT !.mask = "full"]
  ELSE a

(* The destination is rewritten first, the source looks at the result.     *)
RoutingAccessListFix(e) ==
  LET destination == Follow(e.destination, e.source)
      source      == Follow(e.source, destination)
  IN [destination |-> Masked(destination), source |-> Masked(source)]

(* What the device stores, as the comment above the fix has it.            *)
StoredEntry(e) ==
  LET other(s)  == e[CHOOSE o \in Sides : o # s]
      stored(s) == IF ~e[s].any \/ (Bare(e[s]) /\ other(s).any) THEN Masked(e[s])
                   ELSE IF other(s).any THEN AnyOf(e[s].family)
                   ELSE AnyOf(other(s).family)
  IN [s \in Sides |-> stored(s)]

(* A device has entries that it would store again as they are, read back   *)
(* and fixed or not.                                                       *)
AccessDevice ==
  {e \in Entry : e = StoredEntry(e) /\ e = StoredEntry(RoutingAccessListFix(e))}

Matches(a) == IF a.any THEN <<"all">> ELSE <<a.family, a.mask \in {"none", "full"}>>
EntryMet(stored, e) == \A s \in Sides : Matches(stored[s]) = Matches(e[s])

(* The comment above the fix wants it to write ::/0 here; it does not.     *)
MaskUnderBare(e) ==
  /\ Bare(e.source)
  /\ e.destination.any /\ e.destination.family = "ipv6"
  /\ e.destination.mask \in {"full", "part"}

(***************************************************************************)
(* BGP.  The address families of an instance, of a neighbor ("all" stands  *)
(* for both) or of a peer group, in the order of the declaration.          *)
(***************************************************************************)
FamilyEntry == [name: Family \cup {"all"}, says: Value \cup {Unsaid}]

(* routingBgpValidator: "all" must not be used with another family.        *)
ValidFamilies(fs) ==
  /\ \A i, j \in DOMAIN fs : i # j => fs[i].name # fs[j].name
  /\ (\E i \in DOMAIN fs : fs[i].name = "all") => Len(fs) = 1

Split(fs) ==
  IF Len(fs) = 1 /\ fs[1].name = "all"
  THEN <<[fs[1] EXCEPT !.name = "ipv4"], [fs[1] EXCEPT !.name = "ipv6"]>>
  ELSE fs

Has(fs, f) == \E i \in DOMAIN fs : fs[i].name = f

processAddressFamiliesDefaults(fs) ==
  LET first == IF Has(fs, "ipv4") THEN <<>> ELSE <<[name |-> "ipv4", says |-> Unsaid]>>
      last  == IF Has(fs, "ipv6") THEN <<>> ELSE <<[name |-> "ipv6", says |-> Unsaid]>>
  IN first \o fs \o last

(* Mutant: the families keep the order of the declaration. *)
UnsortedFamilies(fs) == fs

SortedFamilies(fs) ==
  IF Len(fs) = 2 /\ fs[1].name = "ipv6" THEN <<fs[2], fs[1]>> ELSE fs

RoutingBgpFix(fs) == SortedFamilies(processAddressFamiliesDefaults(Split(fs)))

(* The device has both families, each as it was last given.                *)
StoredFamilies(fs) ==
  LET says(f) == IF \E i \in DOMAIN fs : fs[i].name \in {f, "all"}
                 THEN fs[CHOOSE i \in DOMAIN fs : fs[i].name \in {f, "all"}].says
                 ELSE Unsaid
  IN <<[name |-> "ipv4", says |-> says("ipv4")], [name |-> "ipv6", says |-> says("ipv6")]>>

BgpDevice ==
  {fs \in Seq(FamilyEntry) : Len(fs) = 2 /\ fs[1].name = "ipv4" /\ fs[2].name = "ipv6"}

(***************************************************************************)
(* Firewall rules: the address lists a rule names for the source and for   *)
(* the destination, with or without the prefix of their partition.         *)
(***************************************************************************)
Reference == [name: ListName, full: BOOLEAN]

(* applyTenantPrefix, for the first n references.                          *)
TenantPrefix(refs, n) ==
  [i \in DOMAIN refs |-> IF i <= n THEN [refs[i] EXCEPT !.full = TRUE] ELSE refs[i]]

(* Both loops run over the references of the source.                       *)
FirewallRuleFix(rule) ==
  LET n == Len(rule.source)
  IN [source      |-> TenantPrefix(rule.source, n),
      destination |-> TenantPrefix(rule.destination, n)]

StoredRule(rule) == [s \in Sides |-> TenantPrefix(rule[s], Len(rule[s]))]

FirewallDevice == {rule \in [Sides -> Seq(Reference)] : rule = StoredRule(rule)}

(* A reference of the destination that the loop does not come to.          *)
Unprefixed(rule) ==
  \E i \in DOMAIN rule.destination : i > Len(rule.source) /\ ~rule.destination[i].full

(***************************************************************************)
(* The web application firewall: the properties antiVirusProtection and    *)
(* advancedSettings of a class without names.                              *)
(***************************************************************************)
AnySetting == Setting \cup UserSetting
Settings   == [AnySetting -> Value \cup {Unsaid}]

Waf == [virus: Value, settings: {f \in Settings : \A s \in Setting : f[s] # Unsaid}]
WafDeclaration == [virus: Value \cup {Unsaid}, settings: Settings \cup {Unsaid}]
WafOmitted == [virus |-> Unsaid, settings |-> Unsaid]

ASSUME UnsaidAssumption ==
  /\ Unsaid \notin Entry /\ Unsaid \notin Settings
  /\ Unsaid \notin Seq(FamilyEntry) /\ Unsaid \notin [Sides -> Seq(Reference)]

(* Object.assign(originalAdvancedSettings, advancedSettings).              *)
Assigned(to, settings) ==
  [s \in AnySetting |-> IF settings[s] = Unsaid THEN to[s] ELSE settings[s]]

SecurityWafFix(d, original) ==
  IF d = WafOmitted THEN original
  ELSE IF d.settings = Unsaid THEN d
  ELSE [d EXCEPT !.settings = Assigned(original.settings, @)]

(* The fix writes into this.state.originalConfig.                          *)
OriginalAfterFix(d, original) ==
  IF d.settings = Unsaid THEN original
  ELSE [original EXCEPT !.settings = Assigned(@, d.settings)]

(* handleSecurityWaf.                                                      *)
WafWrite(dev, cur, want, original) ==
  LET goes(s) == s \in UserSetting /\ cur.settings[s] # Unsaid /\ original.settings[s] = Unsaid
      setting(s) == IF want.settings[s] # Unsaid THEN want.settings[s]
                    ELSE IF goes(s) THEN Unsaid
                    ELSE dev.settings[s]
  IN [virus    |-> IF want.virus = Unsaid THEN dev.virus ELSE want.virus,
      settings |-> IF want.settings = Unsaid THEN dev.settings
                   ELSE [s \in AnySetting |-> setting(s)]]

(* Declared settings have their values, the others those of before.        *)
WafMet(dev, d, original) ==
  LET now == [virus |-> IF d.virus = Unsaid THEN original.virus ELSE d.virus,
              settings |-> IF d.settings = Unsaid THEN original.settings
                           ELSE Assigned(original.settings, d.settings)]
  IN /\ (d.virus # Unsaid \/ d = WafOmitted) => dev.virus = now.virus
     /\ (d.settings # Unsaid \/ d = WafOmitted) => dev.settings = now.settings

(* A declaration with one of the two properties lacks the other for ever.  *)
HalfSaid(d) == d # WafOmitted /\ (d.virus = Unsaid \/ d.settings = Unsaid)
=============================================================================
