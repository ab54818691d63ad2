---------------------------- MODULE RepostsProofs ----------------------------
(* Proofs that a declaration is met when its task is done, that its second *)
(* coming changes nothing and that a rollback undoes it, for every kind of *)
(* class, every device and any number of declarations.                     *)
EXTENDS Reposts, TLAPS, FiniteSetTheorems, SequenceTheorems

(* Before the first declaration there is no certificate of LDAP, which is  *)
(* read as its checksum and cannot be written again, and there are no      *)
(* servers of RADIUS alone, which are read as a configuration.             *)
AuthIsPlain ==
  "auth" \in Kinds =>
    \A v \in Factory["auth"] : v.ldap # "file" /\ (v.servers # Unsaid => v.radius)

-----------------------------------------------------------------------------
(* The invariant *)

(* What was there before the first declaration can be replaced, and never  *)
(* goes: what a declaration leaves out comes back.                         *)
Retained(k, v, first) ==
  CASE k = "network"    -> first.vlans # {} => v.vlans # {}
    [] k \in {"access", "bgp", "firewall"} -> first # Unsaid => v # Unsaid
    [] k = "waf"        -> \A s \in AnySetting :
                             first.settings[s] # Unsaid => v.settings[s] # Unsaid
    [] k = "gslb"       -> /\ first.server # Unsaid => v.server # Unsaid
                           /\ first.pool # Unsaid => v.pool # Unsaid
    [] k = "management" -> first.routes # {} => v.routes # {}
    [] k = "auth"       -> first.radius # Unsaid => v.servers # Unsaid

Plain(k, first) ==
  k = "auth" => first.ldap \notin Certificate /\ (first.radius # Unsaid => first.radius.type)

(* What a task knows after the fixes, what it wants, and what it leaves on *)
(* the device: it found v and declares d, and "same" says that the         *)
(* original configuration and the one it has read are one object.          *)
Known(k, v, d, first, same) ==
  IF k = "waf" /\ same THEN OriginalFor(k, d, first) ELSE ReadFor(k, ReadOf(k, v), d)

Wanted(k, v, d, first) == FixOf(k, d, first, ReadFor(k, ReadOf(k, v), d), FALSE)

Outcome(k, v, d, first, same) ==
  Updated(k, v, Known(k, v, d, first, same), Wanted(k, v, d, first), d # Unsaid,
          OriginalFor(k, d, first))

(* What a rollback wants that finds v, to return to what was known, and    *)
(* what it leaves on the device.                                           *)
Found(k, v, known) == ReadFor(k, ReadOf(k, v), known)

Returned(k, v, known, first) == FixOf(k, known, first, Found(k, v, known), TRUE)

Restored(k, v, known, first) ==
  Updated(k, v, Found(k, v, known), Returned(k, v, known, first), FALSE, first)

(* RepostIsQuiet, of a device and a declaration that has succeeded on it.  *)
NoisyOn(k, v, d) ==
  CASE k = "network"    -> ReadOtherwise(d, v)
    [] k = "access"     -> d # Unsaid /\ MaskUnderBare(d)
    [] k = "firewall"   -> d # Unsaid /\ Unprefixed(d)
    [] k = "waf"        -> HalfSaid(d)
    [] k = "gslb"       -> Untranslated(d)
    [] k = "management" -> PreserveDiffers(d, v)
    [] k = "auth"       -> RadiusServersStay(v)
    [] OTHER            -> FALSE

UnfinishedOn(k, v, d, first) ==
  CASE k = "management" -> LeaseReturns(d, first) \/ LeaseGivenUp(d, first)
    [] k = "waf"        -> ~WafMet(v, d, first)
    [] OTHER            -> FALSE

Quiet(k, v, d, first) ==
  UnfinishedOn(k, v, d, first) \/
    /\ Outcome(k, v, d, first, FALSE) = v
    /\ NoisyOn(k, v, d) \/ ComparedOf(k, Wanted(k, v, d, first)) = ReadFor(k, ReadOf(k, v), d)

(* The configuration from before the first declaration, and the device.    *)
DeviceInv ==
  /\ kind \in Kinds
  /\ IsDevice(kind, device)
  /\ store = NoConfig => pc = "idle" /\ device \in Factory[kind]
  /\ store # NoConfig =>
       IsConfig(kind, store) /\ Retained(kind, device, store) /\ (AuthIsPlain => Plain(kind, store))

(* What a task holds, and what it leaves on the device.                    *)
TaskInv ==
  LET known   == Known(kind, was, decl, store, shared)
      outcome == Outcome(kind, was, decl, store, shared)
  IN /\ pc # "idle" => /\ store # NoConfig /\ IsDeclaration(kind, decl)
                       /\ IsDevice(kind, was) /\ Retained(kind, was, store)
                       /\ shared => store = ReadOf(kind, was)
     /\ pc = "read" => device = was /\ original = store /\ cur = ReadOf(kind, was)
     /\ pc = "fixed" => /\ device = was /\ cur = known /\ want = Wanted(kind, was, decl, store)
                        /\ original = OriginalFor(kind, decl, store)
     /\ pc = "done" =>
          device = outcome /\ ~Refused(kind, was, Wanted(kind, was, decl, store), decl # Unsaid)
     /\ pc \in {"failed", "rollback"} =>
          \/ device = was
          \/ device = outcome /\ ~Refused(kind, was, Wanted(kind, was, decl, store), decl # Unsaid)
     /\ pc \in {"fixed", "done", "failed", "rollback"} => rollbackTo = known
     /\ pc = "rollback" => original = store /\ cur = ReadOf(kind, device)

(* The last declaration, until the next one has done its part.             *)
LastInv ==
  /\ last # NoConfig /\ pc \in {"idle", "read", "fixed"} =>
       store # NoConfig /\ (AuthIsPlain => Quiet(kind, device, last, store))
  /\ shared \/ pc \in {"rolledBack", "stuck"} => last = NoConfig

Inv ==
  /\ pc \in {"idle", "read", "fixed", "done", "failed", "rollback", "rolledBack", "stuck"}
  /\ shared \in BOOLEAN
  /\ DeviceInv
  /\ TaskInv
  /\ LastInv
  /\ RollbackRestores

-----------------------------------------------------------------------------
(* Access lists *)

(* The two sides of an entry are each other's other side.                  *)
LEMMA OtherSide ==
  /\ (CHOOSE o \in Sides : o # "destination") = "source"
  /\ (CHOOSE o \in Sides : o # "source") = "destination"
<1>1. ASSUME NEW s \in Sides
      PROVE  /\ (CHOOSE o \in Sides : o # s) \in Sides
             /\ (CHOOSE o \in Sides : o # s) # s
  <2>1. \E o \in Sides : o # s
    BY DEF Sides
  <2> QED
    BY <2>1
<1> QED
  BY <1>1 DEF Sides

(* One side of an entry, as the device stores it beside the other.         *)
StoredAddress(a, other) ==
  IF ~a.any \/ (Bare(a) /\ other.any) THEN Masked(a)
  ELSE IF other.any THEN AnyOf(a.family) ELSE AnyOf(other.family)

FixedDestination(e) == Follow(e.destination, e.source)
FixedSource(e)      == Follow(e.source, FixedDestination(e))

(* StoredEntry, side by side.                                              *)
LEMMA StoredSides ==
  ASSUME NEW e \in Entry
  PROVE  StoredEntry(e) = [destination |-> StoredAddress(e.destination, e.source),
                           source      |-> StoredAddress(e.source, e.destination)]
  BY OtherSide DEF StoredEntry, StoredAddress, Entry, Sides

LEMMA AddressFacts ==
  ASSUME NEW a \in Address
  PROVE  /\ Masked(a) \in Address /\ Masked(Masked(a)) = Masked(a)
         /\ Masked(a).any = a.any /\ Masked(a).family = a.family
         /\ Bare(Masked(a)) = Bare(a)
         /\ AnyOf(a.family) \in Address /\ Masked(AnyOf(a.family)) = AnyOf(a.family)
         /\ AnyOf(a.family).any /\ ~Bare(AnyOf(a.family))
         /\ AnyOf(a.family).family = a.family
         /\ Bare(a) => a.any /\ Masked(a) = a
         /\ a.any \in BOOLEAN
  BY DEF Address, Family, Masked, Bare, AnyOf

(* Addresses as they are beside each other on a device.                    *)
Beside(d, s) ==
  \/ ~d.any /\ ~s.any /\ Masked(d) = d /\ Masked(s) = s
  \/ ~s.any /\ Masked(s) = s /\ d = AnyOf(s.family)
  \/ ~d.any /\ Masked(d) = d /\ s = AnyOf(d.family)
  \/ d.any /\ s = d /\ (Bare(d) \/ d = AnyOf(d.family))

(* What is stored of a fixed entry is such a pair.                         *)
LEMMA FixedIsBeside ==
  ASSUME NEW e \in Entry
  PROVE  LET d == Masked(FixedDestination(e))
             s == Masked(FixedSource(e))
         IN /\ StoredAddress(d, s) \in Address /\ StoredAddress(s, d) \in Address
            /\ Beside(StoredAddress(d, s), StoredAddress(s, d))
<1> DEFINE D == e.destination
           S == e.source
<1>1. D \in Address /\ S \in Address
  BY DEF Entry
<1>2. CASE ~D.any /\ ~S.any
  <2>1. FixedDestination(e) = D /\ FixedSource(e) = S
    BY <1>2 DEF FixedDestination, FixedSource, Follow
  <2> QED
    BY <1>1, <1>2, <2>1, AddressFacts DEF StoredAddress, Beside
<1>3. CASE D.any /\ ~S.any
  <2>1. FixedDestination(e) = AnyOf(S.family) /\ FixedSource(e) = S
    BY <1>1, <1>3, AddressFacts DEF FixedDestination, FixedSource, Follow
  <2> QED
    BY <1>1, <1>3, <2>1, AddressFacts DEF StoredAddress, Beside
<1>4. CASE ~D.any /\ S.any
  <2>1. FixedDestination(e) = D /\ FixedSource(e) = AnyOf(D.family)
    BY <1>1, <1>4, AddressFacts DEF FixedDestination, FixedSource, Follow
  <2> QED
    BY <1>1, <1>4, <2>1, AddressFacts DEF StoredAddress, Beside
<1>5. CASE D.any /\ S.any /\ Bare(S) /\ Bare(D)
  <2>1. FixedDestination(e) = D /\ FixedSource(e) = S
    BY <1>1, <1>5, AddressFacts DEF FixedDestination, FixedSource, Follow
  <2>2. D = S
    BY <1>1, <1>5 DEF Bare, Address
  <2> QED
    BY <1>1, <1>5, <2>1, <2>2, AddressFacts DEF StoredAddress, Beside
<1>6. CASE D.any /\ S.any /\ Bare(S) /\ ~Bare(D)
  <2>1. FixedDestination(e) = D /\ FixedSource(e) = AnyOf(D.family)
    BY <1>1, <1>6, AddressFacts DEF FixedDestination, FixedSource, Follow
  <2> QED
    BY <1>1, <1>6, <2>1, AddressFacts DEF StoredAddress, Beside
<1>7. CASE D.any /\ S.any /\ ~Bare(S)
  <2>1. FixedDestination(e) = AnyOf(S.family) /\ FixedSource(e) = AnyOf(S.family)
    BY <1>1, <1>7, AddressFacts DEF FixedDestination, FixedSource, Follow
  <2> QED
    BY <1>1, <1>7, <2>1, AddressFacts DEF StoredAddress, Beside
<1>8. D.any \in BOOLEAN /\ S.any \in BOOLEAN
  BY <1>1, AddressFacts
<1> QED
  BY <1>2, <1>3, <1>4, <1>5, <1>6, <1>7, <1>8

(* Such a pair is stored as it is, and fixed and stored as it is.          *)
LEMMA BesideStays ==
  ASSUME NEW v \in Entry, Beside(v.destination, v.source)
  PROVE  /\ StoredAddress(v.destination, v.source) = v.destination
         /\ StoredAddress(v.source, v.destination) = v.source
         /\ LET d == Masked(FixedDestination(v))
                s == Masked(FixedSource(v))
            IN StoredAddress(d, s) = v.destination /\ StoredAddress(s, d) = v.source
<1> DEFINE D == v.destination
           S == v.source
<1>1. D \in Address /\ S \in Address
  BY DEF Entry
<1>2. CASE ~D.any /\ ~S.any /\ Masked(D) = D /\ Masked(S) = S
  <2>1. FixedDestination(v) = D /\ FixedSource(v) = S
    BY <1>2 DEF FixedDestination, FixedSource, Follow
  <2> QED
    BY <1>1, <1>2, <2>1, AddressFacts DEF StoredAddress
<1>3. CASE ~S.any /\ Masked(S) = S /\ D = AnyOf(S.family)
  <2>1. FixedDestination(v) = D /\ FixedSource(v) = S
    BY <1>1, <1>3, AddressFacts DEF FixedDestination, FixedSource, Follow
  <2> QED
    BY <1>1, <1>3, <2>1, AddressFacts DEF StoredAddress
<1>4. CASE ~D.any /\ Masked(D) = D /\ S = AnyOf(D.family)
  <2>1. FixedDestination(v) = D /\ FixedSource(v) = S
    BY <1>1, <1>4, AddressFacts DEF FixedDestination, FixedSource, Follow
  <2> QED
    BY <1>1, <1>4, <2>1, AddressFacts DEF StoredAddress
<1>5. CASE D.any /\ S = D /\ Bare(D)
  <2>1. FixedDestination(v) = D /\ FixedSource(v) = S
    BY <1>1, <1>5, AddressFacts DEF FixedDestination, FixedSource, Follow
  <2> QED
    BY <1>1, <1>5, <2>1, AddressFacts DEF StoredAddress
<1>6. CASE D.any /\ S = D /\ D = AnyOf(D.family)
  <2>1. FixedDestination(v) = D /\ FixedSource(v) = S
    BY <1>1, <1>6, AddressFacts DEF FixedDestination, FixedSource, Follow
  <2> QED
    BY <1>1, <1>6, <2>1, AddressFacts DEF StoredAddress
<1> QED
  BY <1>2, <1>3, <1>4, <1>5, <1>6 DEF Beside

(* The fix leaves what will be stored, but for the one case.               *)
LEMMA FixedAsStored ==
  ASSUME NEW e \in Entry, ~MaskUnderBare(e)
  PROVE  LET d == Masked(FixedDestination(e))
             s == Masked(FixedSource(e))
         IN StoredAddress(d, s) = d /\ StoredAddress(s, d) = s
<1> DEFINE D == e.destination
           S == e.source
<1>1. D \in Address /\ S \in Address
  BY DEF Entry
<1>2. CASE ~D.any /\ ~S.any
  <2>1. FixedDestination(e) = D /\ FixedSource(e) = S
    BY <1>2 DEF FixedDestination, FixedSource, Follow
  <2> QED
    BY <1>1, <1>2, <2>1, AddressFacts DEF StoredAddress
<1>3. CASE D.any /\ ~S.any
  <2>1. FixedDestination(e) = AnyOf(S.family) /\ FixedSource(e) = S
    BY <1>1, <1>3, AddressFacts DEF FixedDestination, FixedSource, Follow
  <2> QED
    BY <1>1, <1>3, <2>1, AddressFacts DEF StoredAddress
<1>4. CASE ~D.any /\ S.any
  <2>1. FixedDestination(e) = D /\ FixedSource(e) = AnyOf(D.family)
    BY <1>1, <1>4, AddressFacts DEF FixedDestination, FixedSource, Follow
  <2> QED
    BY <1>1, <1>4, <2>1, AddressFacts DEF StoredAddress
<1>5. CASE D.any /\ S.any /\ Bare(S) /\ Bare(D)
  <2>1. FixedDestination(e) = D /\ FixedSource(e) = S
    BY <1>1, <1>5, AddressFacts DEF FixedDestination, FixedSource, Follow
  <2> QED
    BY <1>1, <1>5, <2>1, AddressFacts DEF StoredAddress
<1>6. CASE D.any /\ S.any /\ Bare(S) /\ ~Bare(D)
  <2>1. FixedDestination(e) = D /\ FixedSource(e) = AnyOf(D.family)
    BY <1>1, <1>6, AddressFacts DEF FixedDestination, FixedSource, Follow
  <2>2. Masked(D) = AnyOf(D.family)
    BY <1>1, <1>6 DEF MaskUnderBare, Bare, Masked, AnyOf, Address, Family
  <2> QED
    BY <1>1, <1>6, <2>1, <2>2, AddressFacts DEF StoredAddress
<1>7. CASE D.any /\ S.any /\ ~Bare(S)
  <2>1. FixedDestination(e) = AnyOf(S.family) /\ FixedSource(e) = AnyOf(S.family)
    BY <1>1, <1>7, AddressFacts DEF FixedDestination, FixedSource, Follow
  <2> QED
    BY <1>1, <1>7, <2>1, AddressFacts DEF StoredAddress
<1>8. D.any \in BOOLEAN /\ S.any \in BOOLEAN
  BY <1>1, AddressFacts
<1> QED
  BY <1>2, <1>3, <1>4, <1>5, <1>6, <1>7, <1>8

LEMMA FixedTypes ==
  ASSUME NEW e \in Entry
  PROVE  FixedDestination(e) \in Address /\ FixedSource(e) \in Address
<1>1. e.destination \in Address /\ e.source \in Address
  BY DEF Entry
<1>2. FixedDestination(e) \in Address
  BY <1>1, AddressFacts DEF FixedDestination, Follow
<1> QED
  BY <1>1, <1>2, AddressFacts DEF FixedSource, Follow

(* It matches what the declaration says.                                   *)
LEMMA StoredMatches ==
  ASSUME NEW e \in Entry
  PROVE  LET d == Masked(FixedDestination(e))
             s == Masked(FixedSource(e))
         IN /\ Matches(StoredAddress(d, s)) = Matches(e.destination)
            /\ Matches(StoredAddress(s, d)) = Matches(e.source)
<1> DEFINE D == e.destination
           S == e.source
           d == Masked(FixedDestination(e))
           s == Masked(FixedSource(e))
<1>1. D \in Address /\ S \in Address
  BY DEF Entry
<1>2. \A a \in Address : ~a.any => Matches(Masked(a)) = Matches(a) /\ Masked(a).any = FALSE
  BY DEF Address, Family, Matches, Masked, Bare
<1>3. FixedDestination(e) \in Address /\ FixedSource(e) \in Address
  BY FixedTypes
<1>4. FixedDestination(e) = D \/ (D.any /\ FixedDestination(e).any)
  BY <1>1, AddressFacts DEF FixedDestination, Follow
<1>5. FixedSource(e) = S \/ (S.any /\ FixedSource(e).any)
  BY <1>1, <1>3, AddressFacts DEF FixedSource, Follow
<1>6. d \in Address /\ s \in Address /\ d.any = D.any /\ s.any = S.any
  BY <1>1, <1>3, <1>4, <1>5, AddressFacts
<1>7. ASSUME NEW a \in Address, NEW b \in Address
      PROVE  StoredAddress(a, b).any = a.any
  BY <1>7, AddressFacts DEF StoredAddress
<1>8. D.any => Matches(StoredAddress(d, s)) = Matches(D)
  BY <1>6, <1>7 DEF Matches
<1>9. S.any => Matches(StoredAddress(s, d)) = Matches(S)
  BY <1>6, <1>7 DEF Matches
<1>10. ~D.any => Matches(StoredAddress(d, s)) = Matches(D)
  BY <1>1, <1>2, <1>4, <1>6, AddressFacts DEF StoredAddress
<1>11. ~S.any => Matches(StoredAddress(s, d)) = Matches(S)
  BY <1>1, <1>2, <1>5, <1>6, AddressFacts DEF StoredAddress
<1> QED
  BY <1>8, <1>9, <1>10, <1>11

(* What is stored of a fixed entry is on a device for good.                *)
LEMMA AccessIsStored ==
  ASSUME NEW e \in Entry
  PROVE  LET v == StoredEntry(RoutingAccessListFix(e))
         IN /\ RoutingAccessListFix(e) \in Entry
            /\ v \in AccessDevice /\ EntryMet(v, e)
            /\ MaskUnderBare(e) \/ v = RoutingAccessListFix(e)
<1> DEFINE fix(x) == [destination |-> Masked(FixedDestination(x)),
                      source      |-> Masked(FixedSource(x))]
           stored(x) == [destination |-> StoredAddress(x.destination, x.source),
                         source      |-> StoredAddress(x.source, x.destination)]
           v == stored(fix(e))
<1>1. ASSUME NEW x \in Entry
      PROVE  /\ RoutingAccessListFix(x) = fix(x) /\ fix(x) \in Entry
             /\ StoredEntry(x) = stored(x)
  <2>1. RoutingAccessListFix(x) = fix(x)
    BY DEF RoutingAccessListFix, FixedDestination, FixedSource
  <2>2. FixedDestination(x) \in Address /\ FixedSource(x) \in Address
    BY <1>1, FixedTypes
  <2>3. fix(x) \in Entry
    BY <2>2, AddressFacts DEF Entry
  <2> QED
    BY <1>1, <2>1, <2>3, StoredSides
<1>2. v \in Entry /\ Beside(v.destination, v.source)
  BY FixedIsBeside DEF Entry
<1>3. stored(v) = v /\ stored(fix(v)) = v
  BY <1>2, BesideStays
<1>4. StoredEntry(RoutingAccessListFix(e)) = v
  BY <1>1
<1>5. v \in AccessDevice
  <2>1. StoredEntry(v) = v
    BY <1>1, <1>2, <1>3
  <2>2. RoutingAccessListFix(v) = fix(v) /\ fix(v) \in Entry
    BY <1>1, <1>2
  <2>3. StoredEntry(fix(v)) = stored(fix(v))
    BY <1>1, <2>2
  <2>4. StoredEntry(RoutingAccessListFix(v)) = v
    BY <1>3, <2>2, <2>3
  <2> QED
    BY <1>2, <2>1, <2>4 DEF AccessDevice
<1>6. EntryMet(v, e)
  BY StoredMatches DEF EntryMet, Sides
<1>7. MaskUnderBare(e) \/ v = fix(e)
  BY FixedAsStored
<1> HIDE DEF fix, v
<1> QED
  BY <1>1, <1>4, <1>5, <1>6, <1>7

-----------------------------------------------------------------------------
(* BGP *)

LEMMA TwoSays ==
  ASSUME NEW x \in FamilyEntry, NEW y \in FamilyEntry
  PROVE  /\ <<x, y>> \in Seq(FamilyEntry)
         /\ <<x>> \in Seq(FamilyEntry) /\ <<>> \in Seq(FamilyEntry)
         /\ <<x>> \o <<y>> = <<x, y>>
         /\ <<>> \o <<y>> = <<y>> /\ <<x>> \o <<>> = <<x>>
         /\ <<x, y>> \o <<>> = <<x, y>> /\ <<>> \o <<x, y>> = <<x, y>>
<1>1. <<x, y>> \in Seq(FamilyEntry) /\ <<x>> \in Seq(FamilyEntry) /\ <<y>> \in Seq(FamilyEntry)
  OBVIOUS
<1>2. <<>> \in Seq(FamilyEntry)
  OBVIOUS
<1>3. <<x>> \o <<y>> = <<x, y>>
  <2> DEFINE c == <<x>> \o <<y>>
  <2>1. c \in Seq(FamilyEntry) /\ Len(c) = 2 /\ c[1] = x /\ c[2] = y
    BY <1>1, ConcatProperties
  <2> HIDE DEF c
  <2>2. c = <<x, y>>
    BY <1>1, <2>1, SeqEqual
  <2> QED
    BY <2>2 DEF c
<1>4. \A q \in Seq(FamilyEntry) : <<>> \o q = q /\ q \o <<>> = q
  BY ConcatEmptySeq
<1> QED
  BY <1>1, <1>2, <1>3, <1>4

(* What StoredFamilies looks up, of families of different names.           *)
LEMMA FamilyLookup ==
  ASSUME NEW fs \in Seq(FamilyEntry), ValidFamilies(fs), NEW i \in DOMAIN fs,
         NEW f, fs[i].name \in {f, "all"}
  PROVE  (CHOOSE j \in DOMAIN fs : fs[j].name \in {f, "all"}) = i
<1>1. ASSUME NEW j \in DOMAIN fs, fs[j].name \in {f, "all"}
      PROVE  j = i
  BY <1>1 DEF ValidFamilies
<1> QED
  BY <1>1

(* A list of valid families has one of five forms.                         *)
LEMMA FamilyForms ==
  ASSUME NEW fs \in Seq(FamilyEntry), ValidFamilies(fs)
  PROVE  \/ fs = <<>>
         \/ fs = <<fs[1]>> /\ fs[1] \in FamilyEntry
         \/ /\ fs = <<fs[1], fs[2]>> /\ fs[1] \in FamilyEntry /\ fs[2] \in FamilyEntry
            /\ \/ fs[1].name = "ipv4" /\ fs[2].name = "ipv6"
               \/ fs[1].name = "ipv6" /\ fs[2].name = "ipv4"
<1>1. Len(fs) \in Nat /\ DOMAIN fs = 1 .. Len(fs)
  OBVIOUS
<1>2. \A i \in DOMAIN fs : fs[i] \in FamilyEntry /\ fs[i].name \in {"ipv4", "ipv6", "all"}
  <2>1. \A i \in DOMAIN fs : fs[i] \in FamilyEntry
    OBVIOUS
  <2>2. \A e \in FamilyEntry : e.name \in {"ipv4", "ipv6", "all"}
    BY DEF FamilyEntry, Family
  <2> QED
    BY <2>1, <2>2
<1>3. ASSUME Len(fs) >= 3
      PROVE  FALSE
  <2>1. \A i \in {1, 2, 3} : i \in DOMAIN fs /\ fs[i].name \in {"ipv4", "ipv6"}
    BY <1>1, <1>2, <1>3 DEF ValidFamilies
  <2> QED
    BY <2>1 DEF ValidFamilies
<1>4. CASE Len(fs) = 0
  BY <1>4
<1>5. CASE Len(fs) = 1
  BY <1>1, <1>2, <1>5
<1>6. CASE Len(fs) = 2
  <2>1. \A i \in {1, 2} : i \in DOMAIN fs /\ fs[i].name \in {"ipv4", "ipv6"}
    BY <1>1, <1>2, <1>6 DEF ValidFamilies
  <2>2. fs[1].name # fs[2].name
    BY <2>1 DEF ValidFamilies
  <2>3. fs = <<fs[1], fs[2]>>
    BY <1>1, <1>6
  <2> QED
    BY <1>2, <2>1, <2>2, <2>3
<1> QED
  BY <1>1, <1>3, <1>4, <1>5, <1>6

(* What is stored, when the list says x of IPv4 and y of IPv6.             *)
LEMMA StoredAs ==
  ASSUME NEW fs, NEW x, NEW y,
         /\ (\E i \in DOMAIN fs : fs[i].name \in {"ipv4", "all"})
              => fs[CHOOSE i \in DOMAIN fs : fs[i].name \in {"ipv4", "all"}].says = x
         /\ (\E i \in DOMAIN fs : fs[i].name \in {"ipv6", "all"})
              => fs[CHOOSE i \in DOMAIN fs : fs[i].name \in {"ipv6", "all"}].says = y
         /\ ~(\E i \in DOMAIN fs : fs[i].name \in {"ipv4", "all"}) => x = Unsaid
         /\ ~(\E i \in DOMAIN fs : fs[i].name \in {"ipv6", "all"}) => y = Unsaid
  PROVE  StoredFamilies(fs) = <<[name |-> "ipv4", says |-> x], [name |-> "ipv6", says |-> y]>>
  BY DEF StoredFamilies

(* The fix leaves what will be stored.                                     *)
LEMMA BgpIsFixed ==
  ASSUME NEW fs \in Seq(FamilyEntry), ValidFamilies(fs)
  PROVE  /\ RoutingBgpFix(fs) = StoredFamilies(fs)
         /\ StoredFamilies(fs) \in BgpDevice
<1> DEFINE four(x) == [name |-> "ipv4", says |-> x]
           six(x)  == [name |-> "ipv6", says |-> x]
<1>1. \A x \in Value \cup {Unsaid} : four(x) \in FamilyEntry /\ six(x) \in FamilyEntry
  BY DEF FamilyEntry, Family
<1>2. ASSUME NEW x \in Value \cup {Unsaid}, NEW y \in Value \cup {Unsaid}
      PROVE  <<four(x), six(y)>> \in BgpDevice
  BY <1>1, TwoSays DEF BgpDevice
<1>3. \A e \in FamilyEntry : /\ e.says \in Value \cup {Unsaid}
                             /\ e.name = "ipv4" => e = four(e.says)
                             /\ e.name = "ipv6" => e = six(e.says)
                             /\ e.name \in {"ipv4", "ipv6", "all"}
  BY DEF FamilyEntry, Family
<1>4. CASE fs = <<>>
  <2>1. StoredFamilies(fs) = <<four(Unsaid), six(Unsaid)>>
    BY <1>4 DEF StoredFamilies
  <2>2. Split(fs) = <<>> /\ ~Has(<<>>, "ipv4") /\ ~Has(<<>>, "ipv6")
    BY <1>4 DEF Split, Has
  <2>3. RoutingBgpFix(fs) = <<four(Unsaid), six(Unsaid)>>
    BY <1>1, <2>2, TwoSays DEF RoutingBgpFix, processAddressFamiliesDefaults, SortedFamilies
  <2> QED
    BY <1>2, <2>1, <2>3
<1>5. CASE fs = <<fs[1]>> /\ fs[1] \in FamilyEntry
  <2> DEFINE x == fs[1].says
  <2>1. DOMAIN fs = {1} /\ 1 \in DOMAIN fs /\ Len(fs) = 1
    BY <1>5
  <2>2. x \in Value \cup {Unsaid}
    BY <1>3, <1>5
  <2>3. CASE fs[1].name = "all"
    <3>1. StoredFamilies(fs) = <<four(x), six(x)>>
      <4>1. (CHOOSE j \in DOMAIN fs : fs[j].name \in {"ipv4", "all"}) = 1
        BY <2>1, <2>3, FamilyLookup
      <4>2. (CHOOSE j \in DOMAIN fs : fs[j].name \in {"ipv6", "all"}) = 1
        BY <2>1, <2>3, FamilyLookup
      <4> QED
        BY <2>1, <2>3, <4>1, <4>2, StoredAs
    <3>2. Split(fs) = <<four(x), six(x)>>
      <4>1. [fs[1] EXCEPT !.name = "ipv4"] = four(x) /\ [fs[1] EXCEPT !.name = "ipv6"] = six(x)
        BY <1>5 DEF FamilyEntry
      <4> QED
        BY <2>1, <2>3, <4>1 DEF Split
    <3>3. RoutingBgpFix(fs) = <<four(x), six(x)>>
      <4>1. Has(<<four(x), six(x)>>, "ipv4") /\ Has(<<four(x), six(x)>>, "ipv6")
        BY DEF Has
      <4> QED
        BY <1>1, <2>2, <3>2, <4>1, TwoSays
           DEF RoutingBgpFix, processAddressFamiliesDefaults, SortedFamilies
    <3> QED
      BY <1>2, <2>2, <3>1, <3>3
  <2>4. CASE fs[1].name = "ipv4"
    <3>1. StoredFamilies(fs) = <<four(x), six(Unsaid)>>
      <4>1. (CHOOSE j \in DOMAIN fs : fs[j].name \in {"ipv4", "all"}) = 1
        BY <2>1, <2>4, FamilyLookup
      <4> QED
        BY <2>1, <2>4, <4>1, StoredAs
    <3>2. fs = <<four(x)>> /\ Split(fs) = fs
      BY <1>3, <1>5, <2>1, <2>4 DEF Split
    <3>3. RoutingBgpFix(fs) = <<four(x), six(Unsaid)>>
      <4>1. Has(fs, "ipv4") /\ ~Has(fs, "ipv6")
        BY <2>1, <2>4 DEF Has
      <4>2. <<>> \o <<four(x)>> = <<four(x)>>
        BY <1>1, <2>2, TwoSays
      <4>3. <<four(x)>> \o <<six(Unsaid)>> = <<four(x), six(Unsaid)>>
        BY <1>1, <2>2, TwoSays
      <4>4. processAddressFamiliesDefaults(fs) = <<four(x), six(Unsaid)>>
        BY <3>2, <4>1, <4>2, <4>3 DEF processAddressFamiliesDefaults
      <4> QED
        BY <3>2, <4>4 DEF RoutingBgpFix, SortedFamilies
    <3> QED
      BY <1>2, <2>2, <3>1, <3>3
  <2>5. CASE fs[1].name = "ipv6"
    <3>1. StoredFamilies(fs) = <<four(Unsaid), six(x)>>
      <4>1. (CHOOSE j \in DOMAIN fs : fs[j].name \in {"ipv6", "all"}) = 1
        BY <2>1, <2>5, FamilyLookup
      <4> QED
        BY <2>1, <2>5, <4>1, StoredAs
    <3>2. fs = <<six(x)>> /\ Split(fs) = fs
      BY <1>3, <1>5, <2>1, <2>5 DEF Split
    <3>3. RoutingBgpFix(fs) = <<four(Unsaid), six(x)>>
      <4>1. Has(fs, "ipv6") /\ ~Has(fs, "ipv4")
        BY <2>1, <2>5 DEF Has
      <4>2. <<four(Unsaid)>> \o <<six(x)>> = <<four(Unsaid), six(x)>>
        BY <1>1, <2>2, TwoSays
      <4>3. <<four(Unsaid), six(x)>> \o <<>> = <<four(Unsaid), six(x)>>
        BY <1>1, <2>2, TwoSays
      <4>4. processAddressFamiliesDefaults(fs) = <<four(Unsaid), six(x)>>
        BY <3>2, <4>1, <4>2, <4>3 DEF processAddressFamiliesDefaults
      <4> QED
        BY <3>2, <4>4 DEF RoutingBgpFix, SortedFamilies
    <3> QED
      BY <1>2, <2>2, <3>1, <3>3
  <2> QED
    BY <1>3, <1>5, <2>3, <2>4, <2>5
<1>6. CASE /\ fs = <<fs[1], fs[2]>> /\ fs[1] \in FamilyEntry /\ fs[2] \in FamilyEntry
           /\ fs[1].name = "ipv4" /\ fs[2].name = "ipv6"
  <2> DEFINE x == fs[1].says
             y == fs[2].says
  <2>1. DOMAIN fs = {1, 2} /\ Len(fs) = 2
    BY <1>6
  <2>2. x \in Value \cup {Unsaid} /\ y \in Value \cup {Unsaid} /\ fs = <<four(x), six(y)>>
    BY <1>3, <1>6
  <2>3. StoredFamilies(fs) = <<four(x), six(y)>>
    <3>1. (CHOOSE j \in DOMAIN fs : fs[j].name \in {"ipv4", "all"}) = 1
      BY <1>6, <2>1, FamilyLookup
    <3>2. (CHOOSE j \in DOMAIN fs : fs[j].name \in {"ipv6", "all"}) = 2
      BY <1>6, <2>1, FamilyLookup
    <3> QED
      BY <1>6, <2>1, <3>1, <3>2 DEF StoredFamilies
  <2>4. RoutingBgpFix(fs) = <<four(x), six(y)>>
    <3>1. Split(fs) = fs /\ Has(fs, "ipv4") /\ Has(fs, "ipv6")
      BY <1>6, <2>1 DEF Split, Has
    <3>2. processAddressFamiliesDefaults(fs) = fs
      BY <1>1, <2>2, <3>1, TwoSays DEF processAddressFamiliesDefaults
    <3> QED
      BY <1>6, <2>2, <3>1, <3>2 DEF RoutingBgpFix, SortedFamilies
  <2> QED
    BY <1>2, <2>2, <2>3, <2>4
<1>7. CASE /\ fs = <<fs[1], fs[2]>> /\ fs[1] \in FamilyEntry /\ fs[2] \in FamilyEntry
           /\ fs[1].name = "ipv6" /\ fs[2].name = "ipv4"
  <2> DEFINE x == fs[2].says
             y == fs[1].says
  <2>1. DOMAIN fs = {1, 2} /\ Len(fs) = 2
    BY <1>7
  <2>2. x \in Value \cup {Unsaid} /\ y \in Value \cup {Unsaid} /\ fs = <<six(y), four(x)>>
    BY <1>3, <1>7
  <2>3. StoredFamilies(fs) = <<four(x), six(y)>>
    <3>1. (CHOOSE j \in DOMAIN fs : fs[j].name \in {"ipv4", "all"}) = 2
      BY <1>7, <2>1, FamilyLookup
    <3>2. (CHOOSE j \in DOMAIN fs : fs[j].name \in {"ipv6", "all"}) = 1
      BY <1>7, <2>1, FamilyLookup
    <3> QED
      BY <1>7, <2>1, <3>1, <3>2, StoredAs
  <2>4. RoutingBgpFix(fs) = <<four(x), six(y)>>
    <3>1. Split(fs) = fs /\ Has(fs, "ipv4") /\ Has(fs, "ipv6")
      BY <1>7, <2>1 DEF Split, Has
    <3>2. processAddressFamiliesDefaults(fs) = fs
      BY <1>1, <2>2, <3>1, TwoSays DEF processAddressFamiliesDefaults
    <3> QED
      BY <1>7, <2>2, <3>1, <3>2 DEF RoutingBgpFix, SortedFamilies
  <2> QED
    BY <1>2, <2>2, <2>3, <2>4
<1> QED
  BY <1>4, <1>5, <1>6, <1>7, FamilyForms

(* What is on the device is fixed and stored as it is.                     *)
LEMMA BgpStays ==
  ASSUME NEW fs \in BgpDevice
  PROVE  fs \in Seq(FamilyEntry) /\ ValidFamilies(fs) /\ StoredFamilies(fs) = fs
<1>1. fs \in Seq(FamilyEntry) /\ Len(fs) = 2 /\ fs[1].name = "ipv4" /\ fs[2].name = "ipv6"
  BY DEF BgpDevice
<1>2. DOMAIN fs = {1, 2} /\ fs = <<fs[1], fs[2]>>
  BY <1>1
<1>3. ValidFamilies(fs)
  BY <1>1, <1>2 DEF ValidFamilies
<1>4. /\ fs[1] = [name |-> "ipv4", says |-> fs[1].says]
      /\ fs[2] = [name |-> "ipv6", says |-> fs[2].says]
  <2>1. fs[1] \in FamilyEntry /\ fs[2] \in FamilyEntry
    BY <1>1, <1>2
  <2> QED
    BY <1>1, <2>1 DEF FamilyEntry
<1>5. StoredFamilies(fs) = <<fs[1], fs[2]>>
  <2>1. (CHOOSE j \in DOMAIN fs : fs[j].name \in {"ipv4", "all"}) = 1
    BY <1>1, <1>2, <1>3, FamilyLookup
  <2>2. (CHOOSE j \in DOMAIN fs : fs[j].name \in {"ipv6", "all"}) = 2
    BY <1>1, <1>2, <1>3, FamilyLookup
  <2> QED
    BY <1>1, <1>2, <1>4, <2>1, <2>2 DEF StoredFamilies
<1> QED
  BY <1>1, <1>2, <1>3, <1>5

-----------------------------------------------------------------------------
(* Firewall rules *)

Whole(refs) == TenantPrefix(refs, Len(refs))

LEMMA PrefixFacts ==
  ASSUME NEW refs \in Seq(Reference), NEW n \in Nat
  PROVE  /\ TenantPrefix(refs, n) \in Seq(Reference)
         /\ Len(TenantPrefix(refs, n)) = Len(refs)
         /\ Whole(TenantPrefix(refs, n)) = Whole(refs)
         /\ (\A i \in DOMAIN refs : i > n => refs[i].full) => TenantPrefix(refs, n) = Whole(refs)
<1> DEFINE p == TenantPrefix(refs, n)
           full(r) == [r EXCEPT !.full = TRUE]
<1>1. Len(refs) \in Nat /\ DOMAIN refs = 1 .. Len(refs)
  OBVIOUS
<1>2. \A i \in DOMAIN refs : refs[i] \in Reference
  OBVIOUS
<1>3. \A r \in Reference : /\ full(r) \in Reference /\ full(full(r)) = full(r)
                           /\ r.full => full(r) = r
  BY DEF Reference
<1>4. p = [i \in 1 .. Len(refs) |-> IF i <= n THEN full(refs[i]) ELSE refs[i]]
  BY <1>1 DEF TenantPrefix
<1> HIDE DEF full
<1>5. p \in Seq(Reference) /\ Len(p) = Len(refs) /\ DOMAIN p = DOMAIN refs
  <2>1. \A i \in 1 .. Len(refs) : p[i] \in Reference
    BY <1>1, <1>2, <1>3, <1>4
  <2>2. p \in [1 .. Len(refs) -> Reference]
    BY <1>4, <2>1
  <2> HIDE DEF p
  <2> QED
    BY <1>1, <2>2
<1>6. \A q \in Seq(Reference) : Whole(q) = [i \in DOMAIN q |-> full(q[i])]
  BY DEF Whole, TenantPrefix, full
<1>7. \A i \in DOMAIN refs : full(p[i]) = full(refs[i])
  BY <1>1, <1>2, <1>3, <1>4
<1>8. Whole(p) = Whole(refs)
  BY <1>5, <1>6, <1>7
<1>9. ASSUME \A i \in DOMAIN refs : i > n => refs[i].full
      PROVE  p = Whole(refs)
  <2>1. \A i \in DOMAIN refs : p[i] = full(refs[i])
    <3> SUFFICES ASSUME NEW i \in DOMAIN refs
                 PROVE  p[i] = full(refs[i])
      OBVIOUS
    <3>1. i <= n \/ refs[i].full
      BY <1>1, <1>9
    <3>2. p[i] = IF i <= n THEN full(refs[i]) ELSE refs[i]
      BY <1>1, <1>4
    <3> QED
      BY <1>2, <1>3, <3>1, <3>2
  <2> QED
    BY <1>1, <1>4, <1>6, <2>1
<1> QED
  BY <1>5, <1>8, <1>9

Rules == [Sides -> Seq(Reference)]

(* A rule is stored the same, fixed or not, and stays as it is stored.     *)
LEMMA RuleIsStored ==
  ASSUME NEW rule \in Rules
  PROVE  /\ FirewallRuleFix(rule) \in Rules
         /\ StoredRule(FirewallRuleFix(rule)) = StoredRule(rule)
         /\ StoredRule(rule) \in FirewallDevice
         /\ Unprefixed(rule) \/ FirewallRuleFix(rule) = StoredRule(rule)
<1> DEFINE n == Len(rule.source)
           fix == FirewallRuleFix(rule)
           stored == StoredRule(rule)
<1>1. rule.source \in Seq(Reference) /\ rule.destination \in Seq(Reference) /\ n \in Nat
  BY DEF Rules, Sides
<1>2. fix = [s \in Sides |-> TenantPrefix(rule[s], n)]
  BY DEF FirewallRuleFix, Sides
<1>3. \A s \in Sides : rule[s] \in Seq(Reference)
  BY DEF Rules
<1>4. fix \in Rules
  BY <1>1, <1>2, <1>3, PrefixFacts DEF Rules
<1>5. \A r \in Rules : StoredRule(r) = [s \in Sides |-> Whole(r[s])]
  BY DEF StoredRule, Whole
<1>6. StoredRule(fix) = stored
  <2>1. \A s \in Sides : Whole(fix[s]) = Whole(rule[s])
    BY <1>1, <1>2, <1>3, PrefixFacts
  <2> QED
    BY <1>4, <1>5, <2>1
<1>7. stored \in FirewallDevice
  <2>1. \A s \in Sides : Whole(rule[s]) \in Seq(Reference) /\ Whole(Whole(rule[s])) = Whole(rule[s])
    <3> TAKE s \in Sides
    <3>1. Len(rule[s]) \in Nat
      BY <1>3
    <3> QED
      BY <1>3, <3>1, PrefixFacts DEF Whole
  <2>2. stored \in Rules
    BY <1>5, <2>1 DEF Rules
  <2>3. StoredRule(stored) = stored
    BY <1>5, <2>1, <2>2
  <2> QED
    BY <2>2, <2>3 DEF FirewallDevice, Rules
<1>8. ASSUME ~Unprefixed(rule)
      PROVE  fix = stored
  <2>1. \A i \in DOMAIN rule.destination : i > n => rule.destination[i].full
    BY <1>8 DEF Unprefixed
  <2>2. \A i \in DOMAIN rule.source : ~(i > n)
    BY <1>1
  <2>3. /\ TenantPrefix(rule.source, n) = Whole(rule.source)
        /\ TenantPrefix(rule.destination, n) = Whole(rule.destination)
    BY <1>1, <2>1, <2>2, PrefixFacts
  <2> QED
    BY <1>2, <1>5, <2>3 DEF Sides
<1> QED
  BY <1>4, <1>6, <1>7, <1>8

-----------------------------------------------------------------------------
(* Access lists, BGP and firewall rules: what is declared is stored, what  *)
(* is left out is what it was at first, and a rollback stores what it was. *)

Ready(k, v, first, same) ==
  /\ IsDevice(k, v) /\ IsConfig(k, first) /\ Retained(k, v, first)
  /\ same \in BOOLEAN /\ (same => first = ReadOf(k, v))

LEMMA AccessOutcome ==
  ASSUME NEW v, NEW first, NEW same, Ready("access", v, first, same),
         NEW d, IsDeclaration("access", d)
  PROVE  LET o == Outcome("access", v, d, first, same)
         IN /\ IsDevice("access", o) /\ Retained("access", o, first)
            /\ IF d = Unsaid THEN o = first ELSE EntryMet(o, d)
            /\ Quiet("access", o, d, first)
<1>1. /\ v \in AccessDevice \cup {Unsaid} /\ first \in AccessDevice \cup {Unsaid}
      /\ d = Unsaid \/ d \in Entry
  BY DEF Ready, IsDevice, IsConfig, IsDeclaration
<1>2. AccessDevice \subseteq Entry /\ Unsaid \notin Entry
  BY UnsaidAssumption DEF AccessDevice
<1>3. ASSUME NEW w
      PROVE  Outcome("access", w, d, first, same) =
               LET f == IF d = Unsaid THEN first ELSE RoutingAccessListFix(d)
               IN IF f = w THEN w ELSE IF f = Unsaid THEN Unsaid ELSE StoredEntry(f)
  BY DEF Outcome, Updated, Known, Wanted, ReadFor, ReadOf, FixOf, WriteOf, ComparedOf, OriginalFor
<1>4. ASSUME NEW w
      PROVE  Quiet("access", w, d, first) <=>
               /\ Outcome("access", w, d, first, FALSE) = w
               /\ \/ d # Unsaid /\ MaskUnderBare(d)
                  \/ w = IF d = Unsaid THEN first ELSE RoutingAccessListFix(d)
  BY DEF Quiet, UnfinishedOn, NoisyOn, Wanted, ReadFor, ReadOf, FixOf, ComparedOf
<1>5. ASSUME NEW w
      PROVE  Outcome("access", w, d, first, FALSE) = Outcome("access", w, d, first, same)
  BY <1>3 DEF Outcome, Known
<1> DEFINE o == Outcome("access", v, d, first, same)
<1>6. CASE d = Unsaid
  <2>1. \A e \in AccessDevice : StoredEntry(e) = e
    BY DEF AccessDevice
  <2>2. o = first
    BY <1>1, <1>3, <1>6, <2>1
  <2>3. Outcome("access", o, d, first, same) = o
    BY <1>3, <1>6, <2>2
  <2>4. Quiet("access", o, d, first)
    BY <1>4, <1>5, <1>6, <2>2, <2>3
  <2>5. IsDevice("access", o) /\ Retained("access", o, first)
    BY <1>1, <2>2 DEF IsDevice, Retained
  <2> QED
    BY <1>6, <2>2, <2>4, <2>5
<1>7. CASE d \in Entry
  <2> DEFINE f == RoutingAccessListFix(d)
  <2>1. /\ f \in Entry /\ StoredEntry(f) \in AccessDevice /\ EntryMet(StoredEntry(f), d)
        /\ MaskUnderBare(d) \/ StoredEntry(f) = f
    BY <1>7, AccessIsStored
  <2>2. d # Unsaid /\ f # Unsaid /\ StoredEntry(f) # Unsaid
    BY <1>2, <1>7, <2>1
  <2>3. \A w \in AccessDevice \cup {Unsaid} :
          Outcome("access", w, d, first, same) = StoredEntry(f)
    <3>1. \A w \in AccessDevice : StoredEntry(w) = w
      BY DEF AccessDevice
    <3> QED
      BY <1>3, <2>2, <3>1
  <2>4. o = StoredEntry(f)
    BY <1>1, <2>3
  <2>5. Outcome("access", o, d, first, same) = o
    BY <2>1, <2>3, <2>4
  <2>6. Quiet("access", o, d, first)
    BY <1>4, <1>5, <2>1, <2>2, <2>4, <2>5
  <2>7. IsDevice("access", o) /\ Retained("access", o, first)
    BY <2>1, <2>2, <2>4 DEF IsDevice, Retained
  <2> QED
    BY <2>1, <2>2, <2>4, <2>6, <2>7
<1> QED
  BY <1>1, <1>6, <1>7

LEMMA AccessRestored ==
  ASSUME NEW v, NEW first, NEW same, Ready("access", v, first, same),
         NEW d, IsDeclaration("access", d), NEW w, IsDevice("access", w)
  PROVE  Restored("access", w, Known("access", v, d, first, same), first) = v
<1>1. /\ v \in AccessDevice \cup {Unsaid} /\ first \in AccessDevice \cup {Unsaid}
      /\ w \in AccessDevice \cup {Unsaid} /\ (v = Unsaid => first = Unsaid)
  BY DEF Ready, IsDevice, IsConfig, Retained
<1>2. AccessDevice \subseteq Entry /\ Unsaid \notin Entry
  BY UnsaidAssumption DEF AccessDevice
<1>3. Known("access", v, d, first, same) = v
  BY DEF Known, ReadFor, ReadOf
<1>4. Restored("access", w, v, first) =
        LET f == IF v = Unsaid THEN first ELSE RoutingAccessListFix(v)
        IN IF f = w THEN w ELSE IF f = Unsaid THEN Unsaid ELSE StoredEntry(f)
  BY DEF Restored, Found, Returned, Updated, ReadFor, ReadOf, FixOf, WriteOf, ComparedOf
<1>5. CASE v = Unsaid
  BY <1>1, <1>3, <1>4, <1>5
<1>6. CASE v \in AccessDevice
  <2>1. v # Unsaid /\ RoutingAccessListFix(v) # Unsaid /\ StoredEntry(RoutingAccessListFix(v)) = v
    BY <1>2, <1>6, AccessIsStored DEF AccessDevice
  <2>2. \A x \in AccessDevice : StoredEntry(x) = x
    BY DEF AccessDevice
  <2> QED
    BY <1>1, <1>3, <1>4, <2>1, <2>2
<1> QED
  BY <1>1, <1>5, <1>6

LEMMA BgpOutcome ==
  ASSUME NEW v, NEW first, NEW same, Ready("bgp", v, first, same),
         NEW d, IsDeclaration("bgp", d)
  PROVE  LET o == Outcome("bgp", v, d, first, same)
         IN /\ IsDevice("bgp", o) /\ Retained("bgp", o, first)
            /\ IF d = Unsaid THEN o = first ELSE o = StoredFamilies(d)
            /\ Quiet("bgp", o, d, first)
<1>1. /\ v \in BgpDevice \cup {Unsaid} /\ first \in BgpDevice \cup {Unsaid}
      /\ d = Unsaid \/ (d \in Seq(FamilyEntry) /\ ValidFamilies(d))
  BY DEF Ready, IsDevice, IsConfig, IsDeclaration
<1>2. BgpDevice \subseteq Seq(FamilyEntry) /\ Unsaid \notin Seq(FamilyEntry)
  BY UnsaidAssumption DEF BgpDevice
<1>3. ASSUME NEW w
      PROVE  Outcome("bgp", w, d, first, same) =
               LET f == IF d = Unsaid THEN first ELSE RoutingBgpFix(d)
               IN IF f = w THEN w ELSE IF f = Unsaid THEN Unsaid ELSE StoredFamilies(f)
  BY DEF Outcome, Updated, Known, Wanted, ReadFor, ReadOf, FixOf, WriteOf, ComparedOf, OriginalFor
<1>4. ASSUME NEW w
      PROVE  Quiet("bgp", w, d, first) <=>
               /\ Outcome("bgp", w, d, first, FALSE) = w
               /\ w = IF d = Unsaid THEN first ELSE RoutingBgpFix(d)
  BY DEF Quiet, UnfinishedOn, NoisyOn, Wanted, ReadFor, ReadOf, FixOf, ComparedOf
<1>5. ASSUME NEW w
      PROVE  Outcome("bgp", w, d, first, FALSE) = Outcome("bgp", w, d, first, same)
  BY <1>3 DEF Outcome, Known
<1> DEFINE o == Outcome("bgp", v, d, first, same)
<1>6. CASE d = Unsaid
  <2>1. \A e \in BgpDevice : StoredFamilies(e) = e
    BY BgpStays
  <2>2. o = first
    BY <1>1, <1>3, <1>6, <2>1
  <2>3. Outcome("bgp", o, d, first, same) = o
    BY <1>3, <1>6, <2>2
  <2>4. Quiet("bgp", o, d, first)
    BY <1>4, <1>5, <1>6, <2>2, <2>3
  <2>5. IsDevice("bgp", o) /\ Retained("bgp", o, first)
    BY <1>1, <2>2 DEF IsDevice, Retained
  <2> QED
    BY <1>6, <2>2, <2>4, <2>5
<1>7. CASE d \in Seq(FamilyEntry) /\ ValidFamilies(d)
  <2> DEFINE f == RoutingBgpFix(d)
  <2>1. /\ f \in Seq(FamilyEntry) /\ StoredFamilies(f) \in BgpDevice
        /\ StoredFamilies(f) = f /\ f = StoredFamilies(d)
    BY <1>7, BgpIsFixed, BgpStays
  <2>2. d # Unsaid /\ f # Unsaid /\ StoredFamilies(f) # Unsaid
    BY <1>2, <1>7, <2>1
  <2>3. \A w \in BgpDevice \cup {Unsaid} :
          Outcome("bgp", w, d, first, same) = StoredFamilies(f)
    <3>1. \A w \in BgpDevice : StoredFamilies(w) = w
      BY BgpStays
    <3> QED
      BY <1>3, <2>2, <3>1
  <2>4. o = StoredFamilies(f)
    BY <1>1, <2>3
  <2>5. Outcome("bgp", o, d, first, same) = o
    BY <2>1, <2>3, <2>4
  <2>6. Quiet("bgp", o, d, first)
    BY <1>4, <1>5, <2>1, <2>2, <2>4, <2>5
  <2>7. IsDevice("bgp", o) /\ Retained("bgp", o, first)
    BY <2>1, <2>2, <2>4 DEF IsDevice, Retained
  <2> QED
    BY <2>1, <2>2, <2>4, <2>6, <2>7
<1> QED
  BY <1>1, <1>6, <1>7

LEMMA BgpRestored ==
  ASSUME NEW v, NEW first, NEW same, Ready("bgp", v, first, same),
         NEW d, IsDeclaration("bgp", d), NEW w, IsDevice("bgp", w)
  PROVE  Restored("bgp", w, Known("bgp", v, d, first, same), first) = v
<1>1. /\ v \in BgpDevice \cup {Unsaid} /\ first \in BgpDevice \cup {Unsaid}
      /\ w \in BgpDevice \cup {Unsaid} /\ (v = Unsaid => first = Unsaid)
  BY DEF Ready, IsDevice, IsConfig, Retained
<1>2. BgpDevice \subseteq Seq(FamilyEntry) /\ Unsaid \notin Seq(FamilyEntry)
  BY UnsaidAssumption DEF BgpDevice
<1>3. Known("bgp", v, d, first, same) = v
  BY DEF Known, ReadFor, ReadOf
<1>4. Restored("bgp", w, v, first) =
        LET f == IF v = Unsaid THEN first ELSE RoutingBgpFix(v)
        IN IF f = w THEN w ELSE IF f = Unsaid THEN Unsaid ELSE StoredFamilies(f)
  BY DEF Restored, Found, Returned, Updated, ReadFor, ReadOf, FixOf, WriteOf, ComparedOf
<1>5. CASE v = Unsaid
  BY <1>1, <1>3, <1>4, <1>5
<1>6. CASE v \in BgpDevice
  <2>1. v # Unsaid /\ RoutingBgpFix(v) # Unsaid /\ StoredFamilies(RoutingBgpFix(v)) = v
    BY <1>2, <1>6, BgpIsFixed, BgpStays
  <2>2. \A x \in BgpDevice : StoredFamilies(x) = x
    BY BgpStays
  <2> QED
    BY <1>1, <1>3, <1>4, <2>1, <2>2
<1> QED
  BY <1>1, <1>5, <1>6

LEMMA FirewallOutcome ==
  ASSUME NEW v, NEW first, NEW same, Ready("firewall", v, first, same),
         NEW d, IsDeclaration("firewall", d)
  PROVE  LET o == Outcome("firewall", v, d, first, same)
         IN /\ IsDevice("firewall", o) /\ Retained("firewall", o, first)
            /\ IF d = Unsaid THEN o = first ELSE o = StoredRule(d)
            /\ Quiet("firewall", o, d, first)
<1>1. /\ v \in FirewallDevice \cup {Unsaid} /\ first \in FirewallDevice \cup {Unsaid}
      /\ d = Unsaid \/ d \in Rules
  BY DEF Ready, IsDevice, IsConfig, IsDeclaration, Rules
<1>2. FirewallDevice \subseteq Rules /\ Unsaid \notin Rules
  BY UnsaidAssumption DEF FirewallDevice, Rules
<1>3. ASSUME NEW w
      PROVE  Outcome("firewall", w, d, first, same) =
               LET f == IF d = Unsaid THEN first ELSE FirewallRuleFix(d)
               IN IF f = w THEN w ELSE IF f = Unsaid THEN Unsaid ELSE StoredRule(f)
  BY DEF Outcome, Updated, Known, Wanted, ReadFor, ReadOf, FixOf, WriteOf, ComparedOf, OriginalFor
<1>4. ASSUME NEW w
      PROVE  Quiet("firewall", w, d, first) <=>
               /\ Outcome("firewall", w, d, first, FALSE) = w
               /\ \/ d # Unsaid /\ Unprefixed(d)
                  \/ w = IF d = Unsaid THEN first ELSE FirewallRuleFix(d)
  BY DEF Quiet, UnfinishedOn, NoisyOn, Wanted, ReadFor, ReadOf, FixOf, ComparedOf
<1>5. ASSUME NEW w
      PROVE  Outcome("firewall", w, d, first, FALSE) = Outcome("firewall", w, d, first, same)
  BY <1>3 DEF Outcome, Known
<1> DEFINE o == Outcome("firewall", v, d, first, same)
<1>6. CASE d = Unsaid
  <2>1. \A e \in FirewallDevice : StoredRule(e) = e
    BY DEF FirewallDevice
  <2>2. o = first
    BY <1>1, <1>3, <1>6, <2>1
  <2>3. Outcome("firewall", o, d, first, same) = o
    BY <1>3, <1>6, <2>2
  <2>4. Quiet("firewall", o, d, first)
    BY <1>4, <1>5, <1>6, <2>2, <2>3
  <2>5. IsDevice("firewall", o) /\ Retained("firewall", o, first)
    BY <1>1, <2>2 DEF IsDevice, Retained
  <2> QED
    BY <1>6, <2>2, <2>4, <2>5
<1>7. CASE d \in Rules
  <2> DEFINE f == FirewallRuleFix(d)
  <2>1. /\ f \in Rules /\ StoredRule(f) \in FirewallDevice /\ StoredRule(f) = StoredRule(d)
        /\ Unprefixed(d) \/ StoredRule(f) = f
    BY <1>7, RuleIsStored
  <2>2. d # Unsaid /\ f # Unsaid /\ StoredRule(f) # Unsaid
    BY <1>2, <1>7, <2>1
  <2>3. \A w \in FirewallDevice \cup {Unsaid} :
          Outcome("firewall", w, d, first, same) = StoredRule(f)
    <3>1. \A w \in FirewallDevice : StoredRule(w) = w
      BY DEF FirewallDevice
    <3> QED
      BY <1>3, <2>2, <3>1
  <2>4. o = StoredRule(f)
    BY <1>1, <2>3
  <2>5. Outcome("firewall", o, d, first, same) = o
    BY <2>1, <2>3, <2>4
  <2>6. Quiet("firewall", o, d, first)
    BY <1>4, <1>5, <2>1, <2>2, <2>4, <2>5
  <2>7. IsDevice("firewall", o) /\ Retained("firewall", o, first)
    BY <2>1, <2>2, <2>4 DEF IsDevice, Retained
  <2> QED
    BY <2>1, <2>2, <2>4, <2>6, <2>7
<1> QED
  BY <1>1, <1>6, <1>7

LEMMA FirewallRestored ==
  ASSUME NEW v, NEW first, NEW same, Ready("firewall", v, first, same),
         NEW d, IsDeclaration("firewall", d), NEW w, IsDevice("firewall", w)
  PROVE  Restored("firewall", w, Known("firewall", v, d, first, same), first) = v
<1>1. /\ v \in FirewallDevice \cup {Unsaid} /\ first \in FirewallDevice \cup {Unsaid}
      /\ w \in FirewallDevice \cup {Unsaid} /\ (v = Unsaid => first = Unsaid)
  BY DEF Ready, IsDevice, IsConfig, Retained
<1>2. FirewallDevice \subseteq Rules /\ Unsaid \notin Rules
  BY UnsaidAssumption DEF FirewallDevice, Rules
<1>3. Known("firewall", v, d, first, same) = v
  BY DEF Known, ReadFor, ReadOf
<1>4. Restored("firewall", w, v, first) =
        LET f == IF v = Unsaid THEN first ELSE FirewallRuleFix(v)
        IN IF f = w THEN w ELSE IF f = Unsaid THEN Unsaid ELSE StoredRule(f)
  BY DEF Restored, Found, Returned, Updated, ReadFor, ReadOf, FixOf, WriteOf, ComparedOf
<1>5. CASE v = Unsaid
  BY <1>1, <1>3, <1>4, <1>5
<1>6. CASE v \in FirewallDevice
  <2>1. v # Unsaid /\ FirewallRuleFix(v) # Unsaid /\ StoredRule(FirewallRuleFix(v)) = v
    <3>1. v \in Rules /\ StoredRule(v) = v
      BY <1>6 DEF FirewallDevice, Rules
    <3> QED
      BY <1>2, <3>1, RuleIsStored
  <2>2. \A x \in FirewallDevice : StoredRule(x) = x
    BY DEF FirewallDevice
  <2> QED
    BY <1>1, <1>3, <1>4, <2>1, <2>2
<1> QED
  BY <1>1, <1>5, <1>6

-----------------------------------------------------------------------------
(* The web application firewall *)

WafSettings == {f \in Settings : \A s \in Setting : f[s] # Unsaid}

LEMMA WafTypes ==
  /\ \A v : v \in Waf <=> v = [virus |-> v.virus, settings |-> v.settings]
                          /\ v.virus \in Value /\ v.settings \in WafSettings
  /\ \A v \in Waf, w \in Waf : v = w <=> v.virus = w.virus /\ v.settings = w.settings
  /\ Unsaid \notin WafSettings
  BY UnsaidAssumption DEF Waf, WafSettings

(* The settings that a declaration adds to are those of a device.          *)
LEMMA AssignedFacts ==
  ASSUME NEW first \in WafSettings, NEW settings \in Settings
  PROVE  /\ Assigned(first, settings) \in WafSettings
         /\ \A s \in AnySetting : first[s] # Unsaid => Assigned(first, settings)[s] # Unsaid
  BY DEF Assigned, WafSettings, Settings, AnySetting

(* What handleSecurityWaf leaves of settings: exactly the wanted ones, if  *)
(* none is missing that was there at first, and all others were read.      *)
LEMMA WafWritten ==
  ASSUME NEW v \in Waf, NEW now, NEW goal, NEW previous,
         goal.settings \in WafSettings,
         \A s \in UserSetting : goal.settings[s] = Unsaid =>
           \/ v.settings[s] = Unsaid
           \/ now.settings[s] # Unsaid /\ previous.settings[s] = Unsaid
  PROVE  WafWrite(v, now, goal, previous)
           = [virus |-> IF goal.virus = Unsaid THEN v.virus ELSE goal.virus,
              settings |-> goal.settings]
<1> DEFINE written == [s \in AnySetting |->
                         IF goal.settings[s] # Unsaid THEN goal.settings[s]
                         ELSE IF /\ s \in UserSetting /\ now.settings[s] # Unsaid
                                 /\ previous.settings[s] = Unsaid THEN Unsaid
                         ELSE v.settings[s]]
<1>1. \A s \in AnySetting : written[s] = goal.settings[s]
  BY DEF WafSettings, Settings, AnySetting
<1>2. goal.settings = [s \in AnySetting |-> goal.settings[s]] /\ goal.settings # Unsaid
  BY WafTypes DEF WafSettings, Settings
<1>3. written = goal.settings
  BY <1>1, <1>2
<1>4. WafWrite(v, now, goal, previous)
        = [virus |-> IF goal.virus = Unsaid THEN v.virus ELSE goal.virus, settings |-> written]
  BY <1>2 DEF WafWrite
<1> QED
  BY <1>3, <1>4

(* What each declaration leaves on the device.                             *)
WafLeft(v, d, first, same) ==
  IF d = WafOmitted THEN first
  ELSE IF d.settings = Unsaid THEN [virus |-> d.virus, settings |-> v.settings]
  ELSE IF same /\ d.virus = first.virus THEN first
  ELSE [virus |-> IF d.virus = Unsaid THEN v.virus ELSE d.virus,
        settings |-> Assigned(first.settings, d.settings)]

LEMMA WafLeaves ==
  ASSUME NEW v, NEW first, NEW same, Ready("waf", v, first, same),
         NEW d, IsDeclaration("waf", d)
  PROVE  Outcome("waf", v, d, first, same) = WafLeft(v, d, first, same)
<1> DEFINE mine == OriginalAfterFix(d, first)
           now  == IF same THEN mine ELSE v
           goal == SecurityWafFix(d, first)
           o    == Outcome("waf", v, d, first, same)
<1>1. /\ v \in Waf /\ first \in Waf /\ (same => first = v) /\ same \in BOOLEAN
      /\ \A s \in AnySetting : first.settings[s] # Unsaid => v.settings[s] # Unsaid
  BY DEF Ready, IsDevice, IsConfig, Retained, ReadOf
<1>2. /\ d \in WafDeclaration /\ d.virus \in Value \cup {Unsaid}
      /\ d.settings \in Settings \cup {Unsaid}
      /\ d = [virus |-> d.virus, settings |-> d.settings]
  BY DEF IsDeclaration, WafDeclaration
<1>3. o = IF goal = now THEN v ELSE WafWrite(v, now, goal, mine)
  BY DEF Outcome, Updated, Known, Wanted, ReadFor, ReadOf, FixOf, WriteOf, ComparedOf, OriginalFor
<1>4. CASE d = WafOmitted
  <2>1. goal = first /\ mine = first
    BY <1>4 DEF SecurityWafFix, OriginalAfterFix, WafOmitted
  <2>2. CASE goal = now
    BY <1>1, <1>3, <1>4, <2>1, <2>2 DEF WafLeft
  <2>3. CASE goal # now
    <3>1. now = v
      BY <1>1, <2>1, <2>3
    <3>2. WafWrite(v, v, first, first) = first
      BY <1>1, WafTypes, WafWritten, PolicyAssumption
    <3> QED
      BY <1>3, <1>4, <2>1, <2>3, <3>1, <3>2 DEF WafLeft
  <2> QED
    BY <2>2, <2>3
<1>5. CASE d # WafOmitted /\ d.settings = Unsaid
  <2>1. goal = d /\ mine = first /\ d.virus # Unsaid
    BY <1>2, <1>5 DEF SecurityWafFix, OriginalAfterFix, WafOmitted
  <2>2. now \in Waf /\ goal # now
    BY <1>1, <1>5, <2>1, WafTypes
  <2>3. WafWrite(v, now, d, first) = [virus |-> d.virus, settings |-> v.settings]
    BY <1>5, <2>1 DEF WafWrite
  <2> QED
    BY <1>3, <1>5, <2>1, <2>2, <2>3 DEF WafLeft
<1>6. CASE d # WafOmitted /\ d.settings # Unsaid
  <2> DEFINE A == Assigned(first.settings, d.settings)
  <2>1. d.settings \in Settings /\ first.settings \in WafSettings
    BY <1>1, <1>2, <1>6, WafTypes
  <2>2. goal = [virus |-> d.virus, settings |-> A]
    BY <1>2, <1>6 DEF SecurityWafFix
  <2>3. mine = [virus |-> first.virus, settings |-> A]
    BY <1>1, <1>6, WafTypes DEF OriginalAfterFix
  <2>4. A \in WafSettings /\ \A s \in AnySetting : A[s] = Unsaid => first.settings[s] = Unsaid
    BY <2>1, AssignedFacts
  <2> HIDE DEF A
  <2>5. CASE same
    <3>1. now = mine /\ v = first
      BY <1>1, <2>5
    <3>2. CASE d.virus = first.virus
      BY <1>3, <1>6, <2>2, <2>3, <2>5, <3>1, <3>2 DEF WafLeft
    <3>3. CASE d.virus # first.virus
      <4>1. goal # now
        BY <2>2, <2>3, <3>1, <3>3
      <4>2. WafWrite(v, now, goal, mine)
              = [virus |-> IF d.virus = Unsaid THEN v.virus ELSE d.virus, settings |-> A]
        BY <1>1, <2>2, <2>4, <3>1, WafWritten DEF AnySetting
      <4> QED
        BY <1>3, <1>6, <3>3, <4>1, <4>2 DEF WafLeft, A
    <3> QED
      BY <3>2, <3>3
  <2>6. CASE ~same
    <3>1. now = v
      BY <2>6
    <3>2. CASE goal = v
      <4>1. d.virus = v.virus /\ v.settings = A /\ d.virus # Unsaid
        BY <1>1, <2>2, <3>2, WafTypes, PolicyAssumption
      <4>2. v = [virus |-> d.virus, settings |-> A]
        BY <2>2, <3>2
      <4> QED
        BY <1>3, <1>6, <2>6, <3>1, <3>2, <4>1, <4>2 DEF WafLeft, A
    <3>3. CASE goal # v
      <4>1. \A s \in UserSetting : A[s] = Unsaid =>
              \/ v.settings[s] = Unsaid
              \/ v.settings[s] # Unsaid /\ mine.settings[s] = Unsaid
        BY <2>3
      <4>2. WafWrite(v, v, goal, mine)
              = [virus |-> IF d.virus = Unsaid THEN v.virus ELSE d.virus, settings |-> A]
        BY <1>1, <2>2, <2>4, <4>1, WafWritten
      <4> QED
        BY <1>3, <1>6, <2>6, <3>1, <3>3, <4>2 DEF WafLeft, A
    <3> QED
      BY <3>2, <3>3
  <2> QED
    BY <1>1, <2>5, <2>6
<1> QED
  BY <1>4, <1>5, <1>6

LEMMA WafOutcome ==
  ASSUME NEW v, NEW first, NEW same, Ready("waf", v, first, same),
         NEW d, IsDeclaration("waf", d)
  PROVE  LET o == Outcome("waf", v, d, first, same)
         IN /\ IsDevice("waf", o) /\ Retained("waf", o, first)
            /\ same \/ WafMet(o, d, first)
            /\ Quiet("waf", o, d, first)
<1> DEFINE o == Outcome("waf", v, d, first, same)
           A == Assigned(first.settings, d.settings)
<1>1. /\ v \in Waf /\ first \in Waf /\ (same => first = v) /\ same \in BOOLEAN
      /\ \A s \in AnySetting : first.settings[s] # Unsaid => v.settings[s] # Unsaid
  BY DEF Ready, IsDevice, IsConfig, Retained, ReadOf
<1>2. /\ d.virus \in Value \cup {Unsaid} /\ d.settings \in Settings \cup {Unsaid}
      /\ d = [virus |-> d.virus, settings |-> d.settings]
  BY DEF IsDeclaration, WafDeclaration
<1>3. d.settings # Unsaid =>
        /\ A \in WafSettings
        /\ \A s \in AnySetting : first.settings[s] # Unsaid => A[s] # Unsaid
  BY <1>1, <1>2, AssignedFacts, WafTypes
<1>4. o = WafLeft(v, d, first, same)
  BY WafLeaves
<1>5. o \in Waf
  BY <1>1, <1>2, <1>3, <1>4, WafTypes DEF WafLeft, WafOmitted
<1>6. \A s \in AnySetting : first.settings[s] # Unsaid => o.settings[s] # Unsaid
  BY <1>1, <1>2, <1>3, <1>4 DEF WafLeft
<1>7. same \/ WafMet(o, d, first)
  BY <1>1, <1>2, <1>4 DEF WafLeft, WafMet, WafOmitted
<1>8. Quiet("waf", o, d, first)
  <2> SUFFICES ASSUME WafMet(o, d, first)
               PROVE  /\ Outcome("waf", o, d, first, FALSE) = o
                      /\ HalfSaid(d) \/ SecurityWafFix(d, first) = o
    BY DEF Quiet, UnfinishedOn, NoisyOn, Wanted, ReadFor, ReadOf, FixOf, ComparedOf
  <2>1. Ready("waf", o, first, FALSE)
    BY <1>5, <1>6 DEF Ready, IsDevice, IsConfig, Retained
  <2>2. Outcome("waf", o, d, first, FALSE) = WafLeft(o, d, first, FALSE)
    BY <2>1, WafLeaves
  <2>3. o = [virus |-> o.virus, settings |-> o.settings]
    BY <1>5, WafTypes
  <2>4. first = [virus |-> first.virus, settings |-> first.settings]
    BY <1>1, WafTypes
  <2>5. CASE d = WafOmitted
    BY <2>2, <2>3, <2>4, <2>5 DEF WafLeft, WafMet, SecurityWafFix, WafOmitted
  <2>6. CASE d # WafOmitted /\ d.settings = Unsaid
    <3>1. d.virus # Unsaid
      BY <1>2, <2>6 DEF WafOmitted
    <3> QED
      BY <2>2, <2>3, <2>6, <3>1 DEF WafLeft, WafMet, HalfSaid
  <2>7. CASE d # WafOmitted /\ d.settings # Unsaid
    <3>1. o.settings = A /\ (d.virus # Unsaid => o.virus = d.virus)
      BY <2>7 DEF WafMet
    <3>2. WafLeft(o, d, first, FALSE) = o
      BY <2>3, <2>7, <3>1 DEF WafLeft
    <3>3. d.virus # Unsaid => SecurityWafFix(d, first) = o
      BY <1>2, <2>3, <2>7, <3>1 DEF SecurityWafFix
    <3> QED
      BY <2>2, <2>7, <3>2, <3>3 DEF HalfSaid
  <2> QED
    BY <2>5, <2>6, <2>7
<1> QED
  BY <1>5, <1>6, <1>7, <1>8 DEF IsDevice, Retained

LEMMA WafRestored ==
  ASSUME NEW v, NEW first, NEW same, Ready("waf", v, first, same),
         NEW d, IsDeclaration("waf", d), NEW w, IsDevice("waf", w)
  PROVE  LET r == Restored("waf", w, Known("waf", v, d, first, same), first)
         IN /\ IsDevice("waf", r) /\ Retained("waf", r, first)
            /\ r = v \/ (same /\ d.settings # Unsaid)
<1> DEFINE known == Known("waf", v, d, first, same)
           r == Restored("waf", w, known, first)
<1>1. /\ v \in Waf /\ first \in Waf /\ w \in Waf /\ (same => first = v) /\ same \in BOOLEAN
      /\ \A s \in AnySetting : first.settings[s] # Unsaid => v.settings[s] # Unsaid
  BY DEF Ready, IsDevice, IsConfig, Retained, ReadOf
<1>2. d.settings \in Settings \cup {Unsaid}
  BY DEF IsDeclaration, WafDeclaration
<1>3. known = IF same THEN OriginalAfterFix(d, first) ELSE v
  BY DEF Known, ReadFor, ReadOf, OriginalFor
<1>4. /\ known \in Waf
      /\ \A s \in AnySetting : first.settings[s] # Unsaid => known.settings[s] # Unsaid
  <2>1. CASE ~same \/ d.settings = Unsaid
    BY <1>1, <1>3, <2>1 DEF OriginalAfterFix
  <2>2. CASE same /\ d.settings # Unsaid
    <3> DEFINE A == Assigned(first.settings, d.settings)
    <3>1. /\ A \in WafSettings
          /\ \A s \in AnySetting : first.settings[s] # Unsaid => A[s] # Unsaid
      BY <1>1, <1>2, <2>2, AssignedFacts, WafTypes
    <3>2. OriginalAfterFix(d, first) = [virus |-> first.virus, settings |-> A]
      BY <1>1, <2>2, WafTypes DEF OriginalAfterFix
    <3>3. known = [virus |-> first.virus, settings |-> A]
      BY <1>3, <2>2, <3>2
    <3> HIDE DEF A, known
    <3> QED
      BY <1>1, <3>1, <3>3, WafTypes
  <2> QED
    BY <2>1, <2>2
<1>5. r = known
  <2> HIDE DEF known
  <2>1. r = IF known = w THEN w ELSE WafWrite(w, w, known, first)
    BY DEF Restored, Found, Returned, Updated, ReadFor, ReadOf, FixOf, WriteOf, ComparedOf
  <2>2. WafWrite(w, w, known, first) = known
    BY <1>1, <1>4, WafTypes, WafWritten, PolicyAssumption DEF AnySetting
  <2> QED
    BY <2>1, <2>2
<1>6. known = v \/ (same /\ d.settings # Unsaid)
  BY <1>1, <1>3 DEF OriginalAfterFix
<1> QED
  BY <1>4, <1>5, <1>6 DEF IsDevice, Retained

-----------------------------------------------------------------------------
(* Authentication *)

AuthRecord == [source: Source, users: Secret, radius: BOOLEAN, servers: Servers \cup {Unsaid},
               ldap: {Unsaid, "none", "file"}, file: Certificate \cup {Unsaid}]

LEMMA AuthEqual ==
  ASSUME NEW v \in AuthRecord, NEW w \in AuthRecord,
         v.source = w.source, v.users = w.users, v.radius = w.radius,
         v.servers = w.servers, v.ldap = w.ldap, v.file = w.file
  PROVE  v = w
  BY DEF AuthRecord

LEMMA AuthReads ==
  ASSUME NEW v \in AuthDevice
  PROVE  /\ AuthRead(v) \in AuthConfig /\ v \in AuthRecord
         /\ AuthRead(v).source = v.source /\ AuthRead(v).users = v.users
         /\ v.servers = Unsaid => AuthRead(v).radius = Unsaid
         /\ v.servers # Unsaid => /\ AuthRead(v).radius # Unsaid
                                  /\ AuthRead(v).radius.type = v.radius
                                  /\ AuthRead(v).radius.servers = v.servers
         /\ v.ldap = "file" => AuthRead(v).ldap = v.file /\ v.file \in Certificate
         /\ v.ldap # "file" => AuthRead(v).ldap = v.ldap
         /\ v.radius => v.servers # Unsaid
<1>1. v \in AuthRecord /\ (v.radius => v.servers # Unsaid) /\ (v.ldap = "file" => v.file # Unsaid)
  BY DEF AuthDevice, AuthRecord
<1>2. v.ldap \in {Unsaid, "none", "file"} /\ v.file \in Certificate \cup {Unsaid}
  BY <1>1 DEF AuthRecord
<1>3. v.servers # Unsaid => [type |-> v.radius, servers |-> v.servers] \in Radius
  BY <1>1 DEF AuthRecord, Radius
<1>4. AuthRead(v) \in AuthConfig
  BY <1>1, <1>2, <1>3 DEF AuthRead, AuthConfig, AuthRecord
<1>5. v.servers # Unsaid => [type |-> v.radius, servers |-> v.servers] # Unsaid
  BY <1>3, AuthAssumption
<1> QED
  BY <1>1, <1>2, <1>4, <1>5 DEF AuthRead

(* What the handlers leave, part by part.                                  *)
LEMMA AuthUpdated ==
  ASSUME NEW v \in AuthDevice, NEW f \in AuthConfig, NEW data \in BOOLEAN,
         ~LdapRefused(v, f, data)
  PROVE  LET o == IF f = AuthRead(v) THEN v ELSE AuthWrite(v, AuthRead(v), f, data)
         IN /\ o \in AuthDevice
            /\ o.source = f.source /\ o.users = f.users
            /\ f.radius = Unsaid => ~o.radius /\ o.servers = v.servers
            /\ f.radius # Unsaid => o.servers = f.radius.servers /\ (f.radius.type => o.radius)
            /\ o.ldap = IF f.ldap \in Certificate THEN "file" ELSE f.ldap
            /\ f.ldap \in Certificate => o.file = IF data THEN f.ldap ELSE
                                                  IF f = AuthRead(v) THEN f.ldap ELSE v.file
            /\ f.ldap = "none" => o.file = v.file
            /\ f.ldap = Unsaid => o.file = IF v.ldap = Unsaid THEN v.file ELSE Unsaid
<1> DEFINE now == AuthRead(v)
<1>1. v \in AuthRecord /\ (v.radius => v.servers # Unsaid) /\ (v.ldap = "file" => v.file # Unsaid)
  BY DEF AuthDevice, AuthRecord
<1>2. /\ v.ldap \in {Unsaid, "none", "file"} /\ v.file \in Certificate \cup {Unsaid}
      /\ v.radius \in BOOLEAN /\ v.servers \in Servers \cup {Unsaid}
  BY <1>1 DEF AuthRecord
<1>3. /\ f.source \in Source /\ f.users \in Secret /\ f.radius \in Radius \cup {Unsaid}
      /\ f.ldap \in Certificate \cup {"none", Unsaid}
  BY DEF AuthConfig
<1>4. f.radius # Unsaid => f.radius.servers \in Servers /\ f.radius.type \in BOOLEAN
  BY <1>3 DEF Radius
<1>5. now.radius = Unsaid <=> v.servers = Unsaid
  BY AuthReads
<1>6. now.ldap = Unsaid <=> v.ldap = Unsaid
  BY <1>2, AuthReads, AuthAssumption
<1>7. CASE f = now
  BY <1>1, <1>2, <1>3, <1>7, AuthReads, AuthAssumption
<1>8. CASE f # now
  <2> DEFINE basic == [v EXCEPT !.source = f.source, !.users = f.users]
             radius == IF f.radius # Unsaid \/ now.radius # Unsaid THEN RadiusWrite(basic, f)
                       ELSE basic
             ldap == IF f.ldap # Unsaid \/ now.ldap # Unsaid THEN LdapWrite(radius, f, data)
                     ELSE radius
  <2>1. AuthWrite(v, now, f, data) = ldap
    BY DEF AuthWrite
  <2>2. /\ basic \in AuthRecord /\ basic.source = f.source /\ basic.users = f.users
        /\ basic.radius = v.radius /\ basic.servers = v.servers
        /\ basic.ldap = v.ldap /\ basic.file = v.file
    BY <1>1, <1>3 DEF AuthRecord
  <2> HIDE DEF basic
  <2>3. /\ radius \in AuthRecord /\ radius.source = f.source /\ radius.users = f.users
        /\ radius.ldap = v.ldap /\ radius.file = v.file
        /\ f.radius = Unsaid => ~radius.radius /\ radius.servers = v.servers
        /\ f.radius # Unsaid => radius.servers = f.radius.servers /\ radius.radius
    <3>1. CASE f.radius # Unsaid
      <4>1. radius = [basic EXCEPT !.radius = TRUE, !.servers = f.radius.servers]
        BY <3>1 DEF RadiusWrite
      <4> QED
        BY <1>4, <2>2, <3>1, <4>1 DEF AuthRecord
    <3>2. CASE f.radius = Unsaid /\ now.radius # Unsaid
      <4>1. radius = [basic EXCEPT !.radius = FALSE]
        BY <3>2 DEF RadiusWrite
      <4> QED
        BY <2>2, <3>2, <4>1 DEF AuthRecord
    <3>3. CASE f.radius = Unsaid /\ now.radius = Unsaid
      <4>1. radius = basic
        BY <3>3
      <4> QED
        BY <1>1, <1>5, <2>2, <3>3, <4>1
    <3> QED
      BY <3>1, <3>2, <3>3
  <2> HIDE DEF radius
  <2>4. /\ ldap \in AuthRecord /\ ldap.source = f.source /\ ldap.users = f.users
        /\ ldap.radius = radius.radius /\ ldap.servers = radius.servers
        /\ ldap.ldap = IF f.ldap \in Certificate THEN "file" ELSE f.ldap
        /\ f.ldap \in Certificate => ldap.file = IF data THEN f.ldap ELSE v.file
        /\ f.ldap = "none" => ldap.file = v.file
        /\ f.ldap = Unsaid => ldap.file = IF v.ldap = Unsaid THEN v.file ELSE Unsaid
    <3>1. CASE f.ldap \in Certificate
      <4>1. ldap = [radius EXCEPT !.ldap = "file", !.file = IF data THEN f.ldap ELSE @]
        BY <3>1, AuthAssumption DEF LdapWrite
      <4> QED
        BY <2>3, <3>1, <4>1, AuthAssumption DEF AuthRecord
    <3>2. CASE f.ldap = "none"
      <4>1. ldap = [radius EXCEPT !.ldap = "none"]
        BY <3>2, AuthAssumption DEF LdapWrite
      <4> QED
        BY <2>3, <3>2, <4>1, AuthAssumption DEF AuthRecord
    <3>3. CASE f.ldap = Unsaid /\ now.ldap # Unsaid
      <4>1. ldap = [radius EXCEPT !.ldap = Unsaid, !.file = Unsaid]
        BY <3>3 DEF LdapWrite
      <4> QED
        BY <1>6, <2>3, <3>3, <4>1, AuthAssumption DEF AuthRecord
    <3>4. CASE f.ldap = Unsaid /\ now.ldap = Unsaid
      <4>1. ldap = radius
        BY <3>4
      <4> QED
        BY <1>6, <2>3, <3>4, <4>1, AuthAssumption
    <3> QED
      BY <1>3, <3>1, <3>2, <3>3, <3>4
  <2> HIDE DEF ldap
  <2>5. ldap.radius => ldap.servers # Unsaid
    BY <1>4, <2>3, <2>4, AuthAssumption
  <2>6. ldap.ldap = "file" => ldap.file # Unsaid
    <3>1. f.ldap \in Certificate /\ ~data => v.file # Unsaid
      BY DEF LdapRefused
    <3> QED
      BY <1>3, <2>4, <3>1, AuthAssumption
  <2>7. ldap \in AuthDevice
    BY <2>4, <2>5, <2>6 DEF AuthDevice, AuthRecord
  <2> QED
    BY <1>8, <2>1, <2>3, <2>4, <2>7
<1> QED
  BY <1>7, <1>8

(* What a declaration of authentication wants, where nothing else was      *)
(* there before the first one.                                             *)
LEMMA AuthFixed ==
  ASSUME NEW first \in AuthConfig, NEW d, IsDeclaration("auth", d)
  PROVE  LET f == AuthFix(d, first)
         IN /\ f \in AuthConfig
            /\ d = Unsaid => f = first
            /\ d # Unsaid => f.ldap = d.ldap
            /\ Plain("auth", first) =>
                 /\ f.radius # Unsaid => f.radius.type /\ f.radius.servers \in Servers
                 /\ f.ldap \in Certificate => d # Unsaid /\ f.ldap = d.ldap
<1>1. /\ Plain("auth", first) =>
           first.ldap \notin Certificate /\ (first.radius # Unsaid => first.radius.type)
      /\ first.users \in Secret /\ first.radius \in Radius \cup {Unsaid}
  BY DEF Plain, AuthConfig
<1>2. CASE d = Unsaid
  BY <1>1, <1>2 DEF AuthFix, Radius
<1>3. CASE d # Unsaid
  <2> DEFINE f == AuthFix(d, first)
  <2>1. d \in [source: Source, users: Secret \cup {Unsaid},
               radius: [type: {TRUE}, servers: Servers] \cup {Unsaid},
               ldap: Certificate \cup {"none", Unsaid}]
    BY <1>3 DEF IsDeclaration, AuthDeclarations
  <2>2. f = [d EXCEPT !.users = IF @ = Unsaid THEN first.users ELSE @]
    BY <1>3 DEF AuthFix
  <2>3. /\ f.source \in Source /\ f.users \in Secret /\ f.ldap = d.ldap /\ f.radius = d.radius
        /\ f = [source |-> f.source, users |-> f.users, radius |-> f.radius, ldap |-> f.ldap]
    BY <1>1, <2>1, <2>2
  <2>4. d.radius # Unsaid => d.radius \in Radius /\ d.radius.type /\ d.radius.servers \in Servers
    BY <2>1 DEF Radius
  <2>5. d.ldap \in Certificate \cup {"none", Unsaid}
    BY <2>1
  <2> HIDE DEF f
  <2>6. f \in AuthConfig
    BY <2>3, <2>4, <2>5 DEF AuthConfig
  <2> QED
    BY <1>3, <2>3, <2>4, <2>6 DEF f
<1> QED
  BY <1>2, <1>3

(* What a task leaves, whatever was there before the first declaration.    *)
LEMMA AuthLeaves ==
  ASSUME NEW v, NEW first, NEW same, Ready("auth", v, first, same),
         NEW d, IsDeclaration("auth", d),
         ~Refused("auth", v, Wanted("auth", v, d, first), d # Unsaid)
  PROVE  LET o == Outcome("auth", v, d, first, same)
         IN /\ IsDevice("auth", o) /\ Retained("auth", o, first)
            /\ v.ldap = "file" /\ o.file # v.file =>
                 o.file = Unsaid \/ (d # Unsaid /\ o.file = d.ldap)
<1> DEFINE o == Outcome("auth", v, d, first, same)
           f == AuthFix(d, first)
           data == d # Unsaid
           left == IF f = AuthRead(v) THEN v ELSE AuthWrite(v, AuthRead(v), f, data)
<1>1. v \in AuthDevice /\ first \in AuthConfig /\ (first.radius # Unsaid => v.servers # Unsaid)
  BY DEF Ready, IsDevice, IsConfig, Retained
<1>2. /\ f \in AuthConfig
      /\ data => f.ldap = d.ldap
      /\ ~data => f = first
  BY <1>1, AuthFixed
<1>3. o = left
  BY DEF Outcome, Updated, Known, Wanted, ReadFor, ReadOf, FixOf, WriteOf, ComparedOf
<1>4. ~LdapRefused(v, f, data)
  BY DEF Refused, Wanted, FixOf
<1>5. data \in BOOLEAN
  OBVIOUS
<1> HIDE DEF f
<1>6. /\ left \in AuthDevice
      /\ f.radius = Unsaid => left.servers = v.servers
      /\ f.radius # Unsaid => left.servers = f.radius.servers
      /\ f.ldap \in Certificate => left.file = IF data THEN f.ldap ELSE
                                               IF f = AuthRead(v) THEN f.ldap ELSE v.file
      /\ f.ldap = "none" => left.file = v.file
      /\ f.ldap = Unsaid => left.file = IF v.ldap = Unsaid THEN v.file ELSE Unsaid
  <2> HIDE DEF data
  <2> QED
    BY <1>1, <1>2, <1>4, <1>5, AuthUpdated
<1>7. /\ f.ldap \in Certificate \cup {"none", Unsaid} /\ f.radius \in Radius \cup {Unsaid}
      /\ f.radius # Unsaid => f.radius.servers \in Servers
  BY <1>2 DEF AuthConfig, Radius
<1>8. v.ldap = "file" /\ f = AuthRead(v) => f.ldap = v.file
  BY <1>1, AuthReads
<1> HIDE DEF left, data
<1>9. first.radius # Unsaid => left.servers # Unsaid
  BY <1>1, <1>6, <1>7, AuthAssumption
<1>10. v.ldap = "file" /\ left.file # v.file =>
         left.file = Unsaid \/ (data /\ left.file = d.ldap)
  BY <1>2, <1>6, <1>7, <1>8
<1> QED
  BY <1>3, <1>6, <1>9, <1>10 DEF o, data, IsDevice, Retained

LEMMA AuthOutcome ==
  ASSUME NEW v, NEW first, NEW same, Ready("auth", v, first, same), Plain("auth", first),
         NEW d, IsDeclaration("auth", d)
  PROVE  LET o == Outcome("auth", v, d, first, same)
         IN AuthMet(o, d, first) /\ Quiet("auth", o, d, first)
<1> DEFINE o == Outcome("auth", v, d, first, same)
           f == AuthFix(d, first)
           data == d # Unsaid
           left(w) == IF f = AuthRead(w) THEN w ELSE AuthWrite(w, AuthRead(w), f, data)
<1>1. v \in AuthDevice /\ first \in AuthConfig /\ (first.radius # Unsaid => v.servers # Unsaid)
  BY DEF Ready, IsDevice, IsConfig, Retained
<1>2. /\ f \in AuthConfig
      /\ f.radius # Unsaid => f.radius.type /\ f.radius.servers \in Servers
      /\ f.ldap \in Certificate => data /\ f.ldap = d.ldap
  BY <1>1, AuthFixed
<1>3. f.ldap \in Certificate \cup {"none", Unsaid} /\ f.radius \in Radius \cup {Unsaid}
  BY <1>2 DEF AuthConfig
<1>4. \A w : Outcome("auth", w, d, first, same) = left(w)
               /\ Outcome("auth", w, d, first, FALSE) = left(w)
  BY DEF Outcome, Updated, Known, Wanted, ReadFor, ReadOf, FixOf, WriteOf, ComparedOf
<1>5. \A w : ~LdapRefused(w, f, data)
  BY <1>2 DEF LdapRefused
<1> HIDE DEF f
<1>6. ASSUME NEW w \in AuthDevice
      PROVE  LET p == left(w)
             IN /\ p \in AuthDevice
                /\ p.source = f.source /\ p.users = f.users
                /\ f.radius = Unsaid => ~p.radius /\ p.servers = w.servers
                /\ f.radius # Unsaid => p.servers = f.radius.servers /\ p.radius
                /\ p.ldap = IF f.ldap \in Certificate THEN "file" ELSE f.ldap
                /\ f.ldap \in Certificate => p.file = f.ldap
                /\ f.ldap = "none" => p.file = w.file
                /\ f.ldap = Unsaid => p.file = IF w.ldap = Unsaid THEN w.file ELSE Unsaid
  <2>1. data \in BOOLEAN
    OBVIOUS
  <2> HIDE DEF data
  <2>2. /\ left(w) \in AuthDevice
        /\ left(w).source = f.source /\ left(w).users = f.users
        /\ f.radius = Unsaid => ~left(w).radius /\ left(w).servers = w.servers
        /\ f.radius # Unsaid =>
             left(w).servers = f.radius.servers /\ (f.radius.type => left(w).radius)
        /\ left(w).ldap = IF f.ldap \in Certificate THEN "file" ELSE f.ldap
        /\ f.ldap \in Certificate =>
             left(w).file = IF data THEN f.ldap ELSE
                            IF f = AuthRead(w) THEN f.ldap ELSE w.file
        /\ f.ldap = "none" => left(w).file = w.file
        /\ f.ldap = Unsaid => left(w).file = IF w.ldap = Unsaid THEN w.file ELSE Unsaid
    BY <1>2, <1>5, <1>6, <2>1, AuthUpdated
  <2> HIDE DEF left
  <2> QED
    BY <1>2, <2>2
<1> HIDE DEF left, data
<1>7. o = left(v) /\ o \in AuthDevice
  BY <1>1, <1>4, <1>6
<1> HIDE DEF o
<1>8. AuthMet(o, d, first)
  <2>1. AuthRead(o).source = f.source /\ AuthRead(o).users = f.users
    BY <1>1, <1>6, <1>7, AuthReads
  <2>2. AuthRead(o).ldap = f.ldap
    BY <1>1, <1>3, <1>6, <1>7, AuthReads, AuthAssumption
  <2>3. o.radius = (f.radius # Unsaid /\ f.radius.type)
    <3>1. o.radius \in BOOLEAN /\ (f.radius # Unsaid => f.radius.type = TRUE)
      BY <1>2, <1>3, <1>7 DEF AuthDevice, Radius
    <3> QED
      BY <1>1, <1>2, <1>6, <1>7, <3>1
  <2>4. o.radius => o.servers = f.radius.servers
    BY <1>1, <1>6, <1>7
  <2> QED
    BY <2>1, <2>2, <2>3, <2>4 DEF AuthMet, f
<1>9. Quiet("auth", o, d, first)
  <2>1. left(o) = o
    <3> DEFINE p == left(o)
    <3>1. p \in AuthRecord /\ o \in AuthRecord
      BY <1>6, <1>7, AuthReads
    <3>2. /\ p.source = o.source /\ p.users = o.users /\ p.servers = o.servers
          /\ p.ldap = o.ldap /\ p.file = o.file
      BY <1>1, <1>3, <1>6, <1>7, AuthAssumption
    <3>3. p.radius = o.radius
      <4>1. p.radius \in BOOLEAN /\ o.radius \in BOOLEAN
        BY <3>1 DEF AuthRecord
      <4> QED
        BY <1>1, <1>6, <1>7, <4>1
    <3> HIDE DEF p
    <3> QED
      BY <3>1, <3>2, <3>3, AuthEqual DEF p
  <2>2. RadiusServersStay(o) \/ f = AuthRead(o)
    <3> SUFFICES ASSUME o.servers = Unsaid \/ o.radius
                 PROVE  f = AuthRead(o)
      BY DEF RadiusServersStay
    <3> DEFINE r == AuthRead(o)
    <3>1. r \in AuthConfig /\ r.source = f.source /\ r.users = f.users /\ r.ldap = f.ldap
      BY <1>1, <1>3, <1>6, <1>7, AuthReads, AuthAssumption
    <3>2. r.radius = f.radius
      <4>1. CASE f.radius = Unsaid
        <5>1. o.servers = Unsaid
          BY <1>1, <1>6, <1>7, <4>1
        <5> QED
          BY <1>7, <4>1, <5>1, AuthReads
      <4>2. CASE f.radius # Unsaid
        <5>1. o.servers = f.radius.servers /\ o.servers # Unsaid /\ o.radius
          BY <1>1, <1>2, <1>6, <1>7, <4>2, AuthAssumption
        <5>2. r.radius # Unsaid /\ r.radius.type = o.radius /\ r.radius.servers = o.servers
          BY <1>7, <5>1, AuthReads
        <5>3. r.radius \in Radius /\ f.radius \in Radius
          BY <1>3, <3>1, <4>2, <5>2 DEF AuthConfig
        <5>4. r.radius.type = f.radius.type
          BY <1>2, <4>2, <5>1, <5>2, <5>3 DEF Radius
        <5> QED
          BY <5>1, <5>2, <5>3, <5>4 DEF Radius
      <4> QED
        BY <4>1, <4>2
    <3> HIDE DEF r
    <3>3. r = f
      BY <1>2, <3>1, <3>2 DEF AuthConfig
    <3> QED
      BY <3>3 DEF r
  <2>3. /\ Outcome("auth", o, d, first, FALSE) = o
        /\ NoisyOn("auth", o, d) \/ f = AuthRead(o)
    BY <1>4, <2>1, <2>2 DEF NoisyOn
  <2> QED
    BY <2>3 DEF Quiet, Wanted, ReadFor, ReadOf, FixOf, ComparedOf, f
<1> QED
  BY <1>8, <1>9 DEF o

LEMMA AuthReturns ==
  ASSUME NEW v, NEW first, NEW same, Ready("auth", v, first, same),
         NEW d, IsDeclaration("auth", d),
         NEW w, \/ w = v
                \/ /\ w = Outcome("auth", v, d, first, same)
                   /\ ~Refused("auth", v, Wanted("auth", v, d, first), d # Unsaid),
         NEW known, known = Known("auth", v, d, first, same),
         ~Refused("auth", w, Returned("auth", w, known, first), FALSE)
  PROVE  LET r == Restored("auth", w, known, first)
         IN /\ IsDevice("auth", r) /\ Retained("auth", r, first)
            /\ AuthRestored(r, v, d)
<1> DEFINE r == Restored("auth", w, known, first)
           f == AuthRead(v)
           left == IF f = AuthRead(w) THEN w ELSE AuthWrite(w, AuthRead(w), f, FALSE)
<1>1. v \in AuthDevice /\ (first.radius # Unsaid => v.servers # Unsaid) /\ f \in AuthConfig
  BY AuthReads DEF Ready, IsDevice, Retained
<1>2. /\ w \in AuthDevice /\ (first.radius # Unsaid => w.servers # Unsaid)
      /\ v.ldap = "file" /\ w.file # v.file => w.file = Unsaid \/ (d # Unsaid /\ w.file = d.ldap)
  BY <1>1, AuthLeaves DEF IsDevice, Retained
<1>3. Returned("auth", w, known, first) = f
  <2>1. f # Unsaid
    BY <1>1, AuthAssumption
  <2>2. f.users # Unsaid
    BY <1>1, AuthAssumption DEF AuthConfig
  <2>3. known = f
    BY DEF Known, ReadFor, ReadOf
  <2>4. AuthFix(f, first) = [f EXCEPT !.users = f.users]
    BY <2>1, <2>2 DEF AuthFix
  <2>5. [f EXCEPT !.users = f.users] = f
    <3> HIDE DEF f
    <3> QED
      BY <1>1 DEF AuthConfig
  <2> HIDE DEF f
  <2> QED
    BY <2>3, <2>4, <2>5 DEF Returned, FixOf
<1>4. ~LdapRefused(w, f, FALSE)
  BY <1>3 DEF Refused
<1>5. r = left
  <2> HIDE DEF f
  <2> QED
    BY <1>3 DEF Restored, Found, Updated, ComparedOf, WriteOf, ReadFor, ReadOf
<1>6. /\ left \in AuthDevice
      /\ left.source = f.source /\ left.users = f.users
      /\ f.radius = Unsaid => ~left.radius /\ left.servers = w.servers
      /\ f.radius # Unsaid => left.servers = f.radius.servers /\ (f.radius.type => left.radius)
      /\ left.ldap = IF f.ldap \in Certificate THEN "file" ELSE f.ldap
      /\ f.ldap \in Certificate => left.file = IF f = AuthRead(w) THEN f.ldap ELSE w.file
  <2> HIDE DEF f
  <2> QED
    BY <1>1, <1>2, <1>4, AuthUpdated
<1> HIDE DEF left, r
<1>7. /\ f.source = v.source /\ f.users = v.users
      /\ v.servers = Unsaid => f.radius = Unsaid
      /\ v.servers # Unsaid => /\ f.radius # Unsaid /\ f.radius.type = v.radius
                               /\ f.radius.servers = v.servers
      /\ v.ldap = "file" => f.ldap = v.file /\ v.file \in Certificate
      /\ v.ldap # "file" => f.ldap = v.ldap
      /\ v.radius => v.servers # Unsaid
      /\ v.ldap \in {Unsaid, "none", "file"} /\ v.radius \in BOOLEAN
  BY <1>1, AuthReads DEF AuthRecord
<1>8. f.ldap \in Certificate /\ w.file = Unsaid => FALSE
  BY <1>4 DEF LdapRefused
<1>9. f.radius # Unsaid => f.radius.servers \in Servers
  BY <1>1 DEF AuthConfig, Radius
<1>10. left.radius \in BOOLEAN
  BY <1>6 DEF AuthDevice
<1> HIDE DEF f
<1>11. left.source = v.source /\ left.users = v.users
  BY <1>6, <1>7
<1>12. left.ldap = v.ldap
  BY <1>6, <1>7, AuthAssumption
<1>13. left.radius = v.radius \/ RadiusServersStay(v)
  BY <1>6, <1>7, <1>10 DEF RadiusServersStay
<1>14. v.radius => left.servers = v.servers
  BY <1>6, <1>7
<1>15. v.ldap = "file" => left.file = v.file \/ (d # Unsaid /\ left.file = d.ldap)
  BY <1>2, <1>6, <1>7, <1>8
<1>16. first.radius # Unsaid => left.servers # Unsaid
  BY <1>1, <1>6, <1>7
<1> QED
  BY <1>5, <1>6, <1>11, <1>12, <1>13, <1>14, <1>15, <1>16
  DEF r, IsDevice, Retained, AuthRestored

-----------------------------------------------------------------------------
(* The management interface *)

ManagementRecord == [dhcp: BOOLEAN, host: Host, ip: StaticIp \cup {Leased}, routes: SUBSET Route]

(* What is wanted of it, and what is read of a device, without the setting *)
(* of DHCP or with it.                                                     *)
ManagementWant ==
  [system: SystemClass, ip: StaticIp \cup {Leased}, routes: SUBSET Route, kept: BOOLEAN]

ManagementSeen(v, without) ==
  [system |-> [host |-> v.host, mgmt |-> IF without THEN Unsaid ELSE v.dhcp,
               preserve |-> v.dhcp],
   ip |-> v.ip, routes |-> v.routes]

ManagementLeft(v, without, goal) ==
  LET now == ManagementSeen(v, without)
  IN IF Compared(goal) = now THEN v ELSE ManagementWrite(v, now, goal)

LEMMA ManagementRecords ==
  ASSUME NEW v \in ManagementDevice
  PROVE  /\ v \in ManagementRecord
         /\ v = [dhcp |-> v.dhcp, host |-> v.host, ip |-> v.ip, routes |-> v.routes]
         /\ v.dhcp \in BOOLEAN /\ v.host \in Host /\ v.routes \subseteq Route
         /\ v.ip \in StaticIp \cup {Leased} /\ (v.dhcp => v.ip = Leased)
<1>1. v \in ManagementRecord /\ (v.dhcp => v.ip = Leased)
  BY DEF ManagementDevice, ManagementRecord
<1> QED
  BY <1>1 DEF ManagementRecord

(* The setting that the handlers arrive at.                                *)
LEMMA ManagementLease ==
  ASSUME NEW v \in ManagementDevice, NEW without \in BOOLEAN, NEW goal \in ManagementWant
  PROVE  LET D == handleManagementDhcp(ManagementSeen(v, without), goal)
             same == /\ goal.system.host = v.host /\ goal.system.preserve = v.dhcp
                     /\ goal.system.mgmt = IF without THEN Unsaid ELSE v.dhcp
         IN /\ D \in BOOLEAN
            /\ ~same /\ goal.system.mgmt # Unsaid => D = goal.system.mgmt
            /\ same \/ goal.system.mgmt = Unsaid =>
                 (D <=> /\ IF goal.ip # v.ip THEN goal.ip = Leased ELSE v.dhcp
                        /\ IF goal.routes \ v.routes # {} THEN goal.kept ELSE v.dhcp)
<1> DEFINE now == ManagementSeen(v, without)
           D == handleManagementDhcp(now, goal)
           same == /\ goal.system.host = v.host /\ goal.system.preserve = v.dhcp
                   /\ goal.system.mgmt = IF without THEN Unsaid ELSE v.dhcp
<1>1. /\ v.dhcp \in BOOLEAN /\ goal.system \in SystemClass /\ goal.kept \in BOOLEAN
      /\ goal.system.mgmt \in BOOLEAN \cup {Unsaid}
  BY ManagementRecords DEF ManagementWant, SystemClass
<1>2. (goal.system = now.system) <=> same
  BY <1>1 DEF SystemClass, ManagementSeen
<1>3. now.ip = v.ip /\ now.routes = v.routes /\ now.system.preserve = v.dhcp
  BY DEF ManagementSeen
<1> HIDE DEF now, same
<1>4. D = IF goal.system # now.system /\ goal.system.mgmt # Unsaid THEN goal.system.mgmt
          ELSE /\ IF goal.ip # v.ip THEN goal.ip = Leased ELSE v.dhcp
               /\ IF goal.routes \ v.routes # {} THEN goal.kept ELSE v.dhcp
  BY <1>3 DEF handleManagementDhcp, getDesiredMgmtIpDhcpSetting, getDesiredMgmtRouteDhcpSetting
<1> HIDE DEF D
<1>5. CASE ~same /\ goal.system.mgmt # Unsaid
  BY <1>1, <1>2, <1>4, <1>5 DEF D, same, now
<1>6. CASE same \/ goal.system.mgmt = Unsaid
  <2> DEFINE C == /\ IF goal.ip # v.ip THEN goal.ip = Leased ELSE v.dhcp
                  /\ IF goal.routes \ v.routes # {} THEN goal.kept ELSE v.dhcp
  <2>1. D = C
    BY <1>2, <1>4, <1>6
  <2>2. C \in BOOLEAN
    OBVIOUS
  <2> HIDE DEF C
  <2>3. D \in BOOLEAN /\ (D <=> C)
    BY <2>1, <2>2
  <2> QED
    BY <1>6, <2>3 DEF D, same, now, C
<1> QED
  BY <1>5, <1>6

LEMMA ManagementLeaves ==
  ASSUME NEW v \in ManagementDevice, NEW without \in BOOLEAN, NEW goal \in ManagementWant
  PROVE  LET o == ManagementLeft(v, without, goal)
             D == handleManagementDhcp(ManagementSeen(v, without), goal)
         IN /\ o \in ManagementDevice
            /\ o = [dhcp |-> D, host |-> goal.system.host, ip |-> IF D THEN Leased ELSE goal.ip,
                    routes |-> goal.routes]
<1> DEFINE now == ManagementSeen(v, without)
           D == handleManagementDhcp(now, goal)
           o == ManagementLeft(v, without, goal)
           p == [dhcp |-> D, host |-> goal.system.host, ip |-> IF D THEN Leased ELSE goal.ip,
                 routes |-> goal.routes]
<1>1. D \in BOOLEAN
  BY ManagementLease
<1>2. /\ goal.system.host \in Host /\ goal.ip \in StaticIp \cup {Leased}
      /\ goal.routes \subseteq Route
  BY DEF ManagementWant, SystemClass
<1>3. p \in ManagementDevice
  <2> HIDE DEF D
  <2> QED
    BY <1>1, <1>2 DEF ManagementDevice
<1>4. CASE Compared(goal) = now
  <2>1. /\ goal.system.host = v.host /\ goal.system.preserve = v.dhcp
        /\ goal.system.mgmt = IF without THEN Unsaid ELSE v.dhcp
        /\ goal.ip = v.ip /\ goal.routes = v.routes
    BY <1>4 DEF Compared, ManagementSeen
  <2>2. D <=> v.dhcp
    BY <2>1, ManagementLease
  <2>3. D = v.dhcp
    BY <1>1, <2>2, ManagementRecords
  <2> HIDE DEF D
  <2>4. p = v
    BY <2>1, <2>3, ManagementRecords
  <2>5. o = v
    BY <1>4 DEF ManagementLeft
  <2> QED
    BY <1>3, <2>4, <2>5 DEF D
<1>5. CASE Compared(goal) # now
  <2>1. o = ManagementWrite(v, now, goal)
    BY <1>5 DEF ManagementLeft
  <2>2. now.ip = v.ip
    BY DEF ManagementSeen
  <2> HIDE DEF now
  <2>3. o = p
    BY <2>1, <2>2 DEF ManagementWrite
  <2> QED
    BY <1>3, <2>3 DEF now
<1> QED
  BY <1>4, <1>5

(* The declared parts of what is wanted.                                   *)
LEMMA ManagementFixed ==
  ASSUME NEW first \in ManagementConfig, NEW d, NEW system \in SystemClass,
         d.system \in SystemClass \cup {Unsaid}, d.hostname \in Host \cup {Unsaid},
         d.ip \in StaticIp \cup {Leased, Unsaid}, d.routes \subseteq Route,
         system = IF d.system = Unsaid THEN first.system ELSE d.system,
         d.system # Unsaid => d.hostname = Unsaid
  PROVE  LET goal == ManagementFix(d, first)
         IN /\ goal \in ManagementWant
            /\ d.system # Unsaid => goal.system = d.system
            /\ goal.system.mgmt = system.mgmt /\ goal.system.preserve = system.preserve
            /\ goal.ip = IF d.ip = Unsaid THEN first.ip ELSE d.ip
            /\ goal.kept <=> /\ first.routes # {} /\ system.preserve
            /\ d.routes \subseteq goal.routes
            /\ d.routes = {} => goal.routes = first.routes
            /\ d.routes # {} => goal.routes \subseteq
                 d.routes \cup IF goal.kept THEN first.routes \cap LeaseRoute ELSE {}
            /\ system.preserve => first.routes \cap LeaseRoute \subseteq goal.routes
<1> DEFINE goal == ManagementFix(d, first)
           routes == IF d.routes = {} THEN first.routes ELSE d.routes
           kept == first.routes # {} /\ routes # {} /\ system.preserve
           named == IF d.hostname = Unsaid THEN system ELSE [system EXCEPT !.host = d.hostname]
           all == IF kept THEN routes \cup (first.routes \cap LeaseRoute) ELSE routes
<1>1. first.ip \in StaticIp \cup {Leased} /\ first.routes \subseteq Route
  BY DEF ManagementConfig
<1>2. goal = [system |-> named, ip |-> IF d.ip = Unsaid THEN first.ip ELSE d.ip,
              routes |-> all, kept |-> kept]
  BY DEF ManagementFix
<1>3. /\ named \in SystemClass /\ named.mgmt = system.mgmt /\ named.preserve = system.preserve
      /\ d.system # Unsaid => named = d.system
  BY DEF SystemClass
<1>4. kept \in BOOLEAN /\ (kept <=> first.routes # {} /\ system.preserve)
  OBVIOUS
<1>5. /\ all \subseteq Route /\ d.routes \subseteq all
      /\ d.routes = {} => all = first.routes
      /\ d.routes # {} => all \subseteq
           d.routes \cup IF kept THEN first.routes \cap LeaseRoute ELSE {}
      /\ system.preserve => first.routes \cap LeaseRoute \subseteq all
  BY <1>1
<1> HIDE DEF kept, all, named, routes
<1>6. goal \in ManagementWant
  BY <1>1, <1>2, <1>3, <1>4, <1>5 DEF ManagementWant
<1>7. /\ goal.system = named /\ goal.ip = IF d.ip = Unsaid THEN first.ip ELSE d.ip
      /\ goal.routes = all /\ goal.kept = kept
  BY <1>2
<1> HIDE DEF goal
<1> QED
  BY <1>3, <1>4, <1>5, <1>6, <1>7 DEF goal

LEMMA ManagementOutcome ==
  ASSUME NEW v, NEW first, NEW same, Ready("management", v, first, same),
         NEW d, IsDeclaration("management", d)
  PROVE  LET o == Outcome("management", v, d, first, same)
         IN /\ IsDevice("management", o) /\ Retained("management", o, first)
            /\ ManagementMet(o, d, first)
            /\ Quiet("management", o, d, first)
            /\ d.system # Unsaid /\ d.system.mgmt = Unsaid /\ o.dhcp /\ ~v.dhcp => v.ip # Leased
<1> DEFINE o == Outcome("management", v, d, first, same)
           goal == ManagementFix(d, first)
           without == d.system # Unsaid /\ d.system.mgmt = Unsaid
           system == IF d.system = Unsaid THEN first.system ELSE d.system
           lease(w) == handleManagementDhcp(ManagementSeen(w, without), goal)
<1>1. /\ v \in ManagementDevice /\ first \in ManagementConfig /\ d \in ManagementDeclarations
      /\ first.routes # {} => v.routes # {}
  BY DEF Ready, IsDevice, IsConfig, Retained, IsDeclaration
<1>2. /\ d.system \in SystemClass \cup {Unsaid} /\ d.hostname \in Host \cup {Unsaid}
      /\ d.ip \in StaticIp \cup {Unsaid} /\ d.routes \subseteq Route
      /\ d.system # Unsaid =>
           d.hostname = Unsaid /\ (d.system.mgmt = Unsaid \/ d.system.mgmt = d.system.preserve)
  BY <1>1 DEF ManagementDeclarations
<1>3. /\ first.system \in SystemClass /\ first.system.mgmt \in BOOLEAN
      /\ first.system.mgmt = first.system.preserve
      /\ first.system.mgmt => first.ip = Leased
      /\ first.ip \in StaticIp \cup {Leased}
  BY <1>1 DEF ManagementConfig, SystemClass
<1>4. system \in SystemClass
  BY <1>2, <1>3
<1>5. /\ goal \in ManagementWant
      /\ d.system # Unsaid => goal.system = d.system
      /\ goal.system.mgmt = system.mgmt /\ goal.system.preserve = system.preserve
      /\ goal.ip = IF d.ip = Unsaid THEN first.ip ELSE d.ip
      /\ goal.kept <=> first.routes # {} /\ system.preserve
      /\ d.routes \subseteq goal.routes
      /\ d.routes = {} => goal.routes = first.routes
      /\ d.routes # {} => goal.routes \subseteq
           d.routes \cup IF goal.kept THEN first.routes \cap LeaseRoute ELSE {}
      /\ system.preserve => first.routes \cap LeaseRoute \subseteq goal.routes
  BY <1>1, <1>2, <1>4, ManagementFixed
<1>6. /\ system.mgmt = Unsaid \/ (system.mgmt \in BOOLEAN /\ system.mgmt = system.preserve)
      /\ system.preserve \in BOOLEAN
      /\ system.mgmt = Unsaid <=> without
  BY <1>2, <1>3, <1>4, ManagementAssumption DEF SystemClass
<1>7. without \in BOOLEAN
  OBVIOUS
<1>8. \A w : /\ Outcome("management", w, d, first, same) = ManagementLeft(w, without, goal)
             /\ Outcome("management", w, d, first, FALSE) = ManagementLeft(w, without, goal)
             /\ ReadFor("management", ReadOf("management", w), d) = ManagementSeen(w, without)
  <2>1. ASSUME NEW w
        PROVE  WithoutMgmt(ManagementRead(w), d) = ManagementSeen(w, without)
    BY DEF WithoutMgmt, ManagementRead, ManagementSeen
  <2> HIDE DEF without, goal
  <2> QED
    BY <2>1 DEF Outcome, Updated, Known, Wanted, ReadFor, ReadOf, FixOf, WriteOf, ComparedOf,
       ManagementLeft, goal
<1>9. /\ o \in ManagementDevice /\ lease(v) \in BOOLEAN
      /\ o.dhcp = lease(v) /\ o.host = goal.system.host
      /\ o.ip = IF lease(v) THEN Leased ELSE goal.ip
      /\ o.routes = goal.routes
  <2> HIDE DEF goal, without
  <2>1. o = ManagementLeft(v, without, goal) /\ lease(v) \in BOOLEAN
    BY <1>1, <1>5, <1>7, <1>8, ManagementLease
  <2> HIDE DEF o
  <2> QED
    BY <1>1, <1>5, <1>7, <2>1, ManagementLeaves
<1>10. ASSUME NEW w \in ManagementDevice
       PROVE  LET agree == /\ goal.system.host = w.host /\ goal.system.preserve = w.dhcp
                           /\ goal.system.mgmt = IF without THEN Unsaid ELSE w.dhcp
              IN /\ w.dhcp \in BOOLEAN /\ (w.dhcp => w.ip = Leased)
                 /\ ~agree /\ ~without => lease(w) = system.mgmt
                 /\ agree \/ without =>
                      (lease(w) <=> /\ IF goal.ip # w.ip THEN goal.ip = Leased ELSE w.dhcp
                                    /\ IF goal.routes \ w.routes # {} THEN goal.kept
                                                                      ELSE w.dhcp)
  <2> HIDE DEF goal, system
  <2>1. goal.system.mgmt # Unsaid <=> ~without
    BY <1>5, <1>6
  <2> HIDE DEF without
  <2> QED
    BY <1>5, <1>7, <1>10, <2>1, ManagementLease, ManagementRecords
<1> DEFINE calm == system.mgmt = TRUE => goal.ip = Leased /\ (d.routes # {} => first.routes # {})
<1>11. ASSUME NEW w \in ManagementDevice, ~without, calm
       PROVE  lease(w) = system.mgmt
  <2> DEFINE agree == /\ goal.system.host = w.host /\ goal.system.preserve = w.dhcp
                      /\ goal.system.mgmt = w.dhcp
  <2>1. /\ system.mgmt \in BOOLEAN /\ system.mgmt = system.preserve
        /\ goal.kept <=> first.routes # {} /\ system.mgmt
        /\ lease(w) \in BOOLEAN
    <3> HIDE DEF goal, system, without
    <3>1. lease(w) \in BOOLEAN
      BY <1>5, <1>7, <1>11, ManagementLease
    <3> QED
      BY <1>5, <1>6, <1>11, <3>1
  <2>2. CASE ~agree
    BY <1>10, <1>11, <2>2
  <2>3. CASE agree
    <3>1. w.dhcp = system.mgmt /\ (w.dhcp => w.ip = Leased)
      BY <1>5, <1>10, <1>11, <2>3
    <3>2. lease(w) <=> /\ IF goal.ip # w.ip THEN goal.ip = Leased ELSE w.dhcp
                       /\ IF goal.routes \ w.routes # {} THEN goal.kept ELSE w.dhcp
      BY <1>10, <1>11, <2>3
    <3>3. system.mgmt /\ goal.routes # {} => goal.kept
      BY <1>5, <1>11, <2>1
    <3> HIDE DEF goal, system, lease, agree
    <3>4. CASE system.mgmt = TRUE
      <4>1. goal.ip = Leased /\ w.ip = Leased /\ w.dhcp
        BY <1>11, <3>1, <3>4
      <4>2. lease(w)
        BY <3>2, <3>3, <3>4, <4>1
      <4> QED
        BY <2>1, <3>4, <4>2
    <3>5. CASE system.mgmt = FALSE
      <4>1. ~lease(w)
        BY <2>1, <3>1, <3>2, <3>5
      <4> QED
        BY <2>1, <3>5, <4>1
    <3> QED
      BY <2>1, <3>4, <3>5
  <2> QED
    BY <2>2, <2>3
<1>12. ~LeaseReturns(d, first) /\ ~LeaseGivenUp(d, first) => calm
  BY <1>2, <1>3, <1>5 DEF LeaseReturns, LeaseGivenUp
<1>13. ManagementMet(o, d, first)
  <2> HIDE DEF o, goal, lease
  <2>1. ASSUME d.ip # Unsaid, ~LeaseReturns(d, first),
               ~(d.system # Unsaid /\ d.system.mgmt = TRUE)
        PROVE  o.ip = d.ip
    <3>1. goal.ip = d.ip /\ d.ip # Leased
      BY <1>2, <1>5, <2>1, ManagementAssumption
    <3>2. ~lease(v)
      <4>1. CASE ~without
        <5>1. system.mgmt = FALSE
          BY <1>3, <1>6, <2>1, <4>1 DEF LeaseReturns
        <5> QED
          BY <1>1, <1>11, <4>1, <5>1
      <4>2. CASE without
        BY <1>1, <1>10, <3>1, <4>2
      <4> QED
        BY <4>1, <4>2
    <3> QED
      BY <1>9, <3>1, <3>2
  <2>2. d.routes # {} => d.routes \subseteq o.routes
    BY <1>5, <1>9
  <2>3. ASSUME d.system # Unsaid
        PROVE  /\ o.host = d.system.host
               /\ d.system.preserve => first.routes \cap LeaseRoute \subseteq o.routes
    BY <1>5, <1>9, <2>3
  <2>4. ASSUME d.system # Unsaid, d.system.mgmt # Unsaid, ~LeaseGivenUp(d, first)
        PROVE  o.dhcp = d.system.mgmt
    <3>1. ~without /\ calm
      BY <1>12, <2>4 DEF LeaseReturns
    <3> QED
      BY <1>1, <1>9, <1>11, <2>4, <3>1
  <2>5. ASSUME d.system # Unsaid, d.routes # {}, ~d.system.preserve
        PROVE  o.routes = d.routes
    <3>1. ~goal.kept
      BY <1>5, <2>5
    <3> QED
      BY <1>5, <1>9, <2>5, <3>1
  <2> QED
    BY <2>1, <2>2, <2>3, <2>4, <2>5 DEF ManagementMet
<1>14. ASSUME ~LeaseReturns(d, first), ~LeaseGivenUp(d, first)
       PROVE  /\ Outcome("management", o, d, first, FALSE) = o
              /\ PreserveDiffers(d, o) \/ Compared(goal) = ManagementSeen(o, without)
  <2> DEFINE p == ManagementLeft(o, without, goal)
  <2>1. calm
    BY <1>12, <1>14
  <2>2. o.dhcp = lease(v) /\ o.dhcp \in BOOLEAN /\ (o.dhcp => o.ip = Leased)
    BY <1>9
  <2>3. o.dhcp => goal.ip = Leased
    <3> HIDE DEF goal, lease, o, system
    <3>1. CASE ~without
      <4>1. o.dhcp = system.mgmt
        BY <1>1, <1>11, <2>1, <2>2, <3>1
      <4> QED
        BY <2>1, <2>2, <4>1
    <3>2. CASE without
      BY <1>1, <1>10, <2>2, <3>2
    <3> QED
      BY <3>1, <3>2
  <2>4. o.ip = goal.ip /\ o.routes = goal.routes /\ o.host = goal.system.host
    BY <1>9, <2>3
  <2>5. ~without => o.dhcp = goal.system.mgmt /\ o.dhcp = goal.system.preserve
    <3> HIDE DEF goal, lease, o
    <3> QED
      BY <1>1, <1>5, <1>6, <1>11, <2>1, <2>2
  <2>6. lease(o) = o.dhcp
    <3>1. lease(o) \in BOOLEAN
      <4> HIDE DEF goal, without, o
      <4> QED
        BY <1>5, <1>7, <1>9, ManagementLease
    <3>2. lease(o) <=> /\ IF goal.ip # o.ip THEN goal.ip = Leased ELSE o.dhcp
                       /\ IF goal.routes \ o.routes # {} THEN goal.kept ELSE o.dhcp
      <4> HIDE DEF goal, lease, o
      <4> QED
        BY <1>9, <1>10, <2>4, <2>5
    <3> HIDE DEF lease, goal, o
    <3> QED
      BY <2>2, <2>4, <3>1, <3>2
  <2>7. p = o
    <3> HIDE DEF goal, o, without
    <3>1. p = [dhcp |-> lease(o), host |-> goal.system.host,
               ip |-> IF lease(o) THEN Leased ELSE goal.ip, routes |-> goal.routes]
      BY <1>5, <1>7, <1>9, ManagementLeaves
    <3>2. o = [dhcp |-> o.dhcp, host |-> o.host, ip |-> o.ip, routes |-> o.routes]
      BY <1>9, ManagementRecords
    <3> HIDE DEF p, lease
    <3> QED
      BY <2>2, <2>3, <2>4, <2>6, <3>1, <3>2
  <2>8. PreserveDiffers(d, o) \/ Compared(goal) = ManagementSeen(o, without)
    <3> SUFFICES ASSUME ~PreserveDiffers(d, o)
                 PROVE  Compared(goal) = ManagementSeen(o, without)
      OBVIOUS
    <3>1. goal.system.preserve = o.dhcp
      BY <1>5, <2>5 DEF PreserveDiffers
    <3>2. goal.system.mgmt = IF without THEN Unsaid ELSE o.dhcp
      <4> HIDE DEF goal, o, system
      <4> QED
        BY <1>5, <1>6, <2>5
    <3>3. goal.system = [host |-> o.host, mgmt |-> IF without THEN Unsaid ELSE o.dhcp,
                         preserve |-> o.dhcp]
      <4>1. goal.system \in SystemClass
        BY <1>5 DEF ManagementWant
      <4> HIDE DEF goal, o, without
      <4> QED
        BY <2>4, <3>1, <3>2, <4>1 DEF SystemClass
    <3> HIDE DEF goal, o, without
    <3> QED
      BY <2>4, <3>3 DEF Compared, ManagementSeen
  <2> QED
    BY <1>8, <2>7, <2>8
<1>15. Quiet("management", o, d, first)
  BY <1>8, <1>14
  DEF Quiet, UnfinishedOn, NoisyOn, Wanted, FixOf, ComparedOf
<1>16. ASSUME without, o.dhcp, ~v.dhcp
       PROVE  v.ip # Leased
  <2> HIDE DEF goal, lease, o
  <2> QED
    BY <1>1, <1>9, <1>10, <1>16
<1>17. Retained("management", o, first)
  BY <1>1, <1>5, <1>9 DEF Retained
<1>18. IsDevice("management", o)
  BY <1>9 DEF IsDevice
<1> QED
  BY <1>13, <1>15, <1>16, <1>17, <1>18 DEF o

LEMMA ManagementReturns ==
  ASSUME NEW v, NEW first, NEW same, Ready("management", v, first, same),
         NEW d, IsDeclaration("management", d),
         NEW w \in {v, Outcome("management", v, d, first, same)},
         NEW known, known = Known("management", v, d, first, same)
  PROVE  LET r == Restored("management", w, known, first)
         IN /\ IsDevice("management", r) /\ Retained("management", r, first)
            /\ ManagementRestored(r, v, d, first)
<1> DEFINE r == Restored("management", w, known, first)
           without == d.system # Unsaid /\ d.system.mgmt = Unsaid
           e == AsDeclaration(known)
           goal == ManagementFix(e, first)
           lease == handleManagementDhcp(ManagementSeen(w, without), goal)
<1>1. /\ v \in ManagementDevice /\ first \in ManagementConfig
      /\ first.routes # {} => v.routes # {}
  BY DEF Ready, IsDevice, IsConfig, Retained
<1>2. w \in ManagementDevice
  BY <1>1, ManagementOutcome DEF IsDevice
<1>3. without /\ w.dhcp /\ ~v.dhcp => v.ip # Leased
  BY ManagementOutcome
<1>4. known = ManagementSeen(v, without)
  BY DEF Known, ReadFor, ReadOf, WithoutMgmt, ManagementRead, ManagementSeen
<1>5. /\ v.dhcp \in BOOLEAN /\ v.host \in Host /\ v.routes \subseteq Route
      /\ v.ip \in StaticIp \cup {Leased} /\ (v.dhcp => v.ip = Leased)
      /\ w.dhcp \in BOOLEAN /\ (w.dhcp => w.ip = Leased)
  BY <1>1, <1>2, ManagementRecords
<1>6. /\ e.system = [host |-> v.host, mgmt |-> IF without THEN Unsaid ELSE v.dhcp,
                     preserve |-> v.dhcp]
      /\ e.hostname = Unsaid /\ e.ip = v.ip /\ e.routes = v.routes
  BY <1>4 DEF AsDeclaration, ManagementSeen
<1> HIDE DEF e
<1>7. /\ e.system \in SystemClass /\ e.system # Unsaid /\ e.system.host = v.host
      /\ e.system.preserve = v.dhcp /\ e.system.mgmt = IF without THEN Unsaid ELSE v.dhcp
  BY <1>5, <1>6, ManagementAssumption DEF SystemClass
<1>8. /\ goal \in ManagementWant /\ goal.system = e.system
      /\ goal.ip = v.ip
      /\ goal.kept <=> first.routes # {} /\ v.dhcp
      /\ v.routes \subseteq goal.routes
      /\ v.routes = {} => goal.routes = first.routes
      /\ v.routes # {} => goal.routes \subseteq
           v.routes \cup IF goal.kept THEN first.routes \cap LeaseRoute ELSE {}
  <2>1. e.ip # Unsaid
    BY <1>5, <1>6, ManagementAssumption
  <2> QED
    BY <1>1, <1>5, <1>6, <1>7, <2>1, ManagementFixed
<1>9. r = ManagementLeft(w, without, goal)
  <2>1. known.system.mgmt = Unsaid <=> without
    BY <1>4, <1>5, ManagementAssumption DEF ManagementSeen
  <2>2. known.system # Unsaid
    BY <1>6, <1>7 DEF AsDeclaration, e
  <2>3. WithoutMgmt(ManagementRead(w), known) = ManagementSeen(w, without)
    <3> HIDE DEF without
    <3> QED
      BY <2>1, <2>2 DEF WithoutMgmt, ManagementRead, ManagementSeen
  <2> HIDE DEF without
  <2> QED
    BY <2>3 DEF Restored, Found, Returned, Updated, ReadFor, ReadOf, FixOf, WriteOf, ComparedOf,
       ManagementLeft, e
<1>10. without \in BOOLEAN
  OBVIOUS
<1> HIDE DEF goal
<1>11. /\ r \in ManagementDevice /\ lease \in BOOLEAN
       /\ r = [dhcp |-> lease, host |-> goal.system.host,
               ip |-> IF lease THEN Leased ELSE goal.ip, routes |-> goal.routes]
  <2> HIDE DEF without, r
  <2> DEFINE p == ManagementLeft(w, without, goal)
  <2>1. lease \in BOOLEAN
    BY <1>2, <1>8, <1>10, ManagementLease
  <2>2. /\ p \in ManagementDevice
        /\ p = [dhcp |-> lease, host |-> goal.system.host,
                ip |-> IF lease THEN Leased ELSE goal.ip, routes |-> goal.routes]
    BY <1>2, <1>8, <1>10, ManagementLeaves
  <2> HIDE DEF lease
  <2> QED
    BY <1>9, <2>1, <2>2
<1>12. LET agree == v.host = w.host /\ v.dhcp = w.dhcp
       IN /\ ~agree /\ ~without => lease = v.dhcp
          /\ agree \/ without =>
               (lease <=> /\ IF v.ip # w.ip THEN v.ip = Leased ELSE w.dhcp
                          /\ IF goal.routes \ w.routes # {} THEN goal.kept ELSE w.dhcp)
  <2>1. goal.system.mgmt # Unsaid <=> ~without
    BY <1>5, <1>7, <1>8, ManagementAssumption
  <2> HIDE DEF without
  <2> QED
    BY <1>2, <1>7, <1>8, <1>10, <2>1, ManagementLease
<1> HIDE DEF lease, r, without
<1>13. r.host = v.host /\ r.routes = goal.routes /\ r.dhcp = lease
  BY <1>7, <1>8, <1>11
<1>14. r.ip = v.ip
  <2>1. lease => v.ip = Leased
    BY <1>5, <1>12
  <2> QED
    BY <1>8, <1>11, <2>1
<1>15. /\ v.routes \subseteq r.routes
       /\ r.routes \ v.routes \subseteq IF v.dhcp THEN first.routes \cap LeaseRoute ELSE {}
  BY <1>1, <1>8, <1>13
<1>16. lease => v.dhcp
  BY <1>3, <1>5, <1>8, <1>12
<1>17. v.dhcp /\ ~lease => without \/ (v.routes # {} /\ first.routes = {})
  <2> SUFFICES ASSUME v.dhcp, ~lease, ~without
               PROVE  v.routes # {} /\ first.routes = {}
    OBVIOUS
  <2>1. w.dhcp /\ v.ip = Leased /\ w.ip = Leased
    BY <1>5, <1>12
  <2>2. goal.routes \ w.routes # {} /\ ~goal.kept
    BY <1>5, <1>12, <2>1
  <2>3. first.routes = {}
    BY <1>8, <2>2
  <2> QED
    BY <1>8, <2>2, <2>3
<1>18. Retained("management", r, first)
  BY <1>1, <1>8, <1>13 DEF Retained
<1>19. ManagementRestored(r, v, d, first)
  BY <1>13, <1>14, <1>15, <1>16, <1>17 DEF ManagementRestored, without
<1> QED
  BY <1>11, <1>18, <1>19 DEF IsDevice, r

-----------------------------------------------------------------------------
(* Route domains *)

LEMMA SmallestIndex ==
  ASSUME NEW n \in Nat, NEW T, T \subseteq 1 .. n, T # {}
  PROVE  \E x \in T : \A y \in T : x <= y
<1> DEFINE S == 1 .. n
           U == {1 .. i : i \in T}
<1>1. IsFiniteSet(S)
  BY FS_Interval
<1>2. U \subseteq FiniteSubsetsOf(S) /\ U # {}
  <2>1. \A X \in U : X \subseteq S
    OBVIOUS
  <2>2. U # {}
    OBVIOUS
  <2> HIDE DEF S, U
  <2>3. U \subseteq SUBSET S
    BY <2>1
  <2> QED
    BY <1>1, <2>2, <2>3, FS_FiniteSubsetsOfFinite
<1>3. PICK X \in U : \A Y \in U : <<Y, X>> \notin StrictSubsetOrdering(S)
  <2> HIDE DEF U, S
  <2> QED
    BY <1>2, FS_StrictSubsetOrderingWellFounded, WFMin
<1>4. PICK x \in T : X = 1 .. x
  OBVIOUS
<1>5. ASSUME NEW y \in T, ~(x <= y)
      PROVE  FALSE
  <2>1. x \in Nat /\ y \in Nat /\ y < x /\ x <= n /\ x >= 1
    BY <1>5
  <2>2. (1 .. y) \subseteq (1 .. x) /\ 1 .. y # 1 .. x /\ (1 .. x) \subseteq S
    <3>1. x \in 1 .. x /\ x \notin 1 .. y
      BY <2>1
    <3>2. (1 .. y) \subseteq (1 .. x) /\ (1 .. x) \subseteq S
      BY <2>1
    <3> QED
      BY <3>1, <3>2
  <2>3. 1 .. y \in U
    OBVIOUS
  <2> HIDE DEF U, S
  <2> QED
    BY <1>3, <1>4, <2>2, <2>3 DEF StrictSubsetOrdering
<1> QED
  BY <1>5

(* The first domain that lists a VLAN, as FirstToList chooses it.          *)
IsFirst(v, lists, r) ==
  /\ v \in lists[r]
  /\ \A s \in DOMAIN lists : v \in lists[s] => s = r \/ Before(r, s)

LEMMA FirstFacts ==
  ASSUME NEW lists, DOMAIN lists \subseteq Domain, NEW v,
         NEW r \in DOMAIN lists, v \in lists[r]
  PROVE  LET f == FirstToList(v, lists)
         IN /\ f \in DOMAIN lists /\ IsFirst(v, lists, f)
            /\ \A s \in DOMAIN lists : IsFirst(v, lists, s) => s = f
<1> DEFINE n == Len(Domains)
           T == {i \in 1 .. n : Domains[i] \in DOMAIN lists /\ v \in lists[Domains[i]]}
<1>1. /\ n \in Nat /\ DOMAIN Domains = 1 .. n
      /\ \A i, j \in 1 .. n : i # j => Domains[i] # Domains[j]
      /\ \A s \in Domain : \E i \in 1 .. n : Domains[i] = s
  BY RouteDomainAssumption DEF Domain, ToSet
<1>2. T \subseteq 1 .. n /\ T # {}
  BY <1>1
<1>3. PICK i \in T : \A j \in T : i <= j
  <2> HIDE DEF T, n
  <2> QED
    BY <1>1, <1>2, SmallestIndex
<1>4. Domains[i] \in DOMAIN lists /\ IsFirst(v, lists, Domains[i])
  <2>1. ASSUME NEW s \in DOMAIN lists, v \in lists[s]
        PROVE  s = Domains[i] \/ Before(Domains[i], s)
    <3>1. PICK j \in 1 .. n : Domains[j] = s
      BY <1>1
    <3>2. j \in T
      BY <2>1, <3>1
    <3>3. i = j \/ i < j
      BY <1>1, <1>3, <3>2
    <3> QED
      BY <1>1, <3>1, <3>3 DEF Before
  <2> QED
    BY <2>1 DEF IsFirst
<1>5. FirstToList(v, lists) \in DOMAIN lists /\ IsFirst(v, lists, FirstToList(v, lists))
  BY <1>4 DEF FirstToList, IsFirst
<1>6. ASSUME NEW p \in DOMAIN lists, NEW q \in DOMAIN lists,
             IsFirst(v, lists, p), IsFirst(v, lists, q)
      PROVE  p = q
  <2>1. Before(p, q) /\ Before(q, p) => FALSE
    BY <1>1 DEF Before
  <2> QED
    BY <1>6, <2>1 DEF IsFirst
<1> QED
  BY <1>5, <1>6

LEMMA DefaultIsFirst ==
  /\ Default \in Domain
  /\ \A r \in Domain : r = Default \/ Before(Default, r)
  /\ \A r \in Domain : ~Before(r, Default)
<1>1. /\ Len(Domains) \in Nat /\ DOMAIN Domains = 1 .. Len(Domains) /\ Len(Domains) # 0
      /\ Default = Domains[1]
  BY RouteDomainAssumption DEF Default
<1>2. \A r \in Domain : \E i \in 1 .. Len(Domains) : Domains[i] = r
  BY <1>1 DEF Domain, ToSet
<1>3. 1 \in 1 .. Len(Domains)
  BY <1>1
<1>4. Default \in Domain
  BY <1>1, <1>3 DEF Domain, ToSet
<1>5. ASSUME NEW r \in Domain
      PROVE  r = Default \/ Before(Default, r)
  <2>1. PICK i \in 1 .. Len(Domains) : Domains[i] = r
    BY <1>2
  <2>2. i = 1 \/ 1 < i
    BY <1>1
  <2> QED
    BY <1>1, <1>3, <2>1, <2>2 DEF Before
<1>6. ASSUME NEW r \in Domain, Before(r, Default)
      PROVE  FALSE
  <2>1. PICK i \in 1 .. Len(Domains), j \in 1 .. Len(Domains) :
           i < j /\ Domains[i] = r /\ Domains[j] = Domains[1]
    BY <1>1, <1>6 DEF Before
  <2>2. j = 1
    BY <1>1, <1>3, <2>1, RouteDomainAssumption
  <2> QED
    BY <1>1, <2>1, <2>2
<1> QED
  BY <1>4, <1>5, <1>6

(* What the fixes of the route domains get.                                *)
Complete(e) ==
  /\ e = [vlans |-> e.vlans, domains |-> e.domains] /\ e.vlans \subseteq Vlan
  /\ DOMAIN e.domains \subseteq Domain /\ Default \in DOMAIN e.domains
  /\ \A r \in DOMAIN e.domains : e.domains[r] = Unsaid \/ e.domains[r] \in Listed
  /\ \A r, s \in DOMAIN e.domains \ {Default} :
       r # s => Lists(e.domains, r) \cap Lists(e.domains, s) \cap Foreign = {}

(* What they put into a domain.                                            *)
AllLists(e) == [r \in DOMAIN e.domains |-> Lists(e.domains, r)]
Claimed(e, x) == \E r \in DOMAIN e.domains : x \in Lists(e.domains, r)

Places(e, v, r, x) ==
  \/ x \in Foreign /\ x \in Lists(e.domains, r)
  \/ /\ x \in e.vlans \cup v.vlans \cup Tunnel
     /\ IF Claimed(e, x) THEN FirstToList(x, AllLists(e)) = r
        ELSE IF x \in e.vlans THEN r = Default
        ELSE r \in DOMAIN v.domains /\ x \in v.domains[r]

Placed(e, v, r) == {x \in e.vlans \cup v.vlans \cup Tunnel \cup Foreign : Places(e, v, r, x)}

LEMMA NetworkTypes ==
  ASSUME NEW v \in NetworkDevice
  PROVE  /\ v.vlans \subseteq Vlan /\ DOMAIN v.domains \subseteq Domain
         /\ \A r \in DOMAIN v.domains : v.domains[r] \in Listed /\ v.domains[r] # Unsaid
         /\ Default \in DOMAIN v.domains
         /\ v = [vlans |-> v.vlans, domains |-> v.domains]
         /\ v.domains = [r \in DOMAIN v.domains |-> v.domains[r]]
         /\ \A x \in v.vlans \cup Tunnel \cup Foreign :
              \E r \in DOMAIN v.domains :
                \A s \in DOMAIN v.domains : (x \in v.domains[s]) <=> s = r
         /\ \A r \in DOMAIN v.domains : v.domains[r] \subseteq v.vlans \cup Tunnel \cup Foreign
<1>1. v \in Networks /\ Attached(v)
  BY DEF NetworkDevice
<1>2. PICK ds \in SUBSET Domain : v.domains \in [ds -> Listed]
  BY <1>1 DEF Networks
<1>3. v.vlans \subseteq Vlan /\ v = [vlans |-> v.vlans, domains |-> v.domains]
  BY <1>1 DEF Networks
<1>4. /\ DOMAIN v.domains \subseteq Domain
      /\ \A r \in DOMAIN v.domains : v.domains[r] \in Listed /\ v.domains[r] # Unsaid
      /\ v.domains = [r \in DOMAIN v.domains |-> v.domains[r]]
  BY <1>2, RouteDomainAssumption
<1> QED
  BY <1>1, <1>3, <1>4 DEF Attached

LEMMA NetworkOnce ==
  ASSUME NEW v \in NetworkDevice, NEW r \in DOMAIN v.domains, NEW s \in DOMAIN v.domains,
         NEW x, x \in v.domains[r], x \in v.domains[s]
  PROVE  r = s
<1>1. x \in v.vlans \cup Tunnel \cup Foreign
  BY NetworkTypes
<1>2. PICK p \in DOMAIN v.domains :
        \A q \in DOMAIN v.domains : (x \in v.domains[q]) <=> q = p
  BY <1>1, NetworkTypes
<1> QED
  BY <1>2

LEMMA CurrentOnDevice ==
  ASSUME NEW v \in NetworkDevice, NEW e, Complete(e)
  PROVE  CurrentVlans(e, v) = (v.vlans \cup Tunnel) \ e.vlans
<1>1. \A x \in v.vlans \cup Tunnel : \E r \in DOMAIN v.domains : x \in v.domains[r]
  BY NetworkTypes
<1>2. \A r \in DOMAIN v.domains : v.domains[r] \subseteq v.vlans \cup Tunnel \cup Foreign
  BY NetworkTypes
<1>3. v.vlans \subseteq Vlan /\ (Vlan \cup Tunnel) \cap Foreign = {}
  BY NetworkTypes, RouteDomainAssumption
<1> QED
  BY <1>1, <1>2, <1>3 DEF CurrentVlans

LEMMA FixPlaces ==
  ASSUME NEW v \in NetworkDevice, NEW e, Complete(e)
  PROVE  LET F == RouteDomainVlansFix(e, v)
         IN /\ DOMAIN F = DOMAIN e.domains
            /\ F = [r \in DOMAIN F |-> F[r]]
            /\ \A r \in DOMAIN e.domains :
                 /\ Lists(F, r) = Placed(e, v, r)
                 /\ F[r] = Unsaid <=> e.domains[r] = Unsaid /\ Placed(e, v, r) = {}
                 /\ F[r] # Unsaid => F[r] = Placed(e, v, r)
                 /\ Placed(e, v, r) \in Listed /\ Placed(e, v, r) # Unsaid
<1> DEFINE F == RouteDomainVlansFix(e, v)
           lists == AllLists(e)
           claimed == UNION {lists[r] : r \in DOMAIN lists}
           C == (v.vlans \cup Tunnel) \ e.vlans
           present == e.vlans \cup C
           kept(r)  == {x \in lists[r] : \/ x \in Foreign
                                         \/ x \in present /\ FirstToList(x, lists) = r}
           fresh(r) == IF r = Default THEN e.vlans \ claimed ELSE {}
           stay(r)  == IF r \in DOMAIN v.domains THEN (C \ claimed) \cap v.domains[r] ELSE {}
           fixed(r) == kept(r) \cup fresh(r) \cup stay(r)
<1>1. /\ v.vlans \subseteq Vlan /\ e.vlans \subseteq Vlan
      /\ Vlan \cap Foreign = {} /\ Vlan \cap Tunnel = {} /\ Tunnel \cap Foreign = {}
  BY NetworkTypes, RouteDomainAssumption DEF Complete
<1>2. F = [r \in DOMAIN lists |->
             IF e.domains[r] = Unsaid /\ fixed(r) = {} THEN Unsaid ELSE fixed(r)]
  <2>1. CurrentVlans(e, v) = C
    BY CurrentOnDevice
  <2> HIDE DEF C
  <2> QED
    BY <2>1 DEF RouteDomainVlansFix, AllLists
<1>3. /\ DOMAIN lists = DOMAIN e.domains
      /\ \A r \in DOMAIN e.domains : lists[r] = Lists(e.domains, r)
      /\ \A x : x \in claimed <=> Claimed(e, x)
      /\ \A r \in DOMAIN e.domains : lists[r] \subseteq Vlan \cup Tunnel \cup Foreign
  BY DEF AllLists, Claimed, Complete, Listed, Lists
<1>4. ASSUME NEW x, Claimed(e, x)
      PROVE  FirstToList(x, lists) \in DOMAIN lists /\ x \in lists[FirstToList(x, lists)]
  <2>1. PICK r \in DOMAIN lists : x \in lists[r]
    BY <1>3, <1>4 DEF Claimed
  <2>2. DOMAIN lists \subseteq Domain
    BY <1>3 DEF Complete
  <2> QED
    BY <2>1, <2>2, FirstFacts DEF IsFirst
<1>5. ASSUME NEW r \in DOMAIN e.domains
      PROVE  fixed(r) = Placed(e, v, r)
  <2> HIDE DEF lists, claimed
  <2>1. ASSUME NEW x, x \in fixed(r)
        PROVE  x \in Placed(e, v, r)
    <3>1. CASE x \in kept(r)
      BY <1>1, <1>3, <1>5, <3>1 DEF Placed, Places, Claimed, lists
    <3>2. CASE x \in fresh(r)
      BY <1>1, <1>3, <1>5, <3>2 DEF Placed, Places
    <3>3. CASE x \in stay(r)
      BY <1>1, <1>3, <1>5, <3>3 DEF Placed, Places
    <3> QED
      BY <2>1, <3>1, <3>2, <3>3
  <2>2. ASSUME NEW x, x \in Placed(e, v, r)
        PROVE  x \in fixed(r)
    <3>1. CASE x \in Foreign /\ x \in Lists(e.domains, r)
      BY <1>3, <1>5, <3>1
    <3>2. CASE x \in e.vlans \cup v.vlans \cup Tunnel /\ Places(e, v, r, x)
      <4>1. x \notin Foreign /\ x \in present
        BY <1>1, <3>2
      <4>2. CASE Claimed(e, x)
        <5>1. FirstToList(x, lists) = r /\ x \in lists[r]
          BY <1>4, <3>2, <4>1, <4>2 DEF Places, lists
        <5> QED
          BY <4>1, <5>1
      <4>3. CASE ~Claimed(e, x) /\ x \in e.vlans
        BY <1>3, <3>2, <4>1, <4>3 DEF Places
      <4>4. CASE ~Claimed(e, x) /\ x \notin e.vlans
        BY <1>3, <3>2, <4>1, <4>4 DEF Places
      <4> QED
        BY <4>2, <4>3, <4>4
    <3> QED
      BY <2>2, <3>1, <3>2 DEF Placed, Places
  <2> QED
    BY <2>1, <2>2
<1>6. \A r \in DOMAIN e.domains : Placed(e, v, r) \in Listed /\ Placed(e, v, r) # Unsaid
  BY <1>1, RouteDomainAssumption DEF Placed, Listed
<1> HIDE DEF fixed, lists
<1>7. F = [r \in DOMAIN e.domains |->
             IF e.domains[r] = Unsaid /\ Placed(e, v, r) = {} THEN Unsaid ELSE Placed(e, v, r)]
  BY <1>2, <1>3, <1>5
<1> HIDE DEF F
<1> QED
  BY <1>6, <1>7 DEF Lists, F

LEMMA PlacedOnce ==
  ASSUME NEW v \in NetworkDevice, NEW e, Complete(e),
         NEW r \in DOMAIN e.domains, NEW s \in DOMAIN e.domains, r # s,
         NEW x, x \in Placed(e, v, r), x \in Placed(e, v, s),
         x \notin Foreign \/ (r # Default /\ s # Default)
  PROVE  FALSE
<1>1. /\ v.vlans \subseteq Vlan /\ e.vlans \subseteq Vlan
      /\ Vlan \cap Foreign = {} /\ Tunnel \cap Foreign = {}
  BY NetworkTypes, RouteDomainAssumption DEF Complete
<1>2. Places(e, v, r, x) /\ Places(e, v, s, x)
  BY DEF Placed
<1>3. CASE x \in Foreign
  <2>1. x \in Lists(e.domains, r) /\ x \in Lists(e.domains, s)
    BY <1>1, <1>2, <1>3 DEF Places
  <2> QED
    BY <1>3, <2>1 DEF Complete
<1>4. CASE x \notin Foreign
  <2>1. x \in e.vlans \cup v.vlans \cup Tunnel
    BY <1>2, <1>4 DEF Places
  <2>2. ~Claimed(e, x) /\ x \notin e.vlans /\ x \in v.domains[r] /\ x \in v.domains[s]
          /\ r \in DOMAIN v.domains /\ s \in DOMAIN v.domains
    BY <1>2, <1>4 DEF Places
  <2> QED
    BY <2>2, NetworkOnce
<1> QED
  BY <1>3, <1>4

(* What the handlers leave in a domain other than Default: what the fixes  *)
(* put into it, or what was there, if it comes without a list.             *)
Goes(e, v, r, x) ==
  \/ x \in Placed(e, v, r)
  \/ /\ e.domains[r] = Unsaid /\ Placed(e, v, r) = {}
     /\ r \in DOMAIN v.domains /\ x \in v.domains[r]
     /\ \A s \in DOMAIN e.domains \ {Default} : x \notin Placed(e, v, s)

NetworkLeft(e, v) == NetworkWrite(v, v, [e EXCEPT !.domains = RouteDomainVlansFix(e, v)])

LEMMA GoesOnce ==
  ASSUME NEW v \in NetworkDevice, NEW e, Complete(e),
         NEW r \in DOMAIN e.domains \ {Default}, NEW s \in DOMAIN e.domains \ {Default},
         NEW x, Goes(e, v, r, x), Goes(e, v, s, x)
  PROVE  r = s
<1>1. CASE x \in Placed(e, v, r)
  <2>1. x \in Placed(e, v, s)
    BY <1>1 DEF Goes
  <2> QED
    BY <1>1, <2>1, PlacedOnce
<1>2. CASE x \notin Placed(e, v, r)
  <2>1. x \in v.domains[r] /\ x \in v.domains[s] /\ r \in DOMAIN v.domains /\ s \in DOMAIN v.domains
    BY <1>2 DEF Goes
  <2> QED
    BY <2>1, NetworkOnce
<1> QED
  BY <1>1, <1>2

LEMMA NetworkLeaves ==
  ASSUME NEW v \in NetworkDevice, NEW e, Complete(e)
  PROVE  LET o == NetworkLeft(e, v)
             all == e.vlans \cup Tunnel \cup Foreign
         IN /\ o \in NetworkDevice /\ o.vlans = e.vlans /\ DOMAIN o.domains = DOMAIN e.domains
            /\ \A r \in DOMAIN e.domains \ {Default} :
                 \A x : x \in o.domains[r] <=> x \in all /\ Goes(e, v, r, x)
            /\ \A x : x \in o.domains[Default] <=>
                 x \in all /\ \A r \in DOMAIN e.domains \ {Default} : ~Goes(e, v, r, x)
<1> DEFINE F == RouteDomainVlansFix(e, v)
           E == DOMAIN e.domains
           all == e.vlans \cup Tunnel \cup Foreign
           changed == {r \in E \ {Default} : r \notin DOMAIN v.domains \/ v.domains[r] # F[r]}
           given == {r \in changed : F[r] # Unsaid}
           taken == UNION {F[r] : r \in given}
           W == [r \in E |-> IF r \in given THEN F[r]
                             ELSE IF r \in DOMAIN v.domains THEN v.domains[r] \ taken ELSE {}]
           o == NetworkLeft(e, v)
           here(r) == W[r] \cap all
           others == UNION {here(r) : r \in E \ {Default}}
<1>1. /\ DOMAIN F = E
      /\ \A r \in E : /\ F[r] = Unsaid <=> e.domains[r] = Unsaid /\ Placed(e, v, r) = {}
                      /\ F[r] # Unsaid => F[r] = Placed(e, v, r)
                      /\ Placed(e, v, r) \in Listed /\ Placed(e, v, r) # Unsaid
  BY FixPlaces
<1>2. /\ E \subseteq Domain /\ Default \in E /\ e.vlans \subseteq Vlan
      /\ e = [vlans |-> e.vlans, domains |-> e.domains]
  BY DEF Complete
<1> HIDE DEF F
<1>3. o = [vlans |-> e.vlans, domains |-> Settled(e.vlans, W)]
  <2> DEFINE goal == [e EXCEPT !.domains = F]
  <2>1. goal.vlans = e.vlans /\ goal.domains = F
    BY <1>2
  <2>2. o = NetworkWrite(v, v, goal)
    BY DEF NetworkLeft, F
  <2> HIDE DEF goal, o
  <2> QED
    BY <1>1, <2>1, <2>2 DEF NetworkWrite
<1>4. \A r \in given : F[r] \in Listed
  BY <1>1
<1>5. \A r \in E : W[r] \in Listed /\ W[r] # Unsaid
  <2>1. ASSUME NEW r \in E
        PROVE  W[r] \in Listed
    <3>1. CASE r \in given
      BY <1>4, <3>1
    <3>2. CASE r \notin given /\ r \in DOMAIN v.domains
      <4>1. v.domains[r] \in Listed
        BY <3>2, NetworkTypes
      <4>2. W[r] = v.domains[r] \ taken
        BY <3>2
      <4> HIDE DEF W, taken
      <4> QED
        BY <4>1, <4>2 DEF Listed
    <3>3. CASE r \notin given /\ r \notin DOMAIN v.domains
      BY <3>3 DEF Listed
    <3> QED
      BY <3>1, <3>2, <3>3
  <2> QED
    BY <2>1, RouteDomainAssumption
<1>6. Settled(e.vlans, W) = [r \in E |-> IF r = Default THEN all \ others ELSE here(r)]
  <2> DEFINE listed(r) == Lists(W, r) \cap all
  <2>1. DOMAIN W = E /\ \A r \in E : listed(r) = here(r)
    BY <1>5 DEF Lists
  <2>2. Settled(e.vlans, W) = [r \in DOMAIN W |->
          IF r = Default THEN all \ UNION {listed(s) : s \in DOMAIN W \ {Default}}
          ELSE listed(r)]
    BY DEF Settled
  <2> HIDE DEF W, all, listed, here
  <2>3. UNION {listed(s) : s \in DOMAIN W \ {Default}} = others
    BY <2>1
  <2> HIDE DEF others
  <2> QED
    BY <2>1, <2>2, <2>3
<1>7. ASSUME NEW r \in E \ {Default}, NEW x \in all
      PROVE  x \in W[r] <=> Goes(e, v, r, x)
  <2>0. \A s \in given : s \in E \ {Default} /\ F[s] = Placed(e, v, s)
    BY <1>1
  <2>1. CASE r \in given
    <3>1. W[r] = Placed(e, v, r) /\ ~(e.domains[r] = Unsaid /\ Placed(e, v, r) = {})
      BY <1>1, <2>1
    <3> HIDE DEF W
    <3> QED
      BY <3>1 DEF Goes
  <2>2. CASE r \notin changed
    <3>1. r \in DOMAIN v.domains /\ v.domains[r] = F[r] /\ F[r] # Unsaid
      BY <1>7, <2>2, NetworkTypes
    <3>2. F[r] = Placed(e, v, r) /\ ~(e.domains[r] = Unsaid /\ Placed(e, v, r) = {})
      BY <1>1, <1>7, <3>1
    <3>3. W[r] = v.domains[r] \ taken
      BY <2>2, <3>1
    <3>4. x \in Placed(e, v, r) => x \notin taken
      <4>1. ASSUME NEW s \in given, x \in F[s], x \in Placed(e, v, r)
            PROVE  FALSE
        <5>1. s # r
          BY <2>2
        <5> QED
          BY <1>7, <2>0, <4>1, <5>1, PlacedOnce
      <4> QED
        BY <4>1
    <3> HIDE DEF W, taken
    <3> QED
      BY <3>1, <3>2, <3>3, <3>4 DEF Goes
  <2>3. CASE r \in changed /\ r \notin given
    <3>1. F[r] = Unsaid
      BY <2>3
    <3>2. e.domains[r] = Unsaid /\ Placed(e, v, r) = {}
      BY <1>1, <1>7, <3>1
    <3>3. CASE r \notin DOMAIN v.domains
      <4>1. W[r] = {}
        BY <1>7, <2>3, <3>3
      <4> HIDE DEF W
      <4> QED
        BY <3>2, <3>3, <4>1 DEF Goes
    <3>4. CASE r \in DOMAIN v.domains
      <4>1. W[r] = v.domains[r] \ taken
        BY <1>7, <2>3, <3>4
      <4>2. x \in v.domains[r] => (x \in taken <=> \E s \in E \ {Default} : x \in Placed(e, v, s))
        <5>1. ASSUME x \in taken
              PROVE  \E s \in E \ {Default} : x \in Placed(e, v, s)
          BY <2>0, <5>1
        <5>2. ASSUME x \in v.domains[r], NEW s \in E \ {Default}, x \in Placed(e, v, s)
              PROVE  x \in taken
          <6>1. F[s] # Unsaid /\ F[s] = Placed(e, v, s) /\ s # r
            BY <1>1, <3>2, <5>2
          <6>2. s \in changed
            <7> SUFFICES ASSUME s \notin changed
                         PROVE  FALSE
              OBVIOUS
            <7>1. s \in DOMAIN v.domains /\ x \in v.domains[s]
              BY <5>2, <6>1
            <7> QED
              BY <3>4, <5>2, <6>1, <7>1, NetworkOnce
          <6> QED
            BY <5>2, <6>1, <6>2
        <5> QED
          BY <5>1, <5>2
      <4> HIDE DEF W, taken
      <4> QED
        BY <3>2, <3>4, <4>1, <4>2 DEF Goes
    <3> QED
      BY <3>3, <3>4
  <2> QED
    BY <2>1, <2>2, <2>3
<1> HIDE DEF W
<1>8. /\ o.vlans = e.vlans /\ DOMAIN o.domains = E
      /\ \A r \in E \ {Default} : o.domains[r] = here(r)
      /\ o.domains[Default] = all \ others
      /\ o.domains = [r \in E |-> o.domains[r]]
  BY <1>2, <1>3, <1>6
<1>9. /\ \A r \in E \ {Default} : \A x : x \in o.domains[r] <=> x \in all /\ Goes(e, v, r, x)
      /\ \A x : x \in o.domains[Default] <=>
           x \in all /\ \A r \in E \ {Default} : ~Goes(e, v, r, x)
  <2> HIDE DEF o, all
  <2> QED
    BY <1>7, <1>8
<1>10. Attached(o)
  <2>1. ASSUME NEW x \in all
        PROVE  \E r \in E : \A s \in E : x \in o.domains[s] <=> s = r
    <3> HIDE DEF o, all
    <3>1. CASE \E r \in E \ {Default} : Goes(e, v, r, x)
      <4>1. PICK r \in E \ {Default} : Goes(e, v, r, x)
        BY <3>1
      <4>2. \A s \in E \ {Default} : Goes(e, v, s, x) => s = r
        BY <4>1, GoesOnce
      <4> QED
        BY <1>9, <2>1, <4>1, <4>2
    <3>2. CASE ~\E r \in E \ {Default} : Goes(e, v, r, x)
      BY <1>2, <1>9, <2>1, <3>2
    <3> QED
      BY <3>1, <3>2
  <2>2. \A r \in E : o.domains[r] \subseteq all
    <3> HIDE DEF o, all
    <3> QED
      BY <1>9
  <2> HIDE DEF o
  <2> QED
    BY <1>2, <1>8, <2>1, <2>2 DEF Attached
<1>11. o \in NetworkDevice
  <2>1. \A r \in E : o.domains[r] \in Listed
    <3> HIDE DEF o
    <3> QED
      BY <1>2, <1>9 DEF Listed
  <2>2. o = [vlans |-> e.vlans, domains |-> o.domains] /\ o.domains \in [E -> Listed]
    BY <1>2, <1>3, <1>8, <2>1
  <2>3. E \in SUBSET Domain
    BY <1>2
  <2> HIDE DEF o, E
  <2>4. o \in Networks
    BY <1>2, <2>2, <2>3 DEF Networks
  <2> QED
    BY <1>10, <2>4 DEF NetworkDevice
<1> HIDE DEF o
<1> QED
  BY <1>8, <1>9, <1>11 DEF o

(* When they leave a given device.                                         *)
LEMMA NetworkBecomes ==
  ASSUME NEW v \in NetworkDevice, NEW w \in NetworkDevice, NEW e, Complete(e),
         e.vlans = v.vlans, DOMAIN e.domains = DOMAIN v.domains,
         \A r \in DOMAIN v.domains \ {Default} :
           \A x \in v.vlans \cup Tunnel \cup Foreign : Goes(e, w, r, x) <=> x \in v.domains[r]
  PROVE  NetworkLeft(e, w) = v
<1> DEFINE o == NetworkLeft(e, w)
           E == DOMAIN v.domains
           all == v.vlans \cup Tunnel \cup Foreign
<1>1. /\ o \in NetworkDevice /\ o.vlans = v.vlans /\ DOMAIN o.domains = E
      /\ \A r \in E \ {Default} : \A x : x \in o.domains[r] <=> x \in all /\ Goes(e, w, r, x)
      /\ \A x : x \in o.domains[Default] <=>
           x \in all /\ \A r \in E \ {Default} : ~Goes(e, w, r, x)
  BY NetworkLeaves
<1> HIDE DEF o, all
<1>2. /\ \A r \in E : v.domains[r] \subseteq all
      /\ \A x \in all : \E r \in E : x \in v.domains[r]
      /\ Default \in E
      /\ v = [vlans |-> v.vlans, domains |-> v.domains]
      /\ v.domains = [r \in E |-> v.domains[r]]
  BY NetworkTypes DEF all
<1>3. ASSUME NEW r \in E \ {Default}
      PROVE  o.domains[r] = v.domains[r]
  <2>1. \A x : x \in o.domains[r] <=> x \in v.domains[r]
    BY <1>1, <1>2 DEF all
  <2>2. o.domains[r] \in Listed /\ v.domains[r] \in Listed
    BY <1>1, NetworkTypes
  <2> QED
    BY <2>1, <2>2 DEF Listed
<1>4. o.domains[Default] = v.domains[Default]
  <2>1. ASSUME NEW x, x \in o.domains[Default]
        PROVE  x \in v.domains[Default]
    <3>1. x \in all /\ \A r \in E \ {Default} : x \notin v.domains[r]
      BY <1>1, <2>1 DEF all
    <3> QED
      BY <1>2, <3>1
  <2>2. ASSUME NEW x, x \in v.domains[Default]
        PROVE  x \in o.domains[Default]
    <3>1. x \in all
      BY <1>2, <2>2
    <3>2. \A r \in E \ {Default} : x \notin v.domains[r]
      BY <1>2, <2>2, NetworkOnce
    <3> QED
      BY <1>1, <3>1, <3>2 DEF all
  <2> QED
    BY <2>1, <2>2
<1>5. o = [vlans |-> o.vlans, domains |-> o.domains] /\ o.domains = [r \in E |-> o.domains[r]]
  BY <1>1, NetworkTypes
<1>6. o.domains = v.domains
  BY <1>2, <1>3, <1>4, <1>5
<1>7. o = v
  BY <1>1, <1>2, <1>5, <1>6
<1> QED
  BY <1>7 DEF o

(* A declaration, or what was read of a device, and its completion.        *)
LikeNetwork(d) ==
  /\ d.vlans \subseteq Vlan /\ DOMAIN d.domains \subseteq Domain
  /\ \A r \in DOMAIN d.domains : d.domains[r] = Unsaid \/ d.domains[r] \in Listed
  /\ \A r, s \in DOMAIN d.domains :
       r # s => Lists(d.domains, r) \cap Lists(d.domains, s) \cap Foreign = {}

Completed(d, first, v) ==
  LET given == WithDefaults(d, first)
  IN [given EXCEPT !.domains = DefaultRouteDomainFix(@, v)]

LEMMA LikeNetworks ==
  /\ \A d \in NetworkDeclarations : LikeNetwork(d)
  /\ \A v \in NetworkDevice : LikeNetwork(v)
<1>1. ASSUME NEW d \in NetworkDeclarations
      PROVE  LikeNetwork(d)
  <2>1. d.vlans \subseteq Vlan
    BY DEF NetworkDeclarations
  <2>2. PICK ds \in SUBSET Domain : d.domains \in [ds -> {Unsaid} \cup Listed]
    BY DEF NetworkDeclarations
  <2>3. DOMAIN d.domains = ds /\ \A r \in ds : d.domains[r] = Unsaid \/ d.domains[r] \in Listed
    BY <2>2
  <2> QED
    BY <2>1, <2>2, <2>3 DEF LikeNetwork, NetworkDeclarations
<1>2. ASSUME NEW v \in NetworkDevice
      PROVE  LikeNetwork(v)
  <2>1. \A r \in DOMAIN v.domains : Lists(v.domains, r) = v.domains[r]
    BY NetworkTypes DEF Lists
  <2>2. ASSUME NEW r \in DOMAIN v.domains, NEW s \in DOMAIN v.domains, r # s
        PROVE  Lists(v.domains, r) \cap Lists(v.domains, s) \cap Foreign = {}
    BY <2>1, <2>2, NetworkOnce
  <2>3. /\ v.vlans \subseteq Vlan /\ DOMAIN v.domains \subseteq Domain
        /\ \A r \in DOMAIN v.domains : v.domains[r] \in Listed
    BY NetworkTypes
  <2> QED
    BY <2>2, <2>3 DEF LikeNetwork
<1> QED
  BY <1>1, <1>2

LEMMA CompletedFacts ==
  ASSUME NEW v \in NetworkDevice, NEW first \in NetworkDevice, NEW d, LikeNetwork(d)
  PROVE  LET e == Completed(d, first, v)
             given == IF DOMAIN d.domains = {} THEN first.domains ELSE d.domains
         IN /\ Complete(e)
            /\ e.vlans = IF d.vlans = {} THEN first.vlans ELSE d.vlans
            /\ DOMAIN e.domains = DOMAIN given \cup {Default}
            /\ \A r \in DOMAIN given : e.domains[r] = given[r]
            /\ Default \notin DOMAIN given => e.domains[Default] = v.domains[Default]
            /\ NetworkFix(d, first, v) = [e EXCEPT !.domains = RouteDomainVlansFix(e, v)]
<1> DEFINE e == Completed(d, first, v)
           given == IF DOMAIN d.domains = {} THEN first.domains ELSE d.domains
           vlans == IF d.vlans = {} THEN first.vlans ELSE d.vlans
           lists == DefaultRouteDomainFix(given, v)
<1>1. e = [vlans |-> vlans, domains |-> lists]
  <2>1. WithDefaults(d, first) = [vlans |-> vlans, domains |-> given]
    BY DEF WithDefaults
  <2> HIDE DEF vlans, given
  <2> QED
    BY <2>1 DEF Completed
<1>2. NetworkFix(d, first, v) = [e EXCEPT !.domains = RouteDomainVlansFix(e, v)]
  BY DEF NetworkFix, Completed
<1>3. LikeNetwork(first)
  BY LikeNetworks
<1>4. /\ vlans \subseteq Vlan /\ DOMAIN given \subseteq Domain
      /\ \A r \in DOMAIN given : given[r] = Unsaid \/ given[r] \in Listed
      /\ \A r, s \in DOMAIN given :
           r # s => Lists(given, r) \cap Lists(given, s) \cap Foreign = {}
  BY <1>3 DEF LikeNetwork
<1> HIDE DEF given, vlans
<1>5. /\ DOMAIN lists = DOMAIN given \cup {Default}
      /\ \A r \in DOMAIN given : lists[r] = given[r]
      /\ Default \notin DOMAIN given => lists[Default] = v.domains[Default]
  BY DEF DefaultRouteDomainFix
<1> HIDE DEF lists
<1>6. Default \in Domain /\ v.domains[Default] \in Listed
  BY DefaultIsFirst, NetworkTypes
<1>7. \A r \in DOMAIN given : Lists(lists, r) = Lists(given, r)
  BY <1>5 DEF Lists
<1>8. e.vlans = vlans /\ e.domains = lists
  BY <1>1
<1> HIDE DEF e
<1>9. Complete(e)
  <2>1. \A r \in DOMAIN lists : lists[r] = Unsaid \/ lists[r] \in Listed
    BY <1>4, <1>5, <1>6
  <2>2. DOMAIN lists \subseteq Domain /\ Default \in DOMAIN lists
    BY <1>4, <1>5, <1>6
  <2>3. ASSUME NEW r \in DOMAIN lists \ {Default}, NEW s \in DOMAIN lists \ {Default}, r # s
        PROVE  Lists(lists, r) \cap Lists(lists, s) \cap Foreign = {}
    BY <1>4, <1>5, <1>7, <2>3
  <2>4. e = [vlans |-> e.vlans, domains |-> e.domains]
    BY <1>1, <1>8
  <2> QED
    BY <1>4, <1>8, <2>1, <2>2, <2>3, <2>4 DEF Complete
<1> QED
  BY <1>2, <1>5, <1>8, <1>9 DEF e, vlans, given

(* What is left when only what differs is given to the handlers.           *)
LEMMA NetworkUpdated ==
  ASSUME NEW v \in NetworkDevice, NEW e, Complete(e),
         NEW goal, goal = [e EXCEPT !.domains = RouteDomainVlansFix(e, v)]
  PROVE  (IF goal = v THEN v ELSE NetworkWrite(v, v, goal)) = NetworkLeft(e, v)
<1> DEFINE F == RouteDomainVlansFix(e, v)
<1>1. CASE goal # v
  BY <1>1 DEF NetworkLeft
<1>2. CASE goal = v
  <2>1. goal.vlans = e.vlans /\ goal.domains = F
    BY DEF Complete
  <2>2. v.vlans = e.vlans /\ v.domains = F /\ DOMAIN F = DOMAIN e.domains
    BY <1>2, <2>1, FixPlaces
  <2>3. \A r \in DOMAIN v.domains : v.domains[r] = Placed(e, v, r)
    <3>1. ASSUME NEW r \in DOMAIN v.domains
          PROVE  v.domains[r] = Placed(e, v, r)
      <4>1. F[r] # Unsaid
        BY <2>2, NetworkTypes
      <4> QED
        BY <2>2, <4>1, FixPlaces
    <3> QED
      BY <3>1
  <2>4. \A r \in DOMAIN v.domains \ {Default} :
          \A x \in v.vlans \cup Tunnel \cup Foreign : Goes(e, v, r, x) <=> x \in v.domains[r]
    <3> HIDE DEF F
    <3> QED
      BY <2>2, <2>3 DEF Goes
  <2> HIDE DEF F
  <2>5. NetworkLeft(e, v) = v
    BY <2>2, <2>4, NetworkBecomes
  <2> QED
    BY <1>2, <2>5
<1> QED
  BY <1>1, <1>2

LEMMA FirstClaim ==
  ASSUME NEW e, Complete(e), NEW x
  PROVE  /\ Claimed(e, x) =>
              LET f == FirstToList(x, AllLists(e))
              IN /\ f \in DOMAIN e.domains /\ x \in Lists(e.domains, f)
                 /\ \A s \in DOMAIN e.domains : x \in Lists(e.domains, s) => s = f \/ Before(f, s)
         /\ \A r \in DOMAIN e.domains :
              (/\ x \in Lists(e.domains, r)
               /\ \A s \in DOMAIN e.domains : x \in Lists(e.domains, s) => s = r \/ Before(r, s))
                => FirstToList(x, AllLists(e)) = r
<1> DEFINE lists == AllLists(e)
           f == FirstToList(x, lists)
           E == DOMAIN e.domains
<1>1. /\ DOMAIN lists = E /\ DOMAIN lists \subseteq Domain
      /\ \A r \in E : lists[r] = Lists(e.domains, r)
  BY DEF AllLists, Complete
<1> HIDE DEF lists, E
<1>2. ASSUME NEW r \in E, x \in Lists(e.domains, r)
      PROVE  /\ f \in E /\ IsFirst(x, lists, f)
             /\ \A s \in E : IsFirst(x, lists, s) => s = f
  BY <1>1, <1>2, FirstFacts
<1> HIDE DEF f
<1>3. ASSUME NEW r \in E
      PROVE  IsFirst(x, lists, r) <=>
               /\ x \in Lists(e.domains, r)
               /\ \A s \in E : x \in Lists(e.domains, s) => s = r \/ Before(r, s)
  BY <1>1, <1>3 DEF IsFirst
<1>4. ASSUME Claimed(e, x)
      PROVE  /\ f \in E /\ x \in Lists(e.domains, f)
             /\ \A s \in E : x \in Lists(e.domains, s) => s = f \/ Before(f, s)
  <2>1. f \in E /\ IsFirst(x, lists, f)
    BY <1>2, <1>4 DEF Claimed, E
  <2> QED
    BY <1>3, <2>1
<1>5. ASSUME NEW r \in E, x \in Lists(e.domains, r),
             \A s \in E : x \in Lists(e.domains, s) => s = r \/ Before(r, s)
      PROVE  f = r
  BY <1>2, <1>3, <1>5
<1> QED
  BY <1>4, <1>5 DEF f, lists, E

(* A declared VLAN that one domain lists, and one that nobody lists.       *)
LEMMA NetworkIsMet ==
  ASSUME NEW v \in NetworkDevice, NEW first \in NetworkDevice, NEW d \in NetworkDeclarations
  PROVE  NetworkMet(NetworkLeft(Completed(d, first, v), v), d, v)
<1> DEFINE e == Completed(d, first, v)
           o == NetworkLeft(e, v)
           E == DOMAIN e.domains
           all == e.vlans \cup Tunnel \cup Foreign
<1>1. /\ Complete(e)
      /\ e.vlans = IF d.vlans = {} THEN first.vlans ELSE d.vlans
      /\ DOMAIN d.domains # {} =>
           /\ E = DOMAIN d.domains \cup {Default}
           /\ \A r \in DOMAIN d.domains :
                e.domains[r] = d.domains[r] /\ Lists(e.domains, r) = Lists(d.domains, r)
           /\ Default \notin DOMAIN d.domains => e.domains[Default] = v.domains[Default]
  BY CompletedFacts, LikeNetworks DEF Lists
<1> HIDE DEF e
<1>2. /\ o \in NetworkDevice /\ o.vlans = e.vlans
      /\ \A r \in E \ {Default} : \A x : x \in o.domains[r] <=> x \in all /\ Goes(e, v, r, x)
      /\ \A x : x \in o.domains[Default] <=>
           x \in all /\ \A r \in E \ {Default} : ~Goes(e, v, r, x)
  BY <1>1, NetworkLeaves
<1> HIDE DEF o
<1>3. /\ Vlan \cap Foreign = {} /\ v.vlans \subseteq Vlan /\ e.vlans \subseteq Vlan
      /\ Tunnel \cap Foreign = {}
      /\ v.domains[Default] # Unsaid /\ Default \in DOMAIN v.domains
  <2>1. Default \in DOMAIN v.domains /\ v.vlans \subseteq Vlan
    BY NetworkTypes
  <2>2. v.domains[Default] # Unsaid
    BY <2>1, NetworkTypes
  <2>3. e.vlans \subseteq Vlan
    BY <1>1 DEF Complete
  <2> QED
    BY <2>1, <2>2, <2>3, RouteDomainAssumption
<1>4. Attached(o)
  BY <1>2 DEF NetworkDevice
<1>5. ASSUME NEW r \in DOMAIN d.domains, NEW x \in Claims(d, r), x \notin Stuck(d, r, v)
      PROVE  x \in o.domains[r]
  <2>1. /\ x \in d.vlans /\ x \in e.vlans /\ x \in Lists(d.domains, r) /\ x \notin Foreign
        /\ \A s \in DOMAIN d.domains \ {r} : x \notin Lists(d.domains, s)
    BY <1>1, <1>3, <1>5 DEF Claims
  <2>2. \A s \in E : x \in Lists(e.domains, s) => s = r
    <3>1. Default \notin DOMAIN d.domains => x \notin Lists(e.domains, Default)
      BY <1>1, <1>3, <1>5 DEF Stuck, Lists
    <3> QED
      BY <1>1, <1>5, <2>1, <3>1
  <2>3. r \in E /\ x \in Lists(e.domains, r) /\ Claimed(e, x)
    BY <1>1, <1>5, <2>1 DEF Claimed
  <2>4. FirstToList(x, AllLists(e)) = r
    BY <1>1, <2>2, <2>3, FirstClaim
  <2>5. x \in Placed(e, v, r)
    BY <2>1, <2>3, <2>4 DEF Placed, Places
  <2>6. CASE r # Default
    BY <1>2, <2>1, <2>3, <2>5, <2>6 DEF Goes
  <2>7. CASE r = Default
    <3>1. ASSUME NEW s \in E \ {Default}, Goes(e, v, s, x)
          PROVE  FALSE
      <4>1. x \notin Placed(e, v, s)
        BY <1>1, <2>1, <2>3, <2>5, <2>7, <3>1, PlacedOnce
      <4>2. e.domains[s] = Unsaid /\ s \in DOMAIN v.domains /\ x \in v.domains[s]
        BY <3>1, <4>1 DEF Goes
      <4>3. s \in DOMAIN d.domains /\ d.domains[s] = Unsaid
        BY <1>1, <1>5, <2>7, <3>1, <4>2
      <4> QED
        BY <1>5, <2>7, <4>2, <4>3 DEF Stuck
    <3> QED
      BY <1>2, <2>1, <2>7, <3>1
  <2> QED
    BY <2>6, <2>7
<1>6. ASSUME NEW r \in DOMAIN d.domains \cap DOMAIN v.domains, d.domains[r] = Unsaid,
             ~Rewritten([d EXCEPT !.vlans = o.vlans], r, v),
             NEW x \in v.domains[r] \cap o.vlans,
             \A s \in DOMAIN d.domains : x \notin Lists(d.domains, s)
      PROVE  x \in o.domains[r]
  <2>1. /\ r \in E /\ e.domains[r] = Unsaid /\ Lists(e.domains, r) = {}
        /\ x \in e.vlans /\ x \in v.domains[r] /\ x \notin Foreign
    BY <1>1, <1>2, <1>3, <1>6 DEF Lists
  <2>2. v.domains[r] \cap (Vlan \cup Tunnel) \subseteq e.vlans
    <3>1. d = [vlans |-> d.vlans, domains |-> d.domains]
      BY DEF NetworkDeclarations
    <3>2. [d EXCEPT !.vlans = o.vlans].vlans = e.vlans
      BY <1>2, <3>1
    <3> QED
      BY <1>6, <3>2 DEF Rewritten
  <2>3. ~Claimed(e, x)
    <3> SUFFICES ASSUME NEW s \in E, x \in Lists(e.domains, s)
                 PROVE  FALSE
      BY DEF Claimed
    <3>1. s = Default /\ Default \notin DOMAIN d.domains
      BY <1>1, <1>6
    <3>2. x \in v.domains[Default]
      BY <1>1, <1>3, <1>6, <3>1 DEF Lists
    <3> QED
      BY <1>3, <1>6, <3>1, <3>2, NetworkOnce
  <2>4. \A s \in E \ {Default} : x \notin Placed(e, v, s)
    BY <2>1, <2>3 DEF Placed, Places
  <2>5. CASE r # Default
    <3>1. ASSUME NEW y \in Placed(e, v, r)
          PROVE  FALSE
      <4>1. y \in e.vlans \cup v.vlans \cup Tunnel /\ Places(e, v, r, y) /\ y \notin Foreign
        BY <1>3, <2>1, <3>1 DEF Placed, Places
      <4>2. ~Claimed(e, y)
        BY <1>1, <2>1, <4>1, FirstClaim DEF Places
      <4> QED
        BY <1>3, <2>2, <2>5, <4>1, <4>2 DEF Places
    <3>2. Goes(e, v, r, x)
      BY <1>6, <2>1, <2>4, <3>1 DEF Goes
    <3> QED
      BY <1>2, <2>1, <2>5, <3>2
  <2>6. CASE r = Default
    <3>1. \A s \in E \ {Default} : ~Goes(e, v, s, x)
      BY <1>3, <2>1, <2>4, <2>6, NetworkOnce DEF Goes
    <3> QED
      BY <1>2, <2>1, <2>6, <3>1
  <2> QED
    BY <2>5, <2>6
<1> QED
  BY <1>4, <1>5, <1>6 DEF NetworkMet, o, e

(* The same declaration on what it left: the fixes put every VLAN where it *)
(* is.                                                                     *)
LEMMA NetworkStays ==
  ASSUME NEW v \in NetworkDevice, NEW first \in NetworkDevice, NEW d \in NetworkDeclarations,
         NEW o, o = NetworkLeft(Completed(d, first, v), v)
  PROVE  LET e == Completed(d, first, o)
         IN /\ NetworkLeft(e, o) = o
            /\ ReadOtherwise(d, o) \/ [e EXCEPT !.domains = RouteDomainVlansFix(e, o)] = o
<1> DEFINE e == Completed(d, first, v)
           n == Completed(d, first, o)
           given == IF DOMAIN d.domains = {} THEN first.domains ELSE d.domains
           E == DOMAIN e.domains
           all == e.vlans \cup Tunnel \cup Foreign
<1>1. /\ Complete(e) /\ E = DOMAIN given \cup {Default}
      /\ \A r \in DOMAIN given : e.domains[r] = given[r]
      /\ Default \notin DOMAIN given => e.domains[Default] = v.domains[Default]
  BY CompletedFacts, LikeNetworks
<1>2. /\ o \in NetworkDevice /\ o.vlans = e.vlans /\ DOMAIN o.domains = E
      /\ \A r \in E \ {Default} : \A x : x \in o.domains[r] <=> x \in all /\ Goes(e, v, r, x)
      /\ \A x : x \in o.domains[Default] <=>
           x \in all /\ \A r \in E \ {Default} : ~Goes(e, v, r, x)
  BY <1>1, NetworkLeaves
<1>3. /\ Complete(n) /\ n.vlans = e.vlans /\ DOMAIN n.domains = E
      /\ \A r \in DOMAIN given : n.domains[r] = given[r]
      /\ Default \notin DOMAIN given => n.domains[Default] = o.domains[Default]
  <2>1. /\ Complete(n) /\ DOMAIN n.domains = DOMAIN given \cup {Default}
        /\ n.vlans = IF d.vlans = {} THEN first.vlans ELSE d.vlans
        /\ \A r \in DOMAIN given : n.domains[r] = given[r]
        /\ Default \notin DOMAIN given => n.domains[Default] = o.domains[Default]
    BY <1>2, CompletedFacts, LikeNetworks
  <2>2. e.vlans = IF d.vlans = {} THEN first.vlans ELSE d.vlans
    BY CompletedFacts, LikeNetworks
  <2> HIDE DEF e, n, given
  <2> QED
    BY <1>1, <2>1, <2>2
<1> HIDE DEF e, n, given
<1>4. /\ Default \in E /\ E \subseteq Domain /\ e.vlans \subseteq Vlan
      /\ Vlan \cap Foreign = {} /\ Tunnel \cap Foreign = {} /\ Vlan \cap Tunnel = {}
      /\ \A r \in E : ~Before(r, Default)
  <2>1. Default \in E /\ E \subseteq Domain /\ e.vlans \subseteq Vlan
    BY <1>1 DEF Complete
  <2> QED
    BY <2>1, DefaultIsFirst, RouteDomainAssumption
<1>5. /\ v.domains[Default] # Unsaid /\ o.domains[Default] # Unsaid
      /\ Default \in DOMAIN v.domains /\ v.vlans \subseteq Vlan
  <2>1. Default \in DOMAIN v.domains /\ v.vlans \subseteq Vlan
    BY NetworkTypes
  <2> QED
    BY <1>2, <1>4, <2>1, NetworkTypes
<1>6. \A r \in DOMAIN given :
        n.domains[r] = e.domains[r] /\ Lists(n.domains, r) = Lists(e.domains, r)
  BY <1>1, <1>3 DEF Lists
<1>7. \A r \in E \ {Default} :
        n.domains[r] = e.domains[r] /\ Lists(n.domains, r) = Lists(e.domains, r)
  BY <1>1, <1>6
<1>8. Default \notin DOMAIN given =>
        /\ Lists(e.domains, Default) = v.domains[Default]
        /\ Lists(n.domains, Default) = o.domains[Default]
  BY <1>1, <1>3, <1>5 DEF Lists
<1>9. ASSUME NEW x \in v.domains[Default], x \in e.vlans \cup Tunnel, Default \notin DOMAIN given
      PROVE  x \in o.domains[Default]
  <2> SUFFICES ASSUME NEW s \in E \ {Default}, Goes(e, v, s, x)
               PROVE  FALSE
    BY <1>2, <1>9
  <2>1. x \notin Foreign
    BY <1>4, <1>9
  <2>2. Claimed(e, x) /\ x \in Lists(e.domains, Default)
    BY <1>4, <1>8, <1>9 DEF Claimed
  <2>3. x \notin Placed(e, v, s)
    <3>1. FirstToList(x, AllLists(e)) # s
      BY <1>1, <1>4, <2>2, FirstClaim
    <3> QED
      BY <2>1, <2>2, <3>1 DEF Placed, Places
  <2>4. s \in DOMAIN v.domains /\ x \in v.domains[s]
    BY <2>3 DEF Goes
  <2> QED
    BY <1>5, <1>9, <2>4, NetworkOnce
<1>10. ASSUME NEW r \in E \ {Default}, NEW x \in all, x \in Placed(n, o, r)
       PROVE  x \in Placed(e, v, r)
  <2>1. Places(n, o, r, x)
    BY <1>10 DEF Placed
  <2>2. CASE x \in Foreign
    BY <1>2, <1>3, <1>4, <1>7, <1>10, <2>1, <2>2 DEF Placed, Places
  <2>3. CASE x \notin Foreign
    <3>1. x \in e.vlans \cup Tunnel
      BY <1>10, <2>3
    <3>2. CASE Claimed(n, x)
      <4>1. FirstToList(x, AllLists(n)) = r
        BY <2>1, <2>3, <3>2 DEF Places
      <4>2. /\ x \in Lists(n.domains, r)
            /\ \A s \in E : x \in Lists(n.domains, s) => s = r \/ Before(r, s)
        BY <1>3, <3>2, <4>1, FirstClaim
      <4>3. x \notin Lists(n.domains, Default)
        BY <1>4, <1>10, <4>2
      <4>4. x \notin Lists(e.domains, Default)
        <5>1. CASE Default \in DOMAIN given
          BY <1>6, <4>3, <5>1
        <5>2. CASE Default \notin DOMAIN given
          BY <1>8, <1>9, <3>1, <4>3, <5>2
        <5> QED
          BY <5>1, <5>2
      <4>5. /\ x \in Lists(e.domains, r) /\ Claimed(e, x)
            /\ \A s \in E : x \in Lists(e.domains, s) => s = r \/ Before(r, s)
        BY <1>7, <1>10, <4>2, <4>4 DEF Claimed
      <4>6. FirstToList(x, AllLists(e)) = r
        BY <1>1, <1>10, <4>5, FirstClaim
      <4> QED
        BY <3>1, <4>5, <4>6 DEF Placed, Places
    <3>3. CASE ~Claimed(n, x)
      <4>1. x \notin e.vlans /\ x \in Tunnel /\ x \in o.domains[r]
        BY <1>3, <1>10, <2>1, <2>3, <3>1, <3>3 DEF Places
      <4>2. Goes(e, v, r, x)
        BY <1>2, <1>10, <4>1
      <4> SUFFICES ASSUME x \notin Placed(e, v, r)
                   PROVE  FALSE
        OBVIOUS
      <4>3. /\ r \in DOMAIN v.domains /\ x \in v.domains[r]
            /\ \A s \in E \ {Default} : x \notin Placed(e, v, s)
        BY <4>2 DEF Goes
      <4>4. ~Claimed(e, x)
        <5> SUFFICES ASSUME Claimed(e, x)
                     PROVE  FALSE
          OBVIOUS
        <5> DEFINE f == FirstToList(x, AllLists(e))
        <5>1. f \in E /\ x \in Lists(e.domains, f)
          BY <1>1, FirstClaim
        <5>2. x \in Placed(e, v, f)
          BY <3>1, <5>1 DEF Placed, Places
        <5>3. f = Default
          BY <4>3, <5>1, <5>2
        <5>4. CASE Default \in DOMAIN given
          BY <1>3, <1>6, <3>3, <5>1, <5>3, <5>4 DEF Claimed
        <5>5. CASE Default \notin DOMAIN given
          <6>1. x \in v.domains[Default]
            BY <1>8, <5>1, <5>3, <5>5
          <6> QED
            BY <1>5, <1>10, <4>3, <6>1, NetworkOnce
        <5> QED
          BY <5>4, <5>5
      <4> QED
        BY <4>1, <4>3, <4>4 DEF Placed, Places
    <3> QED
      BY <3>2, <3>3
  <2> QED
    BY <2>2, <2>3
<1>11. ASSUME NEW r \in E \ {Default}, NEW x \in all, x \in Placed(e, v, r)
       PROVE  x \in Placed(n, o, r)
  <2>1. Places(e, v, r, x) /\ x \in o.domains[r]
    BY <1>2, <1>11 DEF Placed, Goes
  <2>2. CASE x \in Foreign
    BY <1>1, <1>3, <1>4, <1>5, <1>7, <1>11, <2>1, <2>2 DEF Placed, Places
  <2>3. CASE x \notin Foreign
    <3>1. x \in e.vlans \cup Tunnel
      BY <1>11, <2>3
    <3>2. x \notin o.domains[Default]
      BY <1>2, <1>4, <1>11, <2>1, NetworkOnce
    <3>3. x \in Lists(n.domains, Default) => x \in Lists(e.domains, Default)
      BY <1>6, <1>8, <3>2
    <3>4. CASE Claimed(e, x)
      <4>1. FirstToList(x, AllLists(e)) = r
        BY <2>1, <2>3, <3>4 DEF Places
      <4>2. /\ x \in Lists(e.domains, r)
            /\ \A s \in E : x \in Lists(e.domains, s) => s = r \/ Before(r, s)
        BY <1>1, <3>4, <4>1, FirstClaim
      <4>3. x \notin Lists(n.domains, Default)
        BY <1>4, <1>11, <3>3, <4>2
      <4>4. /\ x \in Lists(n.domains, r) /\ Claimed(n, x)
            /\ \A s \in E : x \in Lists(n.domains, s) => s = r \/ Before(r, s)
        BY <1>3, <1>7, <1>11, <4>2, <4>3 DEF Claimed
      <4>5. FirstToList(x, AllLists(n)) = r
        BY <1>3, <1>11, <4>4, FirstClaim
      <4> QED
        BY <1>3, <3>1, <4>4, <4>5 DEF Placed, Places
    <3>5. CASE ~Claimed(e, x)
      <4>1. x \notin e.vlans /\ x \in Tunnel
        BY <1>11, <2>1, <2>3, <3>1, <3>5 DEF Places
      <4>2. ~Claimed(n, x)
        BY <1>3, <1>7, <3>3, <3>5 DEF Claimed
      <4> QED
        BY <1>2, <1>3, <1>11, <2>1, <4>1, <4>2 DEF Placed, Places
    <3> QED
      BY <3>4, <3>5
  <2> QED
    BY <2>2, <2>3
<1>12. \A r \in E \ {Default} : Placed(n, o, r) \subseteq all
  BY <1>2, <1>3 DEF Placed
<1>13. ASSUME NEW r \in E \ {Default}, NEW x \in all
       PROVE  Goes(n, o, r, x) <=> x \in o.domains[r]
  <2>1. ASSUME Goes(n, o, r, x)
        PROVE  x \in o.domains[r]
    <3>1. CASE x \in Placed(n, o, r)
      BY <1>2, <1>10, <1>13, <3>1 DEF Goes
    <3> QED
      BY <2>1, <3>1 DEF Goes
  <2>2. ASSUME x \in o.domains[r]
        PROVE  Goes(n, o, r, x)
    <3>1. Goes(e, v, r, x)
      BY <1>2, <1>13, <2>2
    <3>2. CASE x \in Placed(e, v, r)
      BY <1>11, <1>13, <3>2 DEF Goes
    <3>3. CASE x \notin Placed(e, v, r)
      <4>1. /\ e.domains[r] = Unsaid /\ Placed(e, v, r) = {}
            /\ \A s \in E \ {Default} : x \notin Placed(e, v, s)
        BY <3>1, <3>3 DEF Goes
      <4>2. Placed(n, o, r) = {}
        BY <1>10, <1>12, <1>13, <4>1
      <4>3. \A s \in E \ {Default} : x \notin Placed(n, o, s)
        BY <1>10, <1>13, <4>1
      <4> QED
        BY <1>2, <1>3, <1>7, <1>13, <2>2, <4>1, <4>2, <4>3 DEF Goes
    <3> QED
      BY <3>2, <3>3
  <2> QED
    BY <2>1, <2>2
<1>14. NetworkLeft(n, o) = o
  BY <1>2, <1>3, <1>13, NetworkBecomes
<1>15. ASSUME ~ReadOtherwise(d, o)
       PROVE  [n EXCEPT !.domains = RouteDomainVlansFix(n, o)] = o
  <2> DEFINE F == RouteDomainVlansFix(n, o)
  <2>1. \A r \in DOMAIN given : given[r] # Unsaid
    BY <1>15, NetworkTypes DEF ReadOtherwise, given
  <2>2. \A r \in E : n.domains[r] # Unsaid /\ (r # Default => e.domains[r] # Unsaid)
    BY <1>1, <1>3, <1>5, <2>1
  <2>3. DOMAIN F = E /\ F = [r \in E |-> F[r]] /\ \A r \in E : F[r] = Placed(n, o, r)
    BY <1>2, <1>3, <2>2, FixPlaces
  <2>4. ASSUME NEW r \in E \ {Default}, NEW x
        PROVE  x \in Placed(n, o, r) <=> x \in o.domains[r]
    <3>1. ASSUME x \in Placed(n, o, r)
          PROVE  x \in o.domains[r]
      BY <1>12, <1>13, <2>4, <3>1 DEF Goes
    <3>2. ASSUME x \in o.domains[r]
          PROVE  x \in Placed(n, o, r)
      <4>1. x \in all /\ Goes(n, o, r, x)
        BY <1>2, <1>13, <2>4, <3>2
      <4> QED
        BY <2>2, <2>4, <4>1 DEF Goes
    <3> QED
      BY <3>1, <3>2
  <2>5. ASSUME NEW x \in Foreign
        PROVE  x \in Lists(n.domains, Default) <=> x \in o.domains[Default]
    <3>1. CASE Default \notin DOMAIN given
      BY <1>8, <3>1
    <3>2. CASE DOMAIN d.domains # {} /\ Default \in DOMAIN given
      <4>1. /\ Default \in DOMAIN d.domains /\ n.domains[Default] = d.domains[Default]
            /\ d.domains[Default] # Unsaid
        BY <1>3, <2>1, <3>2 DEF given
      <4>2. o.domains[Default] \cap Foreign = d.domains[Default] \cap Foreign
        BY <1>15, <4>1 DEF ReadOtherwise
      <4> QED
        BY <2>5, <4>1, <4>2 DEF Lists
    <3>3. CASE DOMAIN d.domains = {}
      <4>1. given = first.domains
        BY <3>3 DEF given
      <4>2. /\ Default \in DOMAIN first.domains /\ E = DOMAIN first.domains
            /\ \A r \in E : /\ e.domains[r] = first.domains[r] /\ n.domains[r] = first.domains[r]
                            /\ first.domains[r] # Unsaid
                            /\ Lists(e.domains, r) = first.domains[r]
                            /\ Lists(n.domains, r) = first.domains[r]
        <5>1. /\ Default \in DOMAIN first.domains
              /\ \A r \in DOMAIN first.domains : first.domains[r] # Unsaid
          BY NetworkTypes
        <5>2. E = DOMAIN first.domains
          BY <1>1, <4>1, <5>1
        <5>3. \A r \in E : /\ e.domains[r] = first.domains[r]
                           /\ n.domains[r] = first.domains[r]
          BY <1>1, <1>3, <4>1, <5>1, <5>2
        <5> QED
          BY <5>1, <5>2, <5>3 DEF Lists
      <4>3. ASSUME x \in first.domains[Default]
            PROVE  x \in o.domains[Default]
        <5> SUFFICES ASSUME NEW s \in E \ {Default}, Goes(e, v, s, x)
                     PROVE  FALSE
          BY <1>2, <2>5
        <5>1. x \in Placed(e, v, s)
          BY <4>2 DEF Goes
        <5>2. x \in first.domains[s]
          BY <1>4, <1>5, <2>5, <4>2, <5>1 DEF Placed, Places
        <5> QED
          BY <4>2, <4>3, <5>2, NetworkOnce
      <4>4. ASSUME x \in o.domains[Default]
            PROVE  x \in first.domains[Default]
        <5>1. PICK s \in E : x \in first.domains[s]
          BY <2>5, <4>2, NetworkTypes
        <5> SUFFICES ASSUME s # Default
                     PROVE  FALSE
          BY <5>1
        <5>2. x \in Placed(e, v, s)
          BY <2>5, <4>2, <5>1 DEF Placed, Places
        <5> QED
          BY <1>2, <2>5, <4>4, <5>2 DEF Goes
      <4> QED
        BY <4>2, <4>3, <4>4
    <3> QED
      BY <3>1, <3>2, <3>3
  <2>6. ASSUME NEW x
        PROVE  x \in Placed(n, o, Default) <=> x \in o.domains[Default]
    <3>1. CASE x \notin all
      <4>1. x \notin o.domains[Default] /\ x \notin Placed(n, o, Default)
        BY <1>2, <1>3, <3>1 DEF Placed
      <4> QED
        BY <4>1
    <3>2. CASE x \in Foreign
      BY <1>3, <1>4, <1>2, <2>5, <3>2 DEF Placed, Places
    <3>3. CASE x \in e.vlans \cup Tunnel
      <4>0. x \notin Foreign
        BY <1>4, <3>3
      <4>1. ASSUME x \in Placed(n, o, Default)
            PROVE  x \in o.domains[Default]
        <5>1. PICK s \in E : x \in o.domains[s]
          BY <1>2, <3>3, NetworkTypes
        <5> SUFFICES ASSUME s # Default
                     PROVE  FALSE
          BY <5>1
        <5>2. x \in Placed(n, o, s)
          BY <2>4, <5>1
        <5> QED
          BY <1>2, <1>3, <1>4, <4>0, <4>1, <5>2, PlacedOnce
      <4>2. ASSUME x \in o.domains[Default]
            PROVE  x \in Placed(n, o, Default)
        <5>1. \A s \in E \ {Default} : x \notin Placed(n, o, s)
          BY <1>2, <1>4, <2>4, <4>2, NetworkOnce
        <5>2. CASE Claimed(n, x)
          <6> DEFINE f == FirstToList(x, AllLists(n))
          <6>1. f \in E
            BY <1>3, <5>2, FirstClaim
          <6>2. x \in Placed(n, o, f)
            BY <1>3, <3>3, <5>2 DEF Placed, Places
          <6> HIDE DEF f
          <6> QED
            BY <5>1, <6>1, <6>2
        <5>3. CASE ~Claimed(n, x)
          BY <1>2, <1>3, <1>4, <3>3, <4>2, <5>3 DEF Placed, Places
        <5> QED
          BY <5>2, <5>3
      <4> QED
        BY <4>1, <4>2
    <3> QED
      BY <3>1, <3>2, <3>3
  <2>7. \A r \in E : F[r] = o.domains[r]
    <3>1. ASSUME NEW r \in E
          PROVE  Placed(n, o, r) = o.domains[r]
      <4>1. \A x : x \in Placed(n, o, r) <=> x \in o.domains[r]
        BY <2>4, <2>6
      <4>2. Placed(n, o, r) \in Listed /\ o.domains[r] \in Listed
        BY <1>2, <1>3, FixPlaces, NetworkTypes
      <4> QED
        BY <4>1, <4>2 DEF Listed
    <3> QED
      BY <2>3, <3>1
  <2> HIDE DEF F
  <2>8. F = o.domains
    BY <1>2, <2>3, <2>7, NetworkTypes
  <2>9. [n EXCEPT !.domains = F] = [vlans |-> o.vlans, domains |-> o.domains]
    BY <1>2, <1>3, <2>8 DEF Complete
  <2>10. o = [vlans |-> o.vlans, domains |-> o.domains]
    BY <1>2, NetworkTypes
  <2> QED
    BY <2>9, <2>10 DEF F
<1> QED
  BY <1>14, <1>15 DEF n

LEMMA NetworkOutcome ==
  ASSUME NEW v, NEW first, NEW same, Ready("network", v, first, same),
         NEW d, IsDeclaration("network", d)
  PROVE  LET o == Outcome("network", v, d, first, same)
         IN /\ IsDevice("network", o) /\ Retained("network", o, first)
            /\ NetworkMet(o, d, v)
            /\ Quiet("network", o, d, first)
<1> DEFINE o == Outcome("network", v, d, first, same)
           left(w) == NetworkLeft(Completed(d, first, w), w)
<1>1. /\ v \in NetworkDevice /\ first \in NetworkDevice /\ d \in NetworkDeclarations
      /\ LikeNetwork(d)
  BY LikeNetworks DEF Ready, IsDevice, IsConfig, IsDeclaration
<1>2. ASSUME NEW w \in NetworkDevice
      PROVE  /\ Outcome("network", w, d, first, same) = left(w)
             /\ Outcome("network", w, d, first, FALSE) = left(w)
             /\ left(w) \in NetworkDevice
             /\ left(w).vlans = IF d.vlans = {} THEN first.vlans ELSE d.vlans
  <2> DEFINE e == Completed(d, first, w)
             goal == [e EXCEPT !.domains = RouteDomainVlansFix(e, w)]
  <2>1. /\ Complete(e) /\ NetworkFix(d, first, w) = goal
        /\ e.vlans = IF d.vlans = {} THEN first.vlans ELSE d.vlans
    BY <1>1, <1>2, CompletedFacts
  <2> HIDE DEF e
  <2>2. (IF goal = w THEN w ELSE NetworkWrite(w, w, goal)) = NetworkLeft(e, w)
    BY <1>2, <2>1, NetworkUpdated
  <2>3. NetworkLeft(e, w) \in NetworkDevice /\ NetworkLeft(e, w).vlans = e.vlans
    BY <1>2, <2>1, NetworkLeaves
  <2> HIDE DEF goal
  <2>4. /\ Outcome("network", w, d, first, same) = NetworkLeft(e, w)
        /\ Outcome("network", w, d, first, FALSE) = NetworkLeft(e, w)
    BY <2>1, <2>2
    DEF Outcome, Updated, Known, Wanted, ReadFor, ReadOf, FixOf, WriteOf, ComparedOf
  <2> QED
    BY <2>1, <2>3, <2>4 DEF e
<1> HIDE DEF left
<1>3. o = left(v) /\ o \in NetworkDevice
  BY <1>1, <1>2
<1>4. Retained("network", o, first)
  BY <1>1, <1>2, <1>3 DEF Retained
<1>5. NetworkMet(o, d, v)
  BY <1>1, <1>3, NetworkIsMet DEF left
<1> HIDE DEF o
<1>6. Quiet("network", o, d, first)
  <2> DEFINE n == Completed(d, first, o)
  <2>1. left(o) = o /\ (ReadOtherwise(d, o) \/ NetworkFix(d, first, o) = o)
    <3>1. o = NetworkLeft(Completed(d, first, v), v)
      BY <1>3 DEF left
    <3>2. NetworkFix(d, first, o) = [n EXCEPT !.domains = RouteDomainVlansFix(n, o)]
      BY <1>1, <1>3, CompletedFacts
    <3>3. NetworkLeft(n, o) = o
      BY <1>1, <3>1, NetworkStays
    <3>4. ReadOtherwise(d, o) \/ [n EXCEPT !.domains = RouteDomainVlansFix(n, o)] = o
      BY <1>1, <3>1, NetworkStays
    <3> QED
      BY <3>2, <3>3, <3>4 DEF left
  <2>2. Outcome("network", o, d, first, FALSE) = o
    BY <1>2, <1>3, <2>1
  <2> QED
    BY <2>1, <2>2 DEF Quiet, UnfinishedOn, NoisyOn, Wanted, FixOf, ReadFor, ReadOf, ComparedOf
<1> QED
  BY <1>3, <1>4, <1>5, <1>6 DEF IsDevice, o

(* To roll back is to declare what was read.                               *)
LEMMA NetworkRestored ==
  ASSUME NEW v, NEW first, NEW same, Ready("network", v, first, same),
         NEW d, NEW w, IsDevice("network", w)
  PROVE  Restored("network", w, Known("network", v, d, first, same), first) = v
<1> DEFINE e == Completed(v, first, w)
           goal == [e EXCEPT !.domains = RouteDomainVlansFix(e, w)]
           E == DOMAIN v.domains
<1>1. /\ v \in NetworkDevice /\ first \in NetworkDevice /\ w \in NetworkDevice
      /\ first.vlans # {} => v.vlans # {}
  BY DEF Ready, IsDevice, IsConfig, Retained
<1>2. Default \in E /\ \A r \in E : v.domains[r] # Unsaid
  BY <1>1, NetworkTypes
<1>3. /\ Complete(e) /\ NetworkFix(v, first, w) = goal
      /\ e.vlans = v.vlans /\ DOMAIN e.domains = E
      /\ \A r \in E : e.domains[r] = v.domains[r]
  <2>1. LikeNetwork(v)
    BY <1>1, LikeNetworks
  <2>2. e.vlans = IF v.vlans = {} THEN first.vlans ELSE v.vlans
    BY <1>1, <2>1, CompletedFacts
  <2>3. (IF DOMAIN v.domains = {} THEN first.domains ELSE v.domains) = v.domains
    BY <1>2
  <2>4. /\ Complete(e) /\ NetworkFix(v, first, w) = goal
        /\ DOMAIN e.domains = E \cup {Default}
        /\ \A r \in E : e.domains[r] = v.domains[r]
    BY <1>1, <2>1, <2>3, CompletedFacts
  <2> HIDE DEF e, goal
  <2> QED
    BY <1>1, <1>2, <2>2, <2>4
<1> HIDE DEF e
<1>4. ASSUME NEW r \in E \ {Default}, NEW x \in v.vlans \cup Tunnel \cup Foreign
      PROVE  Goes(e, w, r, x) <=> x \in v.domains[r]
  <2>1. \A s \in E : Lists(e.domains, s) = v.domains[s]
    BY <1>2, <1>3 DEF Lists
  <2>2. Goes(e, w, r, x) <=> x \in Placed(e, w, r)
    BY <1>2, <1>3, <1>4 DEF Goes
  <2>3. PICK s \in E : x \in v.domains[s]
    BY <1>1, <1>4, NetworkTypes
  <2>4. \A t \in E : x \in v.domains[t] => t = s
    BY <1>1, <2>3, NetworkOnce
  <2>5. Claimed(e, x) /\ FirstToList(x, AllLists(e)) = s
    BY <1>3, <2>1, <2>3, <2>4, FirstClaim DEF Claimed
  <2>6. x \in Placed(e, w, r) <=> x \in v.domains[r]
    <3>1. CASE x \in Foreign
      <4>1. x \notin e.vlans \cup w.vlans \cup Tunnel
        <5>1. e.vlans \subseteq Vlan /\ w.vlans \subseteq Vlan
          BY <1>1, <1>3, NetworkTypes DEF Complete
        <5> QED
          BY <3>1, <5>1, RouteDomainAssumption
      <4> QED
        BY <1>4, <2>1, <3>1, <4>1 DEF Placed, Places
    <3>2. CASE x \in v.vlans \cup Tunnel
      <4>1. x \notin Foreign
        <5>1. v.vlans \subseteq Vlan
          BY <1>1, NetworkTypes
        <5> QED
          BY <3>2, <5>1, RouteDomainAssumption
      <4> QED
        BY <1>3, <1>4, <2>3, <2>4, <2>5, <3>2, <4>1 DEF Placed, Places
    <3> QED
      BY <3>1, <3>2
  <2> QED
    BY <2>2, <2>6
<1>5. NetworkLeft(e, w) = v
  BY <1>1, <1>3, <1>4, NetworkBecomes
<1>6. (IF goal = w THEN w ELSE NetworkWrite(w, w, goal)) = v
  BY <1>1, <1>3, <1>5, NetworkUpdated
<1> HIDE DEF goal
<1> QED
  BY <1>3, <1>6
  DEF Restored, Found, Returned, Known, Updated, ReadFor, ReadOf, FixOf, WriteOf, ComparedOf

-----------------------------------------------------------------------------
(* Global server load balancing: servers *)

(* What the fixes make of a server: a translation may be None, as in the   *)
(* declaration, or Unsaid, as in what was read.                            *)
WantedVirtual ==
  [name: Name \cup {Index[i] : i \in DOMAIN Index}, monitors: Seq(Monitor),
   translation: Translation \cup {Unsaid, None}]

WantedServer ==
  [center: ShortName, pool: ShortName \cup {None}, product: Product,
   monitors: Seq(Monitor), virtuals: Seq(WantedVirtual)]

Kept(vs)  == [vs EXCEPT !.translation = IF @ = Unsaid THEN None ELSE @]
Shown(vs) == [vs EXCEPT !.translation = IF @ = None THEN Unsaid ELSE @]

ShownServer(s) == [s EXCEPT !.virtuals = [i \in DOMAIN s.virtuals |-> Shown(s.virtuals[i])]]

(* The forms of a server are forms on the way, and never Unsaid.           *)
LEMMA ServerForms ==
  /\ WantedVirtual \subseteq AnyVirtual /\ DeclaredVirtual \subseteq AnyVirtual
  /\ StoredVirtual \subseteq WantedVirtual /\ ReadVirtual \subseteq WantedVirtual
  /\ WantedServer \subseteq AnyServer /\ DeclaredServer \subseteq AnyServer
  /\ StoredServer \subseteq WantedServer /\ ReadServer \subseteq WantedServer
  /\ Unsaid \notin AnyServer
<1>1. /\ WantedVirtual \subseteq AnyVirtual /\ DeclaredVirtual \subseteq AnyVirtual
      /\ StoredVirtual \subseteq WantedVirtual /\ ReadVirtual \subseteq WantedVirtual
  BY DEF WantedVirtual, AnyVirtual, DeclaredVirtual, StoredVirtual, ReadVirtual
<1>2. ShortName \subseteq CommonName
  BY DEF ShortName, CommonName
<1>3. /\ Seq(WantedVirtual) \subseteq Seq(AnyVirtual)
      /\ Seq(DeclaredVirtual) \subseteq Seq(AnyVirtual)
      /\ Seq(StoredVirtual) \subseteq Seq(WantedVirtual)
      /\ Seq(ReadVirtual) \subseteq Seq(WantedVirtual)
  BY <1>1
<1>4. WantedServer \subseteq AnyServer /\ DeclaredServer \subseteq AnyServer
  BY <1>2, <1>3 DEF WantedServer, DeclaredServer, AnyServer
<1>5. StoredServer \subseteq WantedServer /\ ReadServer \subseteq WantedServer
  BY <1>3 DEF WantedServer, StoredServer, ReadServer
<1> QED
  BY <1>1, <1>4, <1>5, GslbAssumption

LEMMA VirtualFacts ==
  ASSUME NEW vs \in WantedVirtual
  PROVE  /\ Kept(vs) \in StoredVirtual /\ Shown(Kept(vs)) \in ReadVirtual
         /\ vs.translation # None => Shown(Kept(vs)) = vs
         /\ vs \in StoredVirtual => Shown(vs) \in ReadVirtual /\ Kept(Shown(vs)) = vs
<1>1. Unsaid # None /\ Unsaid \notin Translation /\ None \notin Translation
  BY GslbAssumption
<1> QED
  BY <1>1 DEF WantedVirtual, StoredVirtual, ReadVirtual, Kept, Shown

(* What is stored of a server, and read back.                              *)
LEMMA ServerIsStored ==
  ASSUME NEW s \in WantedServer
  PROVE  LET t == Translated(s)
         IN /\ t \in StoredServer /\ t # Unsaid /\ ShownServer(t) \in ReadServer
            /\ t.center = s.center /\ t.monitors = s.monitors
            /\ Len(t.virtuals) = Len(s.virtuals)
            /\ (\A i \in DOMAIN s.virtuals : s.virtuals[i].translation # None)
                 => ShownServer(t) = s
<1> DEFINE vs == s.virtuals
           ks == [i \in DOMAIN vs |-> Kept(vs[i])]
           rs == [i \in DOMAIN vs |-> Shown(Kept(vs[i]))]
<1>1. /\ vs \in Seq(WantedVirtual) /\ vs # Unsaid
      /\ s = [center |-> s.center, pool |-> s.pool, product |-> s.product,
              monitors |-> s.monitors, virtuals |-> vs]
      /\ s.center \in ShortName /\ s.pool \in ShortName \cup {None} /\ s.product \in Product
      /\ s.monitors \in Seq(Monitor)
  <2>1. vs \in Seq(AnyVirtual)
    BY ServerForms DEF WantedServer
  <2> QED
    BY <2>1, GslbAssumption DEF WantedServer
<1>2. Translated(s) = [s EXCEPT !.virtuals = ks]
  BY <1>1 DEF Translated, Kept
<1>3. ks \in Seq(StoredVirtual) /\ rs \in Seq(ReadVirtual) /\ Len(ks) = Len(vs)
  <2>1. \A i \in DOMAIN vs : vs[i] \in WantedVirtual
    BY <1>1
  <2>2. \A i \in DOMAIN vs : Kept(vs[i]) \in StoredVirtual /\ Shown(Kept(vs[i])) \in ReadVirtual
    BY <2>1, VirtualFacts
  <2>3. DOMAIN vs = 1 .. Len(vs) /\ Len(vs) \in Nat
    BY <1>1
  <2>4. ks \in [1 .. Len(vs) -> StoredVirtual] /\ rs \in [1 .. Len(vs) -> ReadVirtual]
    BY <2>2, <2>3
  <2> HIDE DEF ks, rs
  <2> QED
    BY <2>3, <2>4
<1>4. Translated(s) = [center |-> s.center, pool |-> s.pool, product |-> s.product,
                       monitors |-> s.monitors, virtuals |-> ks]
  BY <1>1, <1>2
<1>5. ShownServer(Translated(s)) =
        [center |-> s.center, pool |-> s.pool, product |-> s.product,
         monitors |-> s.monitors, virtuals |-> rs]
  <2>1. [i \in DOMAIN ks |-> Shown(ks[i])] = rs
    OBVIOUS
  <2> HIDE DEF ks, rs
  <2> QED
    BY <1>4, <2>1 DEF ShownServer
<1>6. (\A i \in DOMAIN vs : vs[i].translation # None) => rs = vs
  BY <1>1, VirtualFacts
<1> HIDE DEF ks, rs
<1>7. Translated(s) \in StoredServer
  BY <1>1, <1>3, <1>4 DEF StoredServer
<1>8. ShownServer(Translated(s)) \in ReadServer
  BY <1>1, <1>3, <1>5 DEF ReadServer
<1>9. Translated(s) # Unsaid
  BY <1>7, ServerForms
<1> QED
  BY <1>1, <1>3, <1>4, <1>5, <1>6, <1>7, <1>8, <1>9

LEMMA ServerIsRead ==
  ASSUME NEW s \in StoredServer
  PROVE  ShownServer(s) \in ReadServer /\ Translated(ShownServer(s)) = s
<1> DEFINE vs == s.virtuals
           rs == [i \in DOMAIN vs |-> Shown(vs[i])]
<1>1. /\ vs \in Seq(StoredVirtual)
      /\ s = [center |-> s.center, pool |-> s.pool, product |-> s.product,
              monitors |-> s.monitors, virtuals |-> vs]
      /\ s.center \in ShortName /\ s.pool \in ShortName \cup {None} /\ s.product \in Product
      /\ s.monitors \in Seq(Monitor)
  BY DEF StoredServer
<1>2. rs \in Seq(ReadVirtual) /\ [i \in DOMAIN rs |-> Kept(rs[i])] = vs
  BY <1>1, VirtualFacts, ServerForms
<1>3. rs # Unsaid
  <2>1. rs \in Seq(AnyVirtual)
    BY <1>2, ServerForms
  <2> QED
    BY <2>1, GslbAssumption
<1>4. ShownServer(s) = [center |-> s.center, pool |-> s.pool, product |-> s.product,
                        monitors |-> s.monitors, virtuals |-> rs]
  BY <1>1 DEF ShownServer
<1> HIDE DEF rs
<1>5. ShownServer(s) \in ReadServer
  BY <1>1, <1>2, <1>4 DEF ReadServer
<1>6. Translated(ShownServer(s)) = [ShownServer(s) EXCEPT !.virtuals = vs]
  BY <1>2, <1>3, <1>4 DEF Translated, Kept
<1> QED
  BY <1>1, <1>4, <1>5, <1>6

(* What is read is fixed as it is.                                         *)
LEMMA ServerStays ==
  ASSUME NEW s \in ReadServer
  PROVE  GSLBServerFix(s) = s
<1> DEFINE vs == s.virtuals
           fs == [i \in DOMAIN vs |-> VirtualServer(vs[i], i)]
<1>1. /\ vs \in Seq(ReadVirtual) /\ vs # Unsaid /\ s.monitors # Unsaid
      /\ s = [center |-> s.center, pool |-> s.pool, product |-> s.product,
              monitors |-> s.monitors, virtuals |-> vs]
      /\ s.center \in ShortName /\ s.pool \in ShortName \cup {None}
      /\ s.monitors \in Seq(Monitor)
  <2>1. vs \in Seq(AnyVirtual) /\ vs \in Seq(ReadVirtual)
    BY ServerForms DEF ReadServer
  <2> QED
    BY <2>1, GslbAssumption DEF ReadServer
<1>2. Short(s.center) = s.center /\ (s.pool # None => Short(s.pool) = s.pool)
  BY <1>1 DEF Short, ShortName
<1>3. ServerMonitors(s) = s.monitors
  BY <1>1 DEF ServerMonitors, MonitorList
<1>4. ASSUME NEW i \in DOMAIN vs
      PROVE  VirtualServer(vs[i], i) = vs[i]
  <2>1. vs[i] \in ReadVirtual
    BY <1>1
  <2>2. vs[i].name # Unsaid /\ vs[i].monitors # Unsaid
    BY <2>1, GslbAssumption DEF ReadVirtual
  <2> QED
    BY <2>1, <2>2 DEF VirtualServer, MonitorList, ReadVirtual
<1>5. fs = vs
  BY <1>1, <1>4
<1>6. GSLBServerFix(s) = [s EXCEPT !.center = s.center, !.pool = s.pool,
                                   !.monitors = s.monitors, !.virtuals = vs]
  BY <1>1, <1>2, <1>3, <1>5 DEF GSLBServerFix
<1> QED
  BY <1>1, <1>6

(* What the fixes make of a server that is declared.                       *)
LEMMA ServerIsFixed ==
  ASSUME NEW s \in DeclaredServer,
         s.virtuals # Unsaid => DOMAIN s.virtuals \subseteq DOMAIN Index
  PROVE  LET p == ParsedServer(s)
             f == GSLBServerFix(p)
         IN /\ f \in WantedServer /\ p # Unsaid /\ p.monitors = s.monitors
            /\ p.product = s.product /\ f.center.name = p.center.name
            /\ f.monitors = ServerMonitors(p)
            /\ p.virtuals # Unsaid => Len(f.virtuals) = Len(p.virtuals)
            /\ (s.virtuals # Unsaid =>
                  \A i \in DOMAIN s.virtuals : s.virtuals[i].translation \notin {Unsaid, None})
                 => \A i \in DOMAIN f.virtuals : f.virtuals[i].translation # None
<1> DEFINE vs == s.virtuals
           ps == IF vs = Unsaid THEN Unsaid ELSE [i \in DOMAIN vs |-> Kept(vs[i])]
           pool == IF s.pool = Unsaid THEN None ELSE s.pool
           p == [center |-> s.center, pool |-> pool, product |-> s.product,
                 monitors |-> s.monitors, virtuals |-> ps]
           listed == IF ps = Unsaid THEN <<>> ELSE ps
           fs == [i \in DOMAIN listed |-> VirtualServer(listed[i], i)]
<1>1. /\ vs \in Seq(DeclaredVirtual) \cup {Unsaid} /\ s.monitors \in Seq(Monitor) \cup {Unsaid}
      /\ s = [center |-> s.center, pool |-> s.pool, product |-> s.product,
              monitors |-> s.monitors, virtuals |-> vs]
      /\ s.center \in CommonName /\ s.pool \in CommonName \cup {Unsaid} /\ s.product \in Product
  BY DEF DeclaredServer
<1>2. ParsedServer(s) = p
  <2>1. Translated(s) = [center |-> s.center, pool |-> s.pool, product |-> s.product,
                         monitors |-> s.monitors, virtuals |-> ps]
    <3>1. CASE vs = Unsaid
      <4>1. Translated(s) = [s EXCEPT !.virtuals = Unsaid]
        BY <3>1 DEF Translated
      <4> QED
        BY <1>1, <3>1, <4>1
    <3>2. CASE vs # Unsaid
      <4>1. Translated(s) = [s EXCEPT !.virtuals = [i \in DOMAIN vs |-> Kept(vs[i])]]
        BY <1>1, <3>2 DEF Translated, Kept
      <4> QED
        BY <1>1, <3>2, <4>1
    <3> QED
      BY <3>1, <3>2
  <2> HIDE DEF ps
  <2> QED
    BY <2>1 DEF ParsedServer
<1>3. vs # Unsaid =>
        /\ ps \in Seq(AnyVirtual) /\ ps # Unsaid /\ DOMAIN ps = DOMAIN vs
        /\ \A i \in DOMAIN ps : ps[i] = Kept(vs[i]) /\ vs[i] \in DeclaredVirtual
  <2> SUFFICES ASSUME vs # Unsaid
               PROVE  /\ ps \in Seq(AnyVirtual) /\ ps # Unsaid /\ DOMAIN ps = DOMAIN vs
                      /\ \A i \in DOMAIN ps : ps[i] = Kept(vs[i]) /\ vs[i] \in DeclaredVirtual
    OBVIOUS
  <2>1. \A x \in DeclaredVirtual : Kept(x) \in AnyVirtual
    BY DEF DeclaredVirtual, AnyVirtual, Kept
  <2>2. vs \in Seq(DeclaredVirtual)
    BY <1>1
  <2>3. [i \in DOMAIN vs |-> Kept(vs[i])] \in Seq(AnyVirtual)
    BY <2>1, <2>2
  <2> QED
    BY <2>2, <2>3, GslbAssumption
<1>4. listed \in Seq(AnyVirtual) /\ DOMAIN listed \subseteq DOMAIN Index
      /\ \A i \in DOMAIN listed :
           vs # Unsaid /\ i \in DOMAIN vs /\ listed[i] = Kept(vs[i]) /\ vs[i] \in DeclaredVirtual
  <2>1. CASE vs = Unsaid
    <3>1. listed = <<>>
      BY <2>1
    <3> HIDE DEF listed
    <3> QED
      BY <3>1
  <2>2. CASE vs # Unsaid
    <3>1. listed = ps
      BY <1>3, <2>2
    <3> HIDE DEF listed, ps
    <3> QED
      BY <1>3, <2>2, <3>1
  <2> QED
    BY <2>1, <2>2
<1>5. ASSUME NEW i \in DOMAIN listed
      PROVE  /\ VirtualServer(listed[i], i) \in WantedVirtual
             /\ VirtualServer(listed[i], i).translation = Kept(vs[i]).translation
  <2>1. Index[i] \in {Index[j] : j \in DOMAIN Index} /\ <<>> \in Seq(Monitor)
    BY <1>4
  <2>2. MonitorList(vs[i].monitors) \in Seq(Monitor)
    BY <1>4, <2>1 DEF MonitorList, DeclaredVirtual
  <2>3. /\ listed[i] = Kept(vs[i]) /\ vs[i] \in DeclaredVirtual
    BY <1>4
  <2> QED
    BY <2>1, <2>2, <2>3 DEF VirtualServer, WantedVirtual, DeclaredVirtual, Kept
<1>6. fs \in Seq(WantedVirtual) /\ DOMAIN fs = DOMAIN listed /\ Len(fs) = Len(listed)
  <2> HIDE DEF listed
  <2>1. DOMAIN listed = 1 .. Len(listed) /\ Len(listed) \in Nat
    BY <1>4
  <2>2. fs \in [1 .. Len(listed) -> WantedVirtual] /\ DOMAIN fs = DOMAIN listed
    BY <1>5, <2>1
  <2> HIDE DEF fs
  <2> QED
    BY <2>1, <2>2
<1>7. ServerMonitors(p) \in Seq(Monitor)
  BY <1>1, GslbAssumption DEF ServerMonitors, MonitorList
<1>8. /\ Short(s.center) \in ShortName /\ Short(s.center).name = s.center.name
      /\ (IF pool = None THEN pool ELSE Short(pool)) \in ShortName \cup {None}
  BY <1>1, GslbAssumption DEF Short, ShortName, CommonName
<1>9. p \in AnyServer
  <2>1. ps \in Seq(AnyVirtual) \cup {Unsaid}
    BY <1>3
  <2> HIDE DEF ps
  <2> QED
    BY <1>1, <2>1 DEF AnyServer
<1>10. GSLBServerFix(p) =
        [center |-> Short(s.center), pool |-> IF pool = None THEN pool ELSE Short(pool),
         product |-> s.product, monitors |-> ServerMonitors(p), virtuals |-> fs]
  <2> HIDE DEF ps, pool
  <2>1. /\ p.center = s.center /\ p.pool = pool /\ p.virtuals = ps
        /\ p = [center |-> s.center, pool |-> pool, product |-> s.product,
                monitors |-> s.monitors, virtuals |-> ps]
    OBVIOUS
  <2> HIDE DEF p
  <2>2. GSLBServerFix(p) =
          [p EXCEPT !.center = Short(s.center), !.pool = IF pool = None THEN pool ELSE Short(pool),
                    !.monitors = ServerMonitors(p), !.virtuals = fs]
    BY <2>1 DEF GSLBServerFix
  <2> DEFINE center == Short(s.center)
             place == IF pool = None THEN pool ELSE Short(pool)
             p1 == [p EXCEPT !.center = center]
             p2 == [p1 EXCEPT !.pool = place]
             p3 == [p2 EXCEPT !.monitors = ServerMonitors(p)]
  <2>4. p1 = [center |-> center, pool |-> pool, product |-> s.product,
              monitors |-> s.monitors, virtuals |-> ps]
    BY <2>1
  <2> HIDE DEF p1
  <2>5. p2 = [center |-> center, pool |-> place, product |-> s.product,
              monitors |-> s.monitors, virtuals |-> ps]
    <3> HIDE DEF center, place
    <3> QED
      BY <2>4
  <2> HIDE DEF p2
  <2>6. p3 = [center |-> center, pool |-> place, product |-> s.product,
              monitors |-> ServerMonitors(p), virtuals |-> ps]
    <3> HIDE DEF center, place
    <3> QED
      BY <2>5
  <2> HIDE DEF p3
  <2>7. [p3 EXCEPT !.virtuals = fs] =
          [center |-> center, pool |-> place, product |-> s.product,
           monitors |-> ServerMonitors(p), virtuals |-> fs]
    <3> HIDE DEF center, place, fs
    <3> QED
      BY <2>6
  <2> HIDE DEF fs
  <2> QED
    BY <2>2, <2>7 DEF p1, p2, p3, center, place
<1>11. ASSUME vs # Unsaid =>
                \A i \in DOMAIN vs : vs[i].translation \notin {Unsaid, None},
              NEW i \in DOMAIN fs
       PROVE  fs[i].translation # None
  <2>1. i \in DOMAIN listed /\ fs[i] = VirtualServer(listed[i], i)
    BY <1>6, <1>11
  <2>2. vs[i].translation \notin {Unsaid, None} /\ vs[i] \in DeclaredVirtual
    BY <1>4, <1>11, <2>1
  <2>3. Kept(vs[i]).translation = vs[i].translation
    BY <2>2 DEF Kept, DeclaredVirtual
  <2> QED
    BY <1>5, <2>1, <2>2, <2>3
<1>12. /\ p.monitors = s.monitors /\ p.product = s.product /\ p.center = s.center
       /\ p.virtuals = ps /\ (ps # Unsaid => listed = ps)
  OBVIOUS
<1> HIDE DEF ps, pool, p, listed, fs
<1>13. GSLBServerFix(p) \in WantedServer
  BY <1>1, <1>6, <1>7, <1>8, <1>10 DEF WantedServer
<1> QED
  BY <1>2, <1>6, <1>8, <1>9, <1>10, <1>11, <1>12, <1>13, GslbAssumption

-----------------------------------------------------------------------------
(* Global server load balancing: prober pools *)

(* A pool as it is declared and read: its members count from 0.            *)
Counting(p) == \A i \in DOMAIN p : p[i].order = i - 1

(* Members that count from 0 are put in no order and sorted back.          *)
LEMMA PoolIsRead ==
  ASSUME NEW p \in Seq(Member), Counting(p)
  PROVE  /\ ToSet(p) \subseteq Member /\ Ordered(ToSet(p)) /\ SortedMembers(ToSet(p)) = p
         /\ {m.order : m \in ToSet(p)} = 0 .. Len(p) - 1
<1> DEFINE s == ToSet(p)
           n == Len(p)
           f == [i \in 1 .. n |-> p[i]]
<1>1. n \in Nat /\ DOMAIN p = 1 .. n /\ s = {p[i] : i \in 1 .. n} /\ s \subseteq Member
  BY DEF ToSet
<1>2. \A i, j \in 1 .. n : p[i].order = p[j].order => i = j
  BY <1>1 DEF Counting
<1>3. f \in Bijection(1 .. n, s)
  <2>1. \A i, j \in 1 .. n : f[i] = f[j] => i = j
    BY <1>2
  <2>2. f \in [1 .. n -> s] /\ \A m \in s : \E i \in 1 .. n : f[i] = m
    BY <1>1
  <2> QED
    BY <2>1, <2>2 DEF Bijection, Injection, Surjection, IsInjective
<1>4. IsFiniteSet(s) /\ Cardinality(s) = n
  <2>1. IsFiniteSet(1 .. n) /\ Cardinality(1 .. n) = n
    BY <1>1, FS_Interval
  <2>2. ExistsBijection(1 .. n, s)
    BY <1>3 DEF ExistsBijection
  <2> QED
    BY <2>1, <2>2, FS_Bijection
<1>5. {m.order : m \in s} = 0 .. n - 1
  <2>1. ASSUME NEW k \in 0 .. n - 1
        PROVE  \E m \in s : m.order = k
    <3>1. k + 1 \in 1 .. n /\ p[k + 1].order = k /\ p[k + 1] \in s
      BY <1>1, <2>1 DEF Counting
    <3> QED
      BY <3>1
  <2>2. ASSUME NEW m \in s
        PROVE  m.order \in 0 .. n - 1
    <3>1. PICK i \in 1 .. n : m = p[i]
      BY <1>1
    <3> QED
      BY <1>1, <3>1 DEF Counting
  <2> QED
    BY <2>1, <2>2
<1>6. \A m, q \in s : m.order = q.order => m = q
  BY <1>1, <1>2
<1>7. ASSUME NEW i \in 1 .. n
      PROVE  (CHOOSE m \in s : m.order = i - 1) = p[i]
  <2>1. p[i] \in s /\ p[i].order = i - 1
    BY <1>1 DEF Counting
  <2> HIDE DEF s
  <2>2. \E m \in s : m.order = i - 1
    BY <2>1
  <2>3. /\ (CHOOSE m \in s : m.order = i - 1) \in s
        /\ (CHOOSE m \in s : m.order = i - 1).order = i - 1
    BY <2>2
  <2> QED
    BY <1>6, <2>1, <2>3
<1> HIDE DEF s
<1>8. SortedMembers(s) = p
  <2>1. SortedMembers(s) = [i \in 1 .. n |-> p[i]]
    BY <1>4, <1>7 DEF SortedMembers
  <2> QED
    BY <1>1, <2>1
<1> QED
  BY <1>1, <1>4, <1>5, <1>6, <1>8 DEF Ordered, s

LEMMA PoolIsStored ==
  ASSUME NEW s \in SUBSET Member, Ordered(s)
  PROVE  LET p == SortedMembers(s)
         IN p \in Seq(Member) /\ Counting(p) /\ ToSet(p) = s
<1> DEFINE n == Cardinality(s)
           p == SortedMembers(s)
<1>1. n \in Nat
  BY FS_CardinalityType DEF Ordered
<1>2. ASSUME NEW i \in 1 .. n
      PROVE  p[i] \in s /\ p[i].order = i - 1
  <2>1. i - 1 \in {m.order : m \in s}
    BY <1>1 DEF Ordered
  <2>2. \E m \in s : m.order = i - 1
    BY <2>1
  <2>3. p[i] = CHOOSE m \in s : m.order = i - 1
    BY DEF SortedMembers
  <2> QED
    BY <2>2, <2>3
<1>3. p = [i \in 1 .. n |-> p[i]] /\ DOMAIN p = 1 .. n
  BY DEF SortedMembers
<1> HIDE DEF p
<1>4. p \in Seq(Member)
  <2>1. p \in [1 .. n -> Member]
    BY <1>2, <1>3
  <2> QED
    BY <1>1, <2>1
<1>5. ASSUME NEW m \in s
      PROVE  \E i \in 1 .. n : p[i] = m
  <2>1. m.order \in 0 .. n - 1
    BY DEF Ordered
  <2>2. m.order + 1 \in 1 .. n /\ (m.order + 1) - 1 = m.order
    BY <1>1, <2>1
  <2>3. p[m.order + 1] \in s /\ p[m.order + 1].order = m.order
    BY <1>2, <2>2
  <2>4. p[m.order + 1] = m
    BY <2>3 DEF Ordered
  <2> QED
    BY <2>2, <2>4
<1>6. ToSet(p) = s
  <2>1. \A x : x \in ToSet(p) <=> \E i \in 1 .. n : p[i] = x
    BY <1>3 DEF ToSet
  <2> QED
    BY <1>2, <1>5, <2>1
<1>7. Counting(p)
  BY <1>2, <1>3 DEF Counting
<1> QED
  BY <1>4, <1>6, <1>7 DEF p

LEMMA PoolIsFixed ==
  ASSUME NEW p \in Seq(DeclaredMember)
  PROVE  LET f == GSLBProberPoolFix(p)
         IN /\ f \in Seq(Member) /\ Counting(f) /\ Len(f) = Len(p)
            /\ \A m \in ToSet(f) : m.server.name = p[m.order + 1].server.name
<1> DEFINE f == GSLBProberPoolFix(p)
<1>1. DOMAIN p = 1 .. Len(p) /\ Len(p) \in Nat
  OBVIOUS
<1>2. ASSUME NEW i \in DOMAIN p
      PROVE  f[i] \in Member /\ f[i].order = i - 1 /\ f[i].server.name = p[i].server.name
  <2>1. p[i] \in DeclaredMember
    BY <1>1
  <2>2. Short(p[i].server) \in ShortName /\ Short(p[i].server).name = p[i].server.name
    BY <2>1 DEF DeclaredMember, CommonName, Short, ShortName
  <2>3. i - 1 \in Nat /\ f[i] = [server |-> Short(p[i].server), order |-> i - 1]
    BY <1>1 DEF GSLBProberPoolFix
  <2> QED
    BY <2>2, <2>3 DEF Member
<1>3. f = [i \in 1 .. Len(p) |-> f[i]] /\ DOMAIN f = DOMAIN p
  BY <1>1 DEF GSLBProberPoolFix
<1> HIDE DEF f
<1>4. f \in Seq(Member) /\ Len(f) = Len(p)
  BY <1>1, <1>2, <1>3
<1>5. Counting(f)
  BY <1>2, <1>3 DEF Counting
<1>6. ASSUME NEW m \in ToSet(f)
      PROVE  m.server.name = p[m.order + 1].server.name
  <2>1. PICK i \in DOMAIN p : m = f[i]
    BY <1>3 DEF ToSet
  <2> QED
    BY <1>1, <1>2, <2>1
<1> QED
  BY <1>4, <1>5, <1>6 DEF f

(* What is read is fixed as it is.                                         *)
LEMMA PoolStays ==
  ASSUME NEW p \in Seq(Member), Counting(p)
  PROVE  GSLBProberPoolFix(p) = p
<1>1. ASSUME NEW i \in DOMAIN p
      PROVE  p[i] = [server |-> Short(p[i].server), order |-> i - 1]
  <2>1. p[i] \in Member /\ p[i].order = i - 1
    BY DEF Counting
  <2> QED
    BY <2>1 DEF Member, Short, ShortName
<1> QED
  BY <1>1 DEF GSLBProberPoolFix

-----------------------------------------------------------------------------
(* Global server load balancing: the classes together *)

WantedGslb ==
  {c \in [globals: [GlobalSetting -> GlobalValue], server: WantedServer \cup {Unsaid},
          pool: Seq(Member) \cup {Unsaid}] : c.pool # Unsaid => Counting(c.pool)}

LEMMA GslbForms ==
  /\ \A c \in GslbConfig : c \in WantedGslb /\ (c.server # Unsaid => c.server \in ReadServer)
  /\ \A c \in WantedGslb :
       /\ c = [globals |-> c.globals, server |-> c.server, pool |-> c.pool]
       /\ c.globals \in [GlobalSetting -> GlobalValue]
       /\ c.server = Unsaid \/ c.server \in WantedServer
       /\ c.pool = Unsaid \/ (c.pool \in Seq(Member) /\ Counting(c.pool))
  /\ Unsaid \notin WantedServer /\ Unsaid \notin ReadServer
<1>1. /\ ReadServer \subseteq WantedServer
      /\ Unsaid \notin WantedServer /\ Unsaid \notin ReadServer
  BY ServerForms
<1>2. ASSUME NEW c \in GslbConfig
      PROVE  c \in WantedGslb /\ (c.server # Unsaid => c.server \in ReadServer)
  BY <1>1 DEF GslbConfig, WantedGslb, Counting
<1>3. ASSUME NEW c \in WantedGslb
      PROVE  /\ c = [globals |-> c.globals, server |-> c.server, pool |-> c.pool]
             /\ c.globals \in [GlobalSetting -> GlobalValue]
             /\ c.server = Unsaid \/ c.server \in WantedServer
             /\ c.pool = Unsaid \/ (c.pool \in Seq(Member) /\ Counting(c.pool))
  BY DEF WantedGslb
<1> QED
  BY <1>1, <1>2, <1>3

(* What of a configuration comes to the device, and is read again.         *)
LEMMA GslbIsStored ==
  ASSUME NEW c \in WantedGslb
  PROVE  LET o == GslbStored(c)
             r == GslbRead(o)
         IN /\ o \in GslbDevice /\ o.globals = c.globals
            /\ c.server # Unsaid => o.server # Unsaid /\ o.server = Translated(c.server)
            /\ c.pool # Unsaid => o.pool # Unsaid /\ o.pool = [members |-> ToSet(c.pool)]
            /\ r.globals = c.globals /\ r.pool = c.pool
            /\ r = [globals |-> r.globals, server |-> r.server, pool |-> r.pool]
            /\ r.server = IF c.server = Unsaid THEN Unsaid
                          ELSE ShownServer(Translated(c.server))
<1> DEFINE t == IF c.server = Unsaid THEN Unsaid ELSE Translated(c.server)
           p == IF c.pool = Unsaid THEN Unsaid ELSE [members |-> ToSet(c.pool)]
           o == [globals |-> c.globals, server |-> t, pool |-> p]
           u == IF t = Unsaid THEN Unsaid ELSE ShownServer(t)
           q == IF p = Unsaid THEN Unsaid ELSE SortedMembers(p.members)
<1>1. /\ c = [globals |-> c.globals, server |-> c.server, pool |-> c.pool]
      /\ c.globals \in [GlobalSetting -> GlobalValue]
      /\ c.server = Unsaid \/ c.server \in WantedServer
      /\ c.pool = Unsaid \/ (c.pool \in Seq(Member) /\ Counting(c.pool))
  BY GslbForms
<1>2. GslbStored(c) = o
  <2>1. GslbStored(c) = [[c EXCEPT !.server = t] EXCEPT !.pool = p]
    BY <1>1 DEF GslbStored
  <2> HIDE DEF t, p
  <2> QED
    BY <1>1, <2>1
<1>3. c.server # Unsaid => t \in StoredServer /\ t # Unsaid /\ t = Translated(c.server)
  BY <1>1, ServerIsStored
<1>4. c.pool # Unsaid =>
        /\ p = [members |-> ToSet(c.pool)] /\ p # Unsaid /\ p \in ProberPool
        /\ Ordered(p.members) /\ q = c.pool
  <2> SUFFICES ASSUME c.pool # Unsaid
               PROVE  /\ p = [members |-> ToSet(c.pool)] /\ p # Unsaid /\ p \in ProberPool
                      /\ Ordered(p.members) /\ q = c.pool
    OBVIOUS
  <2>1. /\ ToSet(c.pool) \subseteq Member /\ Ordered(ToSet(c.pool))
        /\ SortedMembers(ToSet(c.pool)) = c.pool
    BY <1>1, PoolIsRead
  <2>2. p = [members |-> ToSet(c.pool)] /\ p.members = ToSet(c.pool)
    OBVIOUS
  <2>3. p \in ProberPool
    BY <2>1, <2>2 DEF ProberPool
  <2>4. p # Unsaid
    BY <2>3, GslbAssumption
  <2> QED
    BY <2>1, <2>2, <2>3, <2>4
<1>5. (c.server = Unsaid => t = Unsaid) /\ (c.pool = Unsaid => p = Unsaid /\ q = Unsaid)
  OBVIOUS
<1>6. GslbRead(o) = [globals |-> c.globals, server |-> u, pool |-> q]
  <2>1. o.server = t /\ o.pool = p
    OBVIOUS
  <2> HIDE DEF t, p
  <2>2. GslbRead(o) = [[o EXCEPT !.server = u] EXCEPT !.pool = q]
    BY <2>1 DEF GslbRead, ShownServer, Shown
  <2> HIDE DEF u, q
  <2> QED
    BY <2>2
<1> HIDE DEF t, p, u, q
<1>7. o \in GslbDevice
  BY <1>1, <1>3, <1>4, <1>5 DEF GslbDevice
<1>8. u = IF c.server = Unsaid THEN Unsaid ELSE ShownServer(Translated(c.server))
  BY <1>3, <1>5 DEF u
<1> QED
  BY <1>2, <1>3, <1>4, <1>5, <1>6, <1>7, <1>8

(* What is read of a device is all there is.                               *)
LEMMA GslbIsRead ==
  ASSUME NEW v \in GslbDevice
  PROVE  LET c == GslbRead(v)
         IN /\ c \in GslbConfig /\ GslbStored(c) = v
            /\ v.server = Unsaid <=> c.server = Unsaid
            /\ v.pool = Unsaid <=> c.pool = Unsaid
<1> DEFINE u == IF v.server = Unsaid THEN Unsaid ELSE ShownServer(v.server)
           q == IF v.pool = Unsaid THEN Unsaid ELSE SortedMembers(v.pool.members)
           c == [globals |-> v.globals, server |-> u, pool |-> q]
           t == IF u = Unsaid THEN Unsaid ELSE Translated(u)
           p == IF q = Unsaid THEN Unsaid ELSE [members |-> ToSet(q)]
<1>1. /\ v = [globals |-> v.globals, server |-> v.server, pool |-> v.pool]
      /\ v.globals \in [GlobalSetting -> GlobalValue]
      /\ v.server = Unsaid \/ v.server \in StoredServer
      /\ v.pool = Unsaid \/ (v.pool \in ProberPool /\ Ordered(v.pool.members))
  BY DEF GslbDevice
<1>2. GslbRead(v) = c
  <2>1. GslbRead(v) = [[v EXCEPT !.server = u] EXCEPT !.pool = q]
    BY <1>1 DEF GslbRead, ShownServer, Shown
  <2> HIDE DEF u, q
  <2> QED
    BY <1>1, <2>1
<1>3. v.server # Unsaid => u \in ReadServer /\ u # Unsaid /\ t = v.server
  BY <1>1, ServerIsRead, GslbForms
<1>4. v.pool # Unsaid =>
        q \in Seq(Member) /\ Counting(q) /\ q # Unsaid /\ p = v.pool
  <2> SUFFICES ASSUME v.pool # Unsaid
               PROVE  q \in Seq(Member) /\ Counting(q) /\ q # Unsaid /\ p = v.pool
    OBVIOUS
  <2>1. /\ v.pool = [members |-> v.pool.members] /\ v.pool.members \in SUBSET Member
        /\ Ordered(v.pool.members)
    BY <1>1 DEF ProberPool
  <2>2. q = SortedMembers(v.pool.members)
    OBVIOUS
  <2>3. q \in Seq(Member) /\ Counting(q) /\ ToSet(q) = v.pool.members
    BY <2>1, <2>2, PoolIsStored
  <2>4. q # Unsaid
    BY <2>3, GslbAssumption
  <2>5. p = [members |-> ToSet(q)]
    BY <2>4
  <2> QED
    BY <2>1, <2>3, <2>4, <2>5
<1>5. /\ v.server = Unsaid => u = Unsaid /\ t = Unsaid
      /\ v.pool = Unsaid => q = Unsaid /\ p = Unsaid
  OBVIOUS
<1>6. GslbStored(c) = [globals |-> v.globals, server |-> t, pool |-> p]
  <2>1. c.server = u /\ c.pool = q
    OBVIOUS
  <2> HIDE DEF u, q
  <2>2. GslbStored(c) = [[c EXCEPT !.server = t] EXCEPT !.pool = p]
    BY <2>1 DEF GslbStored
  <2> HIDE DEF t, p
  <2> QED
    BY <2>2
<1> HIDE DEF t, p, u, q
<1>7. c \in GslbConfig
  BY <1>1, <1>3, <1>4, <1>5 DEF GslbConfig, Counting
<1>8. GslbStored(c) = v
  BY <1>1, <1>3, <1>4, <1>5, <1>6
<1> QED
  BY <1>2, <1>3, <1>4, <1>5, <1>7, <1>8

(* What a rollback wants is what was read.                                 *)
LEMMA GslbStays ==
  ASSUME NEW c \in GslbConfig, NEW first \in GslbConfig,
         first.server # Unsaid => c.server # Unsaid, first.pool # Unsaid => c.pool # Unsaid
  PROVE  GslbFix(c, first) = c
<1>1. /\ c = [globals |-> c.globals, server |-> c.server, pool |-> c.pool]
      /\ c.globals \in [GlobalSetting -> GlobalValue]
      /\ c.server = Unsaid \/ c.server \in ReadServer
      /\ c.pool = Unsaid \/ (c.pool \in Seq(Member) /\ Counting(c.pool))
  BY GslbForms
<1>2. c.globals # Unsaid /\ \A s \in GlobalSetting : c.globals[s] # Unsaid
  BY <1>1, GslbAssumption
<1>3. GSLBGlobalsFix(c.globals, first.globals) = c.globals
  BY <1>1, <1>2 DEF GSLBGlobalsFix
<1>4. (IF c.server = Unsaid THEN first.server ELSE GSLBServerFix(c.server)) = c.server
  BY <1>1, ServerStays
<1>5. (IF c.pool = Unsaid THEN first.pool ELSE GSLBProberPoolFix(c.pool)) = c.pool
  BY <1>1, PoolStays
<1> QED
  BY <1>1, <1>2, <1>3, <1>4, <1>5 DEF GslbFix

(* What the fixes make of a declaration.                                   *)
LEMMA GslbIsFixed ==
  ASSUME NEW d \in GslbDeclarations, NEW first \in GslbConfig
  PROVE  LET p == Parsed(d)
             f == GslbFix(p, first)
         IN /\ f \in WantedGslb
            /\ p.globals = d.globals /\ p.pool = d.pool
            /\ d.server = Unsaid => p.server = Unsaid
            /\ d.server # Unsaid => p.server # Unsaid /\ p.server = ParsedServer(d.server)
            /\ f.globals = IF d.globals = Unsaid THEN first.globals
                           ELSE GSLBGlobalsFix(d.globals, first.globals)
            /\ f.server = IF d.server = Unsaid THEN first.server
                          ELSE GSLBServerFix(ParsedServer(d.server))
            /\ f.pool = IF d.pool = Unsaid THEN first.pool ELSE GSLBProberPoolFix(d.pool)
<1> DEFINE s == IF d.server = Unsaid THEN Unsaid ELSE ParsedServer(d.server)
           p == [globals |-> d.globals, server |-> s, pool |-> d.pool]
           f == GslbFix(p, first)
<1>1. /\ d = [globals |-> d.globals, server |-> d.server, pool |-> d.pool]
      /\ d.globals = Unsaid \/ d.globals \in [GlobalSetting -> GlobalValue \cup {Unsaid}]
      /\ d.server = Unsaid \/
           (d.server \in DeclaredServer /\
             (d.server.virtuals # Unsaid => DOMAIN d.server.virtuals \subseteq DOMAIN Index))
      /\ d.pool = Unsaid \/ d.pool \in Seq(DeclaredMember)
  BY DEF GslbDeclarations
<1>2. Parsed(d) = p
  <2>1. Parsed(d) = [d EXCEPT !.server = s]
    BY <1>1 DEF Parsed
  <2> HIDE DEF s
  <2> QED
    BY <1>1, <2>1
<1>3. /\ first.globals \in [GlobalSetting -> GlobalValue]
      /\ first.server = Unsaid \/ first.server \in WantedServer
      /\ first.pool = Unsaid \/ (first.pool \in Seq(Member) /\ Counting(first.pool))
  BY GslbForms
<1>4. d.server # Unsaid =>
        s # Unsaid /\ s = ParsedServer(d.server) /\ GSLBServerFix(s) \in WantedServer
  BY <1>1, ServerIsFixed
<1>5. d.server = Unsaid => s = Unsaid
  OBVIOUS
<1>6. p.server = s /\ p.globals = d.globals /\ p.pool = d.pool
  OBVIOUS
<1> HIDE DEF s, p
<1>7. /\ f.globals = IF d.globals = Unsaid THEN first.globals
                     ELSE GSLBGlobalsFix(d.globals, first.globals)
      /\ f.server = IF d.server = Unsaid THEN first.server
                    ELSE GSLBServerFix(ParsedServer(d.server))
      /\ f.pool = IF d.pool = Unsaid THEN first.pool ELSE GSLBProberPoolFix(d.pool)
      /\ f = [globals |-> f.globals, server |-> f.server, pool |-> f.pool]
  BY <1>4, <1>5, <1>6 DEF GslbFix
<1> HIDE DEF f
<1>8. f.globals \in [GlobalSetting -> GlobalValue]
  BY <1>1, <1>3, <1>7, GslbAssumption DEF GSLBGlobalsFix
<1>9. f.server = Unsaid \/ f.server \in WantedServer
  BY <1>3, <1>4, <1>7
<1>10. f.pool = Unsaid \/ (f.pool \in Seq(Member) /\ Counting(f.pool))
  BY <1>1, <1>3, <1>7, PoolIsFixed
<1>11. f \in WantedGslb
  BY <1>7, <1>8, <1>9, <1>10 DEF WantedGslb
<1> QED
  BY <1>2, <1>4, <1>5, <1>6, <1>7, <1>11 DEF f

LEMMA GslbUpdated ==
  ASSUME NEW v \in GslbDevice, NEW fixed, NEW data, NEW first
  PROVE  Updated("gslb", v, GslbRead(v), fixed, data, first) = GslbStored(fixed)
<1>1. GslbStored(GslbRead(v)) = v
  BY GslbIsRead
<1>2. Updated("gslb", v, GslbRead(v), fixed, data, first) =
        IF fixed = GslbRead(v) THEN v ELSE GslbStored(fixed)
  BY DEF Updated, ComparedOf, WriteOf
<1> QED
  BY <1>1, <1>2

LEMMA GslbOutcome ==
  ASSUME NEW v, NEW first, NEW same, Ready("gslb", v, first, same),
         NEW d, IsDeclaration("gslb", d)
  PROVE  LET o == Outcome("gslb", v, d, first, same)
         IN /\ IsDevice("gslb", o) /\ Retained("gslb", o, first)
            /\ GslbMet(o, Parsed(d), first)
            /\ Quiet("gslb", o, d, first)
<1> DEFINE p == Parsed(d)
           f == GslbFix(p, first)
           o == GslbStored(f)
           r == GslbRead(o)
<1>1. v \in GslbDevice /\ first \in GslbConfig /\ d \in GslbDeclarations
  BY DEF Ready, IsDevice, IsConfig, IsDeclaration
<1>2. ASSUME NEW w \in GslbDevice, NEW b
      PROVE  Outcome("gslb", w, d, first, b) = o
  <2>1. Outcome("gslb", w, d, first, b) = Updated("gslb", w, GslbRead(w), f, d # Unsaid, first)
    BY DEF Outcome, Known, Wanted, ReadFor, ReadOf, FixOf, OriginalFor
  <2> QED
    BY <2>1, GslbUpdated
<1>3. Outcome("gslb", v, d, first, same) = o
  BY <1>1, <1>2
<1>4. /\ f \in WantedGslb /\ p.globals = d.globals /\ p.pool = d.pool
      /\ d.server = Unsaid => p.server = Unsaid
      /\ d.server # Unsaid => p.server # Unsaid /\ p.server = ParsedServer(d.server)
      /\ f.globals = IF d.globals = Unsaid THEN first.globals
                     ELSE GSLBGlobalsFix(d.globals, first.globals)
      /\ f.server = IF d.server = Unsaid THEN first.server
                    ELSE GSLBServerFix(ParsedServer(d.server))
      /\ f.pool = IF d.pool = Unsaid THEN first.pool ELSE GSLBProberPoolFix(d.pool)
  BY <1>1, GslbIsFixed
<1>5. /\ o \in GslbDevice /\ o.globals = f.globals
      /\ f.server # Unsaid => o.server # Unsaid /\ o.server = Translated(f.server)
      /\ f.pool # Unsaid => o.pool # Unsaid /\ o.pool = [members |-> ToSet(f.pool)]
      /\ r.globals = f.globals /\ r.pool = f.pool
      /\ r = [globals |-> r.globals, server |-> r.server, pool |-> r.pool]
      /\ r.server = IF f.server = Unsaid THEN Unsaid ELSE ShownServer(Translated(f.server))
  BY <1>4, GslbIsStored
<1>6. /\ d.server = Unsaid \/
           (d.server \in DeclaredServer /\
             (d.server.virtuals # Unsaid => DOMAIN d.server.virtuals \subseteq DOMAIN Index))
      /\ d.pool = Unsaid \/ d.pool \in Seq(DeclaredMember)
  BY <1>1 DEF GslbDeclarations
<1> HIDE DEF p, f, o, r
<1>7. d.server # Unsaid =>
        /\ f.server \in WantedServer /\ f.server # Unsaid /\ p.server.monitors = d.server.monitors
        /\ p.server.product = d.server.product
        /\ f.server.center.name = p.server.center.name
        /\ f.server.monitors = ServerMonitors(p.server)
        /\ p.server.virtuals # Unsaid => Len(f.server.virtuals) = Len(p.server.virtuals)
        /\ (d.server.virtuals # Unsaid =>
              \A i \in DOMAIN d.server.virtuals :
                d.server.virtuals[i].translation \notin {Unsaid, None})
             => \A i \in DOMAIN f.server.virtuals : f.server.virtuals[i].translation # None
  BY <1>4, <1>6, ServerIsFixed, GslbForms
<1>8. d.pool # Unsaid =>
        /\ f.pool \in Seq(Member) /\ Counting(f.pool) /\ f.pool # Unsaid
        /\ Len(f.pool) = Len(d.pool)
        /\ \A m \in ToSet(f.pool) : m.server.name = d.pool[m.order + 1].server.name
  BY <1>4, <1>6, PoolIsFixed, GslbAssumption
<1>9. IsDevice("gslb", o) /\ Retained("gslb", o, first)
  <2>1. first.server # Unsaid => o.server # Unsaid
    BY <1>4, <1>5, <1>7
  <2>2. first.pool # Unsaid => o.pool # Unsaid
    BY <1>4, <1>5, <1>8
  <2> QED
    BY <1>5, <2>1, <2>2 DEF IsDevice, Retained
<1>10. GslbMet(o, p, first)
  <2>1. p.globals # Unsaid =>
          \A s \in GlobalSetting :
            o.globals[s] = IF p.globals[s] = Unsaid THEN first.globals[s] ELSE p.globals[s]
    BY <1>4, <1>5 DEF GSLBGlobalsFix
  <2>2. ASSUME p.server # Unsaid
        PROVE  /\ o.server.center.name = p.server.center.name
               /\ p.server.monitors # Unsaid => o.server.monitors = p.server.monitors
               /\ p.server.monitors = Unsaid /\ p.server.product = "bigip" =>
                    o.server.monitors = <<BigIpMonitor>>
               /\ p.server.virtuals # Unsaid => Len(o.server.virtuals) = Len(p.server.virtuals)
    <3>1. d.server # Unsaid
      BY <1>4, <2>2
    <3>2. /\ o.server = Translated(f.server) /\ o.server.center = f.server.center
          /\ o.server.monitors = f.server.monitors
          /\ Len(o.server.virtuals) = Len(f.server.virtuals)
      BY <1>5, <1>7, <3>1, ServerIsStored
    <3> QED
      BY <1>7, <3>1, <3>2 DEF ServerMonitors, MonitorList
  <2>3. ASSUME p.pool # Unsaid
        PROVE  /\ {m.order : m \in o.pool.members} = 0 .. Len(p.pool) - 1
               /\ \A m \in o.pool.members : m.server.name = p.pool[m.order + 1].server.name
    <3>1. d.pool # Unsaid
      BY <1>4, <2>3
    <3>2. o.pool.members = ToSet(f.pool)
      BY <1>5, <1>8, <3>1
    <3>3. {m.order : m \in ToSet(f.pool)} = 0 .. Len(f.pool) - 1
      BY <1>8, <3>1, PoolIsRead
    <3> QED
      BY <1>4, <1>8, <3>1, <3>2, <3>3
  <2>4. ASSUME NEW part \in {"globals", "server", "pool"}, p[part] = Unsaid
        PROVE  r[part] = first[part]
    <3>1. CASE part = "globals"
      BY <1>4, <1>5, <2>4, <3>1
    <3>2. CASE part = "pool"
      BY <1>4, <1>5, <2>4, <3>2
    <3>3. CASE part = "server"
      <4>1. f.server = first.server
        BY <1>4, <2>4, <3>3
      <4>2. CASE first.server = Unsaid
        BY <1>5, <3>3, <4>1, <4>2
      <4>3. CASE first.server # Unsaid
        <5>1. first.server \in ReadServer /\ first.server \in WantedServer
          BY <1>1, <4>3, GslbForms, ServerForms
        <5>2. \A i \in DOMAIN first.server.virtuals :
                first.server.virtuals[i].translation # None
          <6>1. None \notin Translation /\ None # Unsaid
            BY GslbAssumption
          <6>2. first.server.virtuals \in Seq(ReadVirtual)
            BY <5>1 DEF ReadServer
          <6>3. \A i \in DOMAIN first.server.virtuals : first.server.virtuals[i] \in ReadVirtual
            BY <6>2
          <6> QED
            BY <6>1, <6>3 DEF ReadVirtual
        <5>3. ShownServer(Translated(first.server)) = first.server
          BY <5>1, <5>2, ServerIsStored
        <5> QED
          BY <1>5, <3>3, <4>1, <4>3, <5>3
      <4> QED
        BY <4>2, <4>3
    <3> QED
      BY <2>4, <3>1, <3>2, <3>3
  <2> QED
    BY <2>1, <2>2, <2>3, <2>4 DEF GslbMet, r
<1>11. Quiet("gslb", o, d, first)
  <2>1. Quiet("gslb", o, d, first) <=>
          /\ Outcome("gslb", o, d, first, FALSE) = o
          /\ Untranslated(d) \/ f = r
    BY DEF Quiet, UnfinishedOn, NoisyOn, Wanted, ReadFor, ReadOf, FixOf, ComparedOf, f, p, r
  <2>2. Outcome("gslb", o, d, first, FALSE) = o
    BY <1>2, <1>5
  <2>3. ASSUME ~Untranslated(d)
        PROVE  f.server = r.server
    <3>1. CASE d.server = Unsaid
      <4>1. p["server"] = Unsaid /\ f.server = first.server
        BY <1>4, <3>1
      <4>2. GslbRead(o)["server"] = first["server"]
        BY <1>10, <4>1 DEF GslbMet
      <4> QED
        BY <4>1, <4>2 DEF r
    <3>2. CASE d.server # Unsaid
      <4>1. d.server.virtuals # Unsaid =>
              \A i \in DOMAIN d.server.virtuals :
                d.server.virtuals[i].translation \notin {Unsaid, None}
        BY <2>3, <3>2 DEF Untranslated
      <4>2. ShownServer(Translated(f.server)) = f.server
        BY <1>7, <3>2, <4>1, ServerIsStored
      <4> QED
        BY <1>5, <1>7, <3>2, <4>2
    <3> QED
      BY <3>1, <3>2
  <2>4. f = [globals |-> f.globals, server |-> f.server, pool |-> f.pool]
    BY <1>4, GslbForms
  <2> QED
    BY <1>5, <2>1, <2>2, <2>3, <2>4
<1> QED
  BY <1>3, <1>9, <1>10, <1>11 DEF p, o, f

LEMMA GslbRestored ==
  ASSUME NEW v, NEW first, NEW same, Ready("gslb", v, first, same),
         NEW d, IsDeclaration("gslb", d), NEW w, IsDevice("gslb", w)
  PROVE  Restored("gslb", w, Known("gslb", v, d, first, same), first) = v
<1>1. /\ v \in GslbDevice /\ w \in GslbDevice /\ first \in GslbConfig
      /\ first.server # Unsaid => v.server # Unsaid
      /\ first.pool # Unsaid => v.pool # Unsaid
  BY DEF Ready, IsDevice, IsConfig, Retained
<1> DEFINE c == GslbRead(v)
<1>2. Known("gslb", v, d, first, same) = c
  BY DEF Known, ReadFor, ReadOf
<1>3. /\ c \in GslbConfig /\ GslbStored(c) = v
      /\ first.server # Unsaid => c.server # Unsaid
      /\ first.pool # Unsaid => c.pool # Unsaid
  BY <1>1, GslbIsRead
<1>4. GslbFix(c, first) = c
  BY <1>1, <1>3, GslbStays
<1>5. Restored("gslb", w, c, first) =
        Updated("gslb", w, GslbRead(w), GslbFix(c, first), FALSE, first)
  BY DEF Restored, Found, Returned, ReadFor, ReadOf, FixOf
<1> QED
  BY <1>1, <1>2, <1>3, <1>4, <1>5, GslbUpdated

-----------------------------------------------------------------------------
(* All kinds alike *)

(* DeclaredIsMet and RollbackRestores, of what is on the device.           *)
MetOn(k, o, d, v, first, same) ==
  CASE k = "network"    -> NetworkMet(o, d, v)
    [] k = "access"     -> IF d = Unsaid THEN o = first ELSE EntryMet(o, d)
    [] k = "bgp"        -> IF d = Unsaid THEN o = first ELSE o = StoredFamilies(d)
    [] k = "firewall"   -> IF d = Unsaid THEN o = first ELSE o = StoredRule(d)
    [] k = "waf"        -> same \/ WafMet(o, d, first)
    [] k = "gslb"       -> GslbMet(o, Parsed(d), first)
    [] k = "management" -> ManagementMet(o, d, first)
    [] k = "auth"       -> AuthMet(o, d, first)

RestoredOn(k, r, v, d, first, same) ==
  CASE k = "management" -> ManagementRestored(r, v, d, first)
    [] k = "auth"       -> AuthRestored(r, v, d)
    [] k = "waf"        -> r = v \/ (same /\ d.settings # Unsaid)
    [] OTHER            -> r = v

(* What is read of a device is a configuration, and the device retains     *)
(* what was read of itself.                                                *)
LEMMA ReadFacts ==
  ASSUME NEW k \in AllKinds, NEW v, IsDevice(k, v)
  PROVE  /\ IsConfig(k, ReadOf(k, v)) /\ Retained(k, v, ReadOf(k, v))
         /\ k = "auth" /\ v.ldap # "file" /\ (v.servers # Unsaid => v.radius) =>
              Plain(k, ReadOf(k, v))
<1>1. CASE k \notin {"gslb", "management", "auth"}
  BY <1>1 DEF IsConfig, ReadOf, Retained, AllKinds
<1>2. CASE k = "gslb"
  <2>1. v \in GslbDevice
    BY <1>2 DEF IsDevice
  <2> QED
    BY <1>2, <2>1, GslbIsRead DEF IsConfig, ReadOf, Retained
<1>3. CASE k = "management"
  <2>1. v \in ManagementDevice
    BY <1>3 DEF IsDevice
  <2>2. ManagementRead(v) \in ManagementConfig /\ ManagementRead(v).routes = v.routes
    BY <2>1, ManagementRecords DEF ManagementRead, ManagementConfig
  <2> QED
    BY <1>3, <2>2 DEF IsConfig, ReadOf, Retained
<1>4. CASE k = "auth"
  <2>1. v \in AuthDevice
    BY <1>4 DEF IsDevice
  <2>2. AuthRead(v) \in AuthConfig /\ (AuthRead(v).radius # Unsaid => v.servers # Unsaid)
    BY <2>1, AuthReads
  <2>3. ASSUME v.ldap # "file", v.servers # Unsaid => v.radius
        PROVE  AuthRead(v).ldap \notin Certificate
               /\ (AuthRead(v).radius # Unsaid => AuthRead(v).radius.type)
    <3>1. v.ldap \notin Certificate
      BY <2>1, <2>3, AuthAssumption DEF AuthDevice
    <3> QED
      BY <2>1, <2>2, <2>3, <3>1, AuthReads
  <2> QED
    BY <1>4, <2>2, <2>3 DEF IsConfig, ReadOf, Retained, Plain
<1> QED
  BY <1>1, <1>2, <1>3, <1>4

(* What a task leaves on the device.                                       *)
LEMMA OutcomeFacts ==
  ASSUME NEW k \in AllKinds, NEW v, NEW first, NEW same, Ready(k, v, first, same),
         NEW d, IsDeclaration(k, d)
  PROVE  LET o == Outcome(k, v, d, first, same)
         IN /\ ~Refused(k, v, Wanted(k, v, d, first), d # Unsaid) =>
                 IsDevice(k, o) /\ Retained(k, o, first)
            /\ Plain(k, first) => MetOn(k, o, d, v, first, same) /\ Quiet(k, o, d, first)
<1>1. CASE k = "network"
  BY <1>1, NetworkOutcome DEF MetOn
<1>2. CASE k = "access"
  BY <1>2, AccessOutcome DEF MetOn
<1>3. CASE k = "bgp"
  BY <1>3, BgpOutcome DEF MetOn
<1>4. CASE k = "firewall"
  BY <1>4, FirewallOutcome DEF MetOn
<1>5. CASE k = "waf"
  BY <1>5, WafOutcome DEF MetOn
<1>6. CASE k = "gslb"
  BY <1>6, GslbOutcome DEF MetOn
<1>7. CASE k = "management"
  BY <1>7, ManagementOutcome DEF MetOn
<1>8. CASE k = "auth"
  BY <1>8, AuthLeaves, AuthOutcome DEF MetOn
<1> QED
  BY <1>1, <1>2, <1>3, <1>4, <1>5, <1>6, <1>7, <1>8 DEF AllKinds

(* What a rollback leaves on it.                                           *)
LEMMA RestoredFacts ==
  ASSUME NEW k \in AllKinds, NEW v, NEW first, NEW same, Ready(k, v, first, same),
         NEW d, IsDeclaration(k, d),
         NEW w, \/ w = v
                \/ /\ w = Outcome(k, v, d, first, same)
                   /\ ~Refused(k, v, Wanted(k, v, d, first), d # Unsaid),
         NEW known, known = Known(k, v, d, first, same),
         ~Refused(k, w, Returned(k, w, known, first), FALSE)
  PROVE  LET r == Restored(k, w, known, first)
         IN /\ IsDevice(k, r) /\ Retained(k, r, first)
            /\ RestoredOn(k, r, v, d, first, same)
<1>1. IsDevice(k, w) /\ IsDevice(k, v) /\ Retained(k, v, first)
  BY OutcomeFacts DEF Ready
<1>2. CASE k = "network"
  BY <1>1, <1>2, NetworkRestored DEF RestoredOn
<1>3. CASE k = "access"
  BY <1>1, <1>3, AccessRestored DEF RestoredOn
<1>4. CASE k = "bgp"
  BY <1>1, <1>4, BgpRestored DEF RestoredOn
<1>5. CASE k = "firewall"
  BY <1>1, <1>5, FirewallRestored DEF RestoredOn
<1>6. CASE k = "waf"
  BY <1>1, <1>6, WafRestored DEF RestoredOn
<1>7. CASE k = "gslb"
  BY <1>1, <1>7, GslbRestored DEF RestoredOn
<1>8. CASE k = "management"
  BY <1>8, ManagementReturns DEF RestoredOn
<1>9. CASE k = "auth"
  BY <1>9, AuthReturns DEF RestoredOn
<1> QED
  BY <1>2, <1>3, <1>4, <1>5, <1>6, <1>7, <1>8, <1>9 DEF AllKinds

-----------------------------------------------------------------------------
(* The invariant is inductive *)

LEMMA InitInv ==
  ASSUME Init
  PROVE  Inv
<1>1. IsDevice(kind, device) /\ device \in Factory[kind] /\ kind \in Kinds
  BY RepostsAssumption DEF Init
<1>2. DeviceInv
  BY <1>1 DEF DeviceInv, Init
<1>3. TaskInv
  BY DEF TaskInv, Init
<1>4. LastInv /\ RollbackRestores
  BY DEF LastInv, RollbackRestores, Init
<1> QED
  BY <1>2, <1>3, <1>4 DEF Inv, Init

(* What holds of every kind.                                               *)
LEMMA KindFacts ==
  ASSUME DeviceInv
  PROVE  /\ kind \in Kinds /\ kind \in AllKinds /\ IsDevice(kind, device)
         /\ \A d \in DeclarationsOf[kind] : IsDeclaration(kind, d)
         /\ ~IsConfig(kind, NoConfig) /\ ~IsDeclaration(kind, NoConfig)
  BY RepostsAssumption DEF DeviceInv

(* What is known while a task runs.                                        *)
LEMMA TaskFacts ==
  ASSUME DeviceInv, TaskInv, shared \in BOOLEAN, pc # "idle"
  PROVE  /\ Ready(kind, was, store, shared) /\ IsDeclaration(kind, decl) /\ store # NoConfig
         /\ kind \in AllKinds /\ (AuthIsPlain => Plain(kind, store))
<1>1. /\ store # NoConfig /\ IsDeclaration(kind, decl) /\ IsDevice(kind, was)
      /\ Retained(kind, was, store) /\ (shared => store = ReadOf(kind, was))
  BY DEF TaskInv
<1>2. IsConfig(kind, store) /\ (AuthIsPlain => Plain(kind, store))
  BY <1>1 DEF DeviceInv
<1> QED
  BY <1>1, <1>2, KindFacts DEF Ready

LEMMA PostInv ==
  ASSUME Inv, NEW d \in DeclarationsOf[kind], Post(d)
  PROVE  Inv'
<1>1. DeviceInv /\ TaskInv /\ LastInv
  BY DEF Inv
<1>2. /\ kind \in Kinds /\ kind \in AllKinds /\ IsDevice(kind, device) /\ IsDeclaration(kind, d)
      /\ ~IsConfig(kind, NoConfig) /\ d # NoConfig
  BY <1>1, KindFacts
<1>3. /\ pc = "idle" /\ pc' = "read" /\ decl' = d /\ was' = device /\ cur' = ReadOf(kind, device)
      /\ shared' = (store = NoConfig)
      /\ store' = IF store = NoConfig THEN ReadOf(kind, device) ELSE store
      /\ original' = store' /\ last' = IF d = last THEN last ELSE NoConfig
      /\ kind' = kind /\ device' = device
  BY DEF Post
<1>4. IsConfig(kind, ReadOf(kind, device)) /\ Retained(kind, device, ReadOf(kind, device))
  BY <1>2, ReadFacts
<1>5. AuthIsPlain /\ store = NoConfig => Plain(kind, ReadOf(kind, device))
  <2> SUFFICES ASSUME AuthIsPlain, store = NoConfig
               PROVE  Plain(kind, ReadOf(kind, device))
    OBVIOUS
  <2>1. device \in Factory[kind]
    BY <1>1 DEF DeviceInv
  <2>2. CASE kind = "auth"
    BY <1>2, <2>1, <2>2, ReadFacts DEF AuthIsPlain
  <2>3. CASE kind # "auth"
    BY <2>3 DEF Plain
  <2> QED
    BY <2>2, <2>3
<1>6. /\ store' # NoConfig /\ IsConfig(kind, store') /\ (AuthIsPlain => Plain(kind, store'))
      /\ Retained(kind, device, store')
  <2>1. CASE store = NoConfig
    BY <1>2, <1>3, <1>4, <1>5, <2>1
  <2>2. CASE store # NoConfig
    BY <1>1, <1>3, <2>2 DEF DeviceInv
  <2> QED
    BY <2>1, <2>2
<1>7. DeviceInv'
  BY <1>2, <1>3, <1>6 DEF DeviceInv
<1>8. TaskInv'
  BY <1>2, <1>3, <1>6 DEF TaskInv
<1>9. LastInv'
  <2>1. ASSUME last' # NoConfig
        PROVE  last' = last /\ store' = store /\ store # NoConfig /\ ~shared'
               /\ (AuthIsPlain => Quiet(kind, device, last, store))
    BY <1>1, <1>3, <2>1 DEF LastInv
  <2> QED
    BY <1>3, <2>1 DEF LastInv
<1> QED
  BY <1>3, <1>7, <1>8, <1>9 DEF Inv, RollbackRestores

LEMMA FixInv ==
  ASSUME Inv, Fix
  PROVE  Inv'
<1>1. DeviceInv /\ TaskInv /\ LastInv /\ shared \in BOOLEAN
  BY DEF Inv
<1>2. /\ pc = "read" /\ pc' = "fixed"
      /\ UNCHANGED <<kind, device, store, decl, shared, was, last>>
  BY DEF Fix
<1>3. device = was /\ original = store /\ cur = ReadOf(kind, was)
  BY <1>1, <1>2 DEF TaskInv
<1>4. /\ want' = Wanted(kind, was, decl, store) /\ original' = OriginalFor(kind, decl, store)
      /\ cur' = Known(kind, was, decl, store, shared) /\ rollbackTo' = cur'
  BY <1>3 DEF Fix, Wanted, Known
<1>5. DeviceInv'
  BY <1>1, <1>2 DEF DeviceInv
<1>6. TaskInv'
  BY <1>1, <1>2, <1>3, <1>4 DEF TaskInv
<1>7. LastInv'
  BY <1>1, <1>2 DEF LastInv
<1> QED
  BY <1>1, <1>2, <1>5, <1>6, <1>7 DEF Inv, RollbackRestores

(* What an update leaves on the device.                                    *)
LEMMA UpdateFacts ==
  ASSUME Inv, Update
  PROVE  /\ UNCHANGED <<kind, store, taskVars, last>> /\ pc = "fixed"
         /\ \/ pc' = "failed" /\ device' = device
            \/ /\ pc' = "done" /\ device' = Outcome(kind, was, decl, store, shared)
               /\ ~Refused(kind, was, Wanted(kind, was, decl, store), decl # Unsaid)
<1>1. TaskInv /\ pc = "fixed" /\ UNCHANGED <<kind, store, taskVars, last>>
  BY DEF Inv, Update
<1>2. /\ device = was /\ cur = Known(kind, was, decl, store, shared)
      /\ want = Wanted(kind, was, decl, store) /\ original = OriginalFor(kind, decl, store)
  BY <1>1 DEF TaskInv
<1>3. CASE Refused(kind, device, want, decl # Unsaid)
  BY <1>1, <1>3 DEF Update
<1>4. CASE ~Refused(kind, device, want, decl # Unsaid)
  <2>1. pc' = "done" /\ device' = Updated(kind, device, cur, want, decl # Unsaid, original)
    BY <1>4 DEF Update
  <2> QED
    BY <1>1, <1>2, <1>4, <2>1 DEF Outcome
<1> QED
  BY <1>3, <1>4

LEMMA UpdateInv ==
  ASSUME Inv, Update
  PROVE  Inv'
<1> DEFINE o == Outcome(kind, was, decl, store, shared)
<1>1. DeviceInv /\ TaskInv /\ LastInv /\ shared \in BOOLEAN
  BY DEF Inv
<1>2. /\ UNCHANGED <<kind, store, decl, original, cur, rollbackTo, shared, want, was, last>>
      /\ pc = "fixed"
      /\ \/ pc' = "failed" /\ device' = device
         \/ /\ pc' = "done" /\ device' = o
            /\ ~Refused(kind, was, Wanted(kind, was, decl, store), decl # Unsaid)
  BY UpdateFacts DEF taskVars
<1>3. /\ pc' = "done" => IsDevice(kind, o) /\ Retained(kind, o, store)
      /\ store # NoConfig
  BY <1>1, <1>2, TaskFacts, OutcomeFacts
<1>4. DeviceInv'
  BY <1>1, <1>2, <1>3 DEF DeviceInv
<1>5. TaskInv'
  BY <1>1, <1>2 DEF TaskInv
<1>6. LastInv'
  BY <1>1, <1>2 DEF LastInv
<1> QED
  BY <1>1, <1>2, <1>4, <1>5, <1>6 DEF Inv, RollbackRestores

LEMMA SucceedInv ==
  ASSUME Inv, Succeed
  PROVE  Inv'
<1>1. DeviceInv /\ TaskInv /\ LastInv /\ shared \in BOOLEAN
  BY DEF Inv
<1>2. /\ pc = "done" /\ pc' = "idle" /\ last' = decl /\ shared' = FALSE
      /\ UNCHANGED <<kind, device, store>>
  BY DEF Succeed, End
<1>3. device = Outcome(kind, was, decl, store, shared)
  BY <1>1, <1>2 DEF TaskInv
<1>4. store # NoConfig /\ (AuthIsPlain => Quiet(kind, device, decl, store))
  BY <1>1, <1>2, <1>3, TaskFacts, OutcomeFacts
<1>5. DeviceInv'
  BY <1>1, <1>2, <1>4 DEF DeviceInv
<1>6. TaskInv'
  BY <1>2 DEF TaskInv
<1>7. LastInv'
  BY <1>2, <1>4 DEF LastInv
<1> QED
  BY <1>2, <1>5, <1>6, <1>7 DEF Inv, RollbackRestores

LEMMA FailInv ==
  ASSUME Inv, Fail
  PROVE  Inv'
<1>1. DeviceInv /\ TaskInv /\ LastInv /\ shared \in BOOLEAN
  BY DEF Inv
<1>2. /\ pc = "done" /\ pc' = "failed"
      /\ UNCHANGED <<kind, device, store, decl, original, cur, rollbackTo, shared, want, was, last>>
  BY DEF Fail, taskVars
<1>3. DeviceInv'
  BY <1>1, <1>2 DEF DeviceInv
<1>4. TaskInv'
  BY <1>1, <1>2 DEF TaskInv
<1>5. LastInv'
  BY <1>1, <1>2 DEF LastInv
<1> QED
  BY <1>1, <1>2, <1>3, <1>4, <1>5 DEF Inv, RollbackRestores

LEMMA RollbackReadInv ==
  ASSUME Inv, RollbackRead
  PROVE  Inv'
<1>1. DeviceInv /\ TaskInv /\ LastInv /\ shared \in BOOLEAN
  BY DEF Inv
<1>2. /\ pc = "failed" /\ pc' = "rollback" /\ cur' = ReadOf(kind, device) /\ original' = store
      /\ UNCHANGED <<kind, device, store, decl, rollbackTo, shared, want, was, last>>
  BY DEF RollbackRead
<1>3. DeviceInv'
  BY <1>1, <1>2 DEF DeviceInv
<1>4. TaskInv'
  BY <1>1, <1>2 DEF TaskInv
<1>5. LastInv'
  BY <1>1, <1>2 DEF LastInv
<1> QED
  BY <1>1, <1>2, <1>3, <1>4, <1>5 DEF Inv, RollbackRestores

LEMMA RollbackInv ==
  ASSUME Inv, Rollback
  PROVE  Inv'
<1> DEFINE known == Known(kind, was, decl, store, shared)
           r == Restored(kind, device, known, store)
           refused == Refused(kind, device, Returned(kind, device, known, store), FALSE)
<1>1. DeviceInv /\ TaskInv /\ LastInv /\ shared \in BOOLEAN
  BY DEF Inv
<1>2. /\ pc = "rollback" /\ last' = NoConfig
      /\ UNCHANGED <<kind, store, decl, original, cur, rollbackTo, shared, was>>
  BY DEF Rollback
<1>3. /\ rollbackTo = known /\ original = store /\ cur = ReadOf(kind, device)
      /\ \/ device = was
         \/ /\ device = Outcome(kind, was, decl, store, shared)
            /\ ~Refused(kind, was, Wanted(kind, was, decl, store), decl # Unsaid)
  BY <1>1, <1>2 DEF TaskInv
<1>4. \/ refused /\ pc' = "stuck" /\ device' = device
      \/ ~refused /\ pc' = "rolledBack" /\ device' = r
  BY <1>3 DEF Rollback, Restored, Returned, Found
<1>5. store # NoConfig
  BY <1>1, <1>2, TaskFacts
<1>6. ~refused =>
        /\ IsDevice(kind, r) /\ Retained(kind, r, store)
        /\ RestoredOn(kind, r, was, decl, store, shared)
  BY <1>1, <1>2, <1>3, TaskFacts, RestoredFacts
<1> HIDE DEF known, r, refused
<1>7. DeviceInv'
  BY <1>1, <1>2, <1>4, <1>5, <1>6 DEF DeviceInv
<1>8. TaskInv'
  BY <1>1, <1>2, <1>4 DEF TaskInv
<1>9. LastInv'
  BY <1>2, <1>4 DEF LastInv
<1>10. RollbackRestores'
  BY <1>2, <1>4, <1>6 DEF RollbackRestores, RestoredOn
<1> QED
  BY <1>1, <1>2, <1>4, <1>7, <1>8, <1>9, <1>10 DEF Inv

LEMMA SettleInv ==
  ASSUME Inv, Settle
  PROVE  Inv'
<1>1. DeviceInv /\ TaskInv /\ LastInv
  BY DEF Inv
<1>2. /\ pc \in {"rolledBack", "stuck"} /\ pc' = "idle" /\ shared' = FALSE /\ last' = last
      /\ UNCHANGED <<kind, device, store>>
  BY DEF Settle, End
<1>3. last = NoConfig /\ store # NoConfig
  BY <1>1, <1>2 DEF LastInv, TaskInv
<1>4. DeviceInv'
  BY <1>1, <1>2, <1>3 DEF DeviceInv
<1>5. TaskInv'
  BY <1>2 DEF TaskInv
<1>6. LastInv'
  BY <1>2, <1>3 DEF LastInv
<1> QED
  BY <1>2, <1>4, <1>5, <1>6 DEF Inv, RollbackRestores

LEMMA StepInv ==
  ASSUME Inv, [Next]_vars
  PROVE  Inv'
<1>1. ASSUME NEW d \in DeclarationsOf[kind], Post(d)
      PROVE  Inv'
  BY <1>1, PostInv
<1>2. CASE Fix
  BY <1>2, FixInv
<1>3. CASE Update
  BY <1>3, UpdateInv
<1>4. CASE Succeed
  BY <1>4, SucceedInv
<1>5. CASE Fail
  BY <1>5, FailInv
<1>6. CASE RollbackRead
  BY <1>6, RollbackReadInv
<1>7. CASE Rollback
  BY <1>7, RollbackInv
<1>8. CASE Settle
  BY <1>8, SettleInv
<1>9. CASE UNCHANGED vars
  BY <1>9 DEF Inv, DeviceInv, TaskInv, LastInv, RollbackRestores, vars, taskVars
<1> QED
  BY <1>1, <1>2, <1>3, <1>4, <1>5, <1>6, <1>7, <1>8, <1>9 DEF Next

LEMMA InvHolds == Spec => []Inv
<1>1. Init => Inv
  BY InitInv
<1>2. Inv /\ [Next]_vars => Inv'
  BY StepInv
<1> QED
  BY <1>1, <1>2, PTL DEF Spec

-----------------------------------------------------------------------------
(* What is proved *)

(* TypeOK: what is on the device, of every kind, is such a thing as the    *)
(* device can have, whatever is declared, fails and is rolled back (the    *)
(* fixes of declarationHandler.js and what the handlers write).            *)
THEOREM TypeCorrect == Spec => []TypeOK
<1>1. Inv => TypeOK
  BY DEF Inv, DeviceInv, TypeOK
<1> QED
  BY <1>1, InvHolds, PTL

(* DeclaredIsMet: when a task is done, what its declaration gives is on    *)
(* the device, and what it leaves out is what it was before the first      *)
(* declaration, whatever came in between (declarationHandler.js, process). *)
THEOREM DeclarationsAreMet == AuthIsPlain => (Spec => []DeclaredIsMet)
<1> SUFFICES ASSUME AuthIsPlain
             PROVE  Spec => []DeclaredIsMet
  OBVIOUS
<1>1. ASSUME Inv
      PROVE  DeclaredIsMet
  <2> SUFFICES ASSUME pc = "done"
               PROVE  DeclaredIsMet
    BY DEF DeclaredIsMet
  <2>1. DeviceInv /\ TaskInv /\ shared \in BOOLEAN
    BY <1>1 DEF Inv
  <2>2. device = Outcome(kind, was, decl, store, shared)
    BY <2>1 DEF TaskInv
  <2>3. MetOn(kind, device, decl, was, store, shared)
    BY <2>1, <2>2, TaskFacts, OutcomeFacts
  <2> QED
    BY <2>3 DEF MetOn, DeclaredIsMet, OrAsAtFirst
<1> QED
  BY <1>1, InvHolds, PTL

(* RollbackRestores: after a failure, before or after the handlers wrote,  *)
(* processing what had been read at first brings back what was on the      *)
(* device when the declaration came (restWorker.js, rollbackConfig).       *)
THEOREM RollbacksRestore == Spec => []RollbackRestores
<1>1. Inv => RollbackRestores
  BY DEF Inv
<1> QED
  BY <1>1, InvHolds, PTL

(* RepostIsQuiet: a declaration that has succeeded and comes again leaves  *)
(* the device as it is, and but for the noisy ones shows no difference     *)
(* (declarationHandler.js, the fixes before the diff).                     *)
THEOREM RepostsAreQuiet == AuthIsPlain => (Spec => RepostIsQuiet)
<1> SUFFICES ASSUME AuthIsPlain
             PROVE  Spec => RepostIsQuiet
  OBVIOUS
<1>1. ASSUME Inv, [Next]_vars, pc = "fixed", decl = last, ~Unfinished
      PROVE  device' = device /\ (Noisy \/ ComparedOf(kind, want) = cur)
  <2>1. DeviceInv /\ TaskInv /\ LastInv /\ shared \in BOOLEAN
    BY <1>1 DEF Inv
  <2>2. last # NoConfig
    BY <1>1, <2>1, TaskFacts, KindFacts
  <2>3. Quiet(kind, device, decl, store) /\ shared = FALSE
    BY <1>1, <2>1, <2>2 DEF LastInv
  <2>4. /\ device = was /\ cur = Known(kind, was, decl, store, shared)
        /\ want = Wanted(kind, was, decl, store) /\ original = OriginalFor(kind, decl, store)
    BY <1>1, <2>1 DEF TaskInv
  <2>5. ~UnfinishedOn(kind, device, decl, store)
    BY <1>1, <2>4 DEF Unfinished, UnfinishedOn, OriginalFor
  <2>6. cur = ReadFor(kind, ReadOf(kind, was), decl)
    BY <2>3, <2>4 DEF Known
  <2>7. /\ Outcome(kind, was, decl, store, FALSE) = device
        /\ NoisyOn(kind, device, decl) \/ ComparedOf(kind, want) = cur
    BY <2>3, <2>4, <2>5, <2>6 DEF Quiet
  <2>8. device' = device
    <3>1. CASE Update
      BY <1>1, <2>3, <2>7, <3>1, UpdateFacts
    <3>2. CASE UNCHANGED vars
      BY <3>2 DEF vars
    <3> QED
      BY <1>1, <3>1, <3>2
      DEF Next, Post, Fix, Succeed, Fail, RollbackRead, Rollback, Settle
  <2>9. NoisyOn(kind, device, decl) => Noisy
    BY DEF NoisyOn, Noisy
  <2> QED
    BY <2>7, <2>8, <2>9
<1>2. Inv /\ [Next]_vars =>
        (pc = "fixed" /\ decl = last /\ ~Unfinished
           => device' = device /\ (Noisy \/ ComparedOf(kind, want) = cur))
  BY <1>1
<1> QED
  BY <1>2, InvHolds, PTL DEF Spec, RepostIsQuiet
=============================================================================
