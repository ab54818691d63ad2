------------------------------ MODULE AuthFixes ------------------------------
(***************************************************************************)
(* The class Authentication: a RADIUS and an LDAP configuration of fixed   *)
(* names, each with objects beside it that it refers to (the servers, the  *)
(* certificate file), the source that is enabled and the defaults of       *)
(* remote users (src/lib/authHandler.js; deleteHandler.js,                 *)
(* getAuthClassPromises; configManager.js, patchAuth;                      *)
(* declarationHandler.js, applyDefaults, applyLdapCertFixes).  TACACS has  *)
(* no objects beside it and is left out.                                   *)
(***************************************************************************)
EXTENDS Absence

CONSTANTS
  Secret,       \* what a RADIUS server may hold
  Certificate   \* contents of the certificate of LDAP

Source == {"local", "radius", "ldap"}

Servers == [primary: Secret, secondary: Secret \cup {Unsaid}]
Radius  == [type: BOOLEAN, servers: Servers]

(* The device: the objects system-auth of RADIUS and LDAP, the servers     *)
(* system_auth_name1 and 2 and the file do_ldapCaCert.crt.  LDAP refers to *)
(* a certificate, or says "none".                                          *)
AuthDevice ==
  {v \in [source: Source, users: Secret, radius: BOOLEAN, servers: Servers \cup {Unsaid},
          ldap: {Unsaid, "none", "file"}, file: Certificate \cup {Unsaid}] :
     /\ v.radius => v.servers # Unsaid
     /\ v.ldap = "file" => v.file # Unsaid}

(* What is read of it, and what is wanted: "type" stands for the property  *)
(* serviceType, which only the object of RADIUS has.  A certificate is     *)
(* read as a checksum; what is wanted has its data too.                    *)
AuthRead(v) ==
  [source |-> v.source, users |-> v.users,
   radius |-> IF v.servers = Unsaid THEN Unsaid ELSE [type |-> v.radius, servers |-> v.servers],
   ldap   |-> IF v.ldap = "file" THEN v.file ELSE v.ldap]

AuthConfig ==
  [source: Source, users: Secret, radius: Radius \cup {Unsaid},
   ldap: Certificate \cup {"none", Unsaid}]

ASSUME AuthAssumption ==
  /\ Unsaid \notin Secret /\ Unsaid \notin Servers /\ Unsaid \notin Radius
  /\ Unsaid \notin Certificate \cup {"none", "file"} /\ Unsaid \notin AuthConfig
  /\ {"none", "file"} \cap Certificate = {}

(* A declaration has a source always and data for its certificate.         *)
AuthDeclarations ==
  {Unsaid} \cup
  [source: Source, users: Secret \cup {Unsaid},
   radius: [type: {TRUE}, servers: Servers] \cup {Unsaid},
   ldap: Certificate \cup {"none", Unsaid}]

(* Mutant: a class that is there is not completed. *)
CompletedAuthAsIs(d, original) == IF d = Unsaid THEN original ELSE d

(* applyDefaults: Authentication is the one class that is completed.       *)
AuthFix(d, original) ==
  IF d = Unsaid THEN original
  ELSE [d EXCEPT !.users = IF @ = Unsaid THEN original.users ELSE @]

(* Mutant: the second server stays. *)
RadiusWriteKeeping(v, want) ==
  IF want.radius = Unsaid THEN [v EXCEPT !.radius = FALSE]
  ELSE [v EXCEPT !.radius = TRUE,
                 !.servers = IF @ # Unsaid /\ want.radius.servers.secondary = Unsaid
                             THEN [want.radius.servers EXCEPT !.secondary = v.servers.secondary]
                             ELSE want.radius.servers]

(* handleRadius: the servers, the object, and then the second server goes  *)
(* if it is not wanted.  getAuthClassPromises looks for the name of the    *)
(* object among the servers before it deletes them, and never finds it.    *)
RadiusWrite(v, want) ==
  IF want.radius = Unsaid THEN [v EXCEPT !.radius = FALSE]
  ELSE [v EXCEPT !.radius = TRUE, !.servers = want.radius.servers]

(* handleLdap, handleCert: the file is written when there are data for it, *)
(* which a configuration that was read does not have.                      *)
LdapWrite(v, want, data) ==
  IF want.ldap = Unsaid THEN [v EXCEPT !.ldap = Unsaid, !.file = Unsaid]
  ELSE IF want.ldap = "none" THEN [v EXCEPT !.ldap = "none"]
  ELSE [v EXCEPT !.ldap = "file", !.file = IF data THEN want.ldap ELSE @]

(* The device refuses an LDAP object whose certificate does not exist.     *)
LdapRefused(v, want, data) == want.ldap \in Certificate /\ ~data /\ v.file = Unsaid

(* AuthHandler and then DeleteHandler.  Sections that are wanted are       *)
(* written whole, those that are read and not wanted are deleted.          *)
AuthWrite(v, cur, want, data) ==
  LET gone(part)  == cur[part] # Unsaid /\ want[part] = Unsaid
      there(part) == want[part] # Unsaid
      basic == [v EXCEPT !.source = want.source, !.users = want.users]
      radius == IF there("radius") \/ gone("radius") THEN RadiusWrite(basic, want) ELSE basic
  IN IF there("ldap") \/ gone("ldap") THEN LdapWrite(radius, want, data) ELSE radius

(* The servers of a RADIUS that is gone stay; everything else is as        *)
(* declared, or as it was before the first declaration.                    *)
AuthMet(v, d, original) ==
  LET now == AuthRead(v)
      due == AuthFix(d, original)
  IN /\ now.source = due.source /\ now.users = due.users /\ now.ldap = due.ldap
     /\ v.radius = (due.radius # Unsaid /\ due.radius.type)
     /\ v.radius => v.servers = due.radius.servers

RadiusServersStay(v) == v.servers # Unsaid /\ ~v.radius

(* Servers that had stayed come back with a configuration, and what the    *)
(* declaration wrote to the certificate file stays.                        *)
AuthRestored(v, was, d) ==
  /\ v.source = was.source /\ v.users = was.users /\ v.ldap = was.ldap
  /\ v.radius = was.radius \/ RadiusServersStay(was)
  /\ was.radius => v.servers = was.servers
  /\ was.ldap = "file" => v.file = was.file \/ (d # Unsaid /\ v.file = d.ldap)
=============================================================================
