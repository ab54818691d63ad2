------------------------ MODULE SystemHandlerProofs ------------------------
(* Proofs about SystemHandler for any sequence of declarations, every      *)
(* interleaving of the promises, and any number of failures, of restarts   *)
(* of the worker and of losses of power.                                   *)
EXTENDS SystemHandler, TLAPS

(* Where the chain is: before the end of declarationHandler.process; from  *)
(* the end of handleDeviceCertificate on; in decryptAndDeleteUserData.     *)
Ahead == {"earlier", "restore", "certificate", "license", "waitForRevokeReady", "delay",
          "licensing", "disk", "later"}
Past  == {"license", "waitForRevokeReady", "delay", "licensing", "disk", "later", "save", "finish"}
Resuming == {"decrypt bigIp", "decrypt bigIq", "resume"}

-----------------------------------------------------------------------------
(* Type correctness *)

Situation ==
  /\ pc # "idle" => task > 0
  /\ pc = "certificate" => Declares /\ ~Decl.skipDeviceCertificates
  /\ pc = "restore" => ~Declares
  /\ pc # "certificate" => crt \in Ended /\ key \in Ended /\ writing = {}
  /\ \A p \in info \cup state.rollbackInfo \cup saved.rollbackInfo : bak[p] # NoFile

TypeInv == TypeOK /\ Situation

LEMMA PostsType ==
  ASSUME TypeOK
  PROVE  posts \in Seq(Declaration) /\ Len(posts) \in Nat /\ task \in Nat /\ task <= Len(posts)
<1>1. posts \in Posts /\ task \in 0 .. Len(posts)
  BY DEF TypeOK, ChainOK
<1>2. posts \in Seq(Declaration)
  BY <1>1, SystemAssumption
<1> QED BY <1>1, <1>2

LEMMA DeclType ==
  ASSUME TypeOK, task > 0
  PROVE  Decl \in Declaration
BY PostsType DEF Decl

LEMMA FaultType ==
  ASSUME TypeOK, Fault
  PROVE  faults' \in 0 .. MaxFaults
<1>1. MaxFaults \in Nat /\ faults \in 0 .. MaxFaults
  BY SystemAssumption DEF TypeOK, ChainOK
<1> QED BY <1>1 DEF Fault, MayFail

(* The parts of the type invariant that an action leaves alone. *)
LEMMA SameChain ==
  ASSUME ChainOK, UNCHANGED <<chain, rolling, resized>>, faults' \in 0 .. MaxFaults,
         pc' \in {"earlier", "restore", "certificate", "license", "waitForRevokeReady", "delay",
                  "licensing", "disk", "later", "save", "finish", "reboot", "settled",
                  "decrypt bigIp", "decrypt bigIq", "resume"}
  PROVE  ChainOK'
BY DEF ChainOK, chain

LEMMA SameFiles == ASSUME FilesOK, UNCHANGED <<files, before>> PROVE FilesOK'
BY DEF FilesOK, files

LEMMA SameCertificate == ASSUME CertificateOK, UNCHANGED cert PROVE CertificateOK'
BY DEF CertificateOK, cert

LEMMA SameSecrets == ASSUME SecretsOK, UNCHANGED <<task, secrets>> PROVE SecretsOK'
BY DEF SecretsOK, secrets

LEMMA SameDecl == ASSUME UNCHANGED chain PROVE Decl' = Decl
BY DEF chain, Decl

(* What has been backed up stays so. *)
BackedUp == \A p \in info \cup state.rollbackInfo \cup saved.rollbackInfo : bak[p] # NoFile

LEMMA RejectedType ==
  ASSUME TypeInv, Rejected, pc # "idle", UNCHANGED <<chain, resized, bak, info>>,
         faults' \in 0 .. MaxFaults
  PROVE  /\ ChainOK' /\ EntriesOK' /\ BackedUp' /\ pc' \in {"finish", "earlier"} /\ rolling'
         /\ state'.rollbackInfo = state.rollbackInfo
         /\ Quiet /\ UNCHANGED <<crt, key, writing>> => Situation'
<1>1. TypeOK /\ ChainOK /\ EntriesOK /\ Situation /\ BackedUp
  BY DEF TypeInv, TypeOK, Situation, BackedUp
<1>2. state \in Entry /\ saved \in Entry
  BY <1>1 DEF EntriesOK
<1>3. /\ state' \in Entry /\ saved' \in Entry /\ rolling' = TRUE
      /\ state'.rollbackInfo = state.rollbackInfo
      /\ saved'.rollbackInfo \in {state.rollbackInfo, saved.rollbackInfo}
      /\ pc' \in {"finish", "earlier"}
  <2>1. CASE rolling
    BY <1>2, <2>1 DEF Rejected, Entry, Status
  <2>2. CASE ~rolling
    BY <1>2, <2>2 DEF Rejected, Entry, Status
  <2> QED BY <2>1, <2>2
<1>4. ChainOK'
  BY <1>1, <1>3 DEF ChainOK, chain
<1>5. BackedUp'
  BY <1>1, <1>3 DEF BackedUp
<1>6. Quiet /\ UNCHANGED <<crt, key, writing>> => Situation'
  BY <1>1, <1>3, <1>5 DEF Situation, BackedUp, Quiet, Ended, chain
<1> QED BY <1>3, <1>4, <1>5, <1>6 DEF EntriesOK

LEMMA FailsType ==
  ASSUME TypeInv, Fails, pc \notin {"idle", "certificate"}
  PROVE  TypeInv'
<1>1. TypeOK /\ ChainOK /\ FilesOK /\ CertificateOK /\ SecretsOK /\ Situation
  BY DEF TypeInv, TypeOK
<1>2. UNCHANGED <<chain, files, cert, secrets, resized>> /\ Fault /\ Rejected
  BY DEF Fails
<1>3. UNCHANGED <<before, task, bak, info, crt, key, writing>>
  BY <1>2 DEF chain, files, cert
<1>4. FilesOK' /\ CertificateOK' /\ SecretsOK'
  BY <1>1, <1>2, <1>3, SameFiles, SameCertificate, SameSecrets
<1>5. faults' \in 0 .. MaxFaults
  BY <1>1, <1>2, FaultType
<1>6. ChainOK' /\ EntriesOK' /\ BackedUp' /\ pc' \in {"finish", "earlier"}
  BY <1>2, <1>3, <1>5, RejectedType
<1>7. Situation'
  BY <1>1, <1>3, <1>6 DEF Situation, BackedUp
<1> QED BY <1>4, <1>6, <1>7 DEF TypeInv, TypeOK

(* A step of the chain from one handler to the next. *)
LEMMA StepType ==
  ASSUME TypeInv, NEW from, NEW to, Step(from, to), UNCHANGED cert,
         from \in {"certificate", "license", "delay", "licensing", "disk"},
         from = "certificate" => Quiet,
         to \in {"license", "licensing", "disk", "later"}
  PROVE  TypeInv'
<1>1. TypeOK /\ ChainOK /\ EntriesOK /\ FilesOK /\ CertificateOK /\ SecretsOK /\ Situation
  BY DEF TypeInv, TypeOK
<1>2. /\ pc = from /\ pc' = to
      /\ UNCHANGED <<chain, rolling, state, saved, files, secrets, resized, faults>>
  BY DEF Step
<1>3. FilesOK' /\ CertificateOK' /\ SecretsOK' /\ EntriesOK'
  BY <1>1, <1>2, SameFiles, SameCertificate, SameSecrets DEF chain, EntriesOK
<1>4. ChainOK'
  BY <1>1, <1>2, SameChain DEF ChainOK
<1>5. Situation'
  BY <1>1, <1>2 DEF Situation, Quiet, Ended, chain, cert, files
<1> QED BY <1>3, <1>4, <1>5 DEF TypeInv, TypeOK

LEMMA OnboardType ==
  ASSUME TypeInv, Onboard
  PROVE  TypeInv'
<1>0. TypeOK /\ ChainOK /\ EntriesOK /\ FilesOK /\ CertificateOK /\ SecretsOK /\ Situation
  BY DEF TypeInv, TypeOK
<1>1. CASE Post
  <2>1. /\ UNCHANGED <<posts, files, cert, secret, savedSecret, listener, creating, deleting,
                       faults>>
        /\ task' = task + 1 /\ task < Len(posts) /\ before' = file /\ pc' = "earlier"
        /\ rolling' = FALSE /\ dropped' = FALSE /\ restarted' = FALSE /\ resized' = FALSE
        /\ revoked' = FALSE /\ state' = NewEntry /\ saved' = NewEntry
        /\ pc \in {"idle", "settled"}
    BY <1>1 DEF Post, Settled
  <2>2. task \in Nat /\ Len(posts) \in Nat /\ task' \in 0 .. Len(posts)
    BY <1>0, <2>1, PostsType
  <2>3. ChainOK'
    BY <1>0, <2>1, <2>2 DEF ChainOK
  <2>4. EntriesOK'
    BY <2>1 DEF EntriesOK, NewEntry, Entry, Status
  <2>5. FilesOK' /\ CertificateOK'
    BY <1>0, <2>1, SameCertificate DEF FilesOK, files
  <2>6. SecretsOK'
    <3>1. 0 .. task \subseteq 0 .. task'
      BY <2>1, <2>2
    <3>2. secret \in [SecretId -> 0 .. task'] /\ savedSecret \in [SecretId -> 0 .. task']
      BY <1>0, <3>1 DEF SecretsOK
    <3> QED BY <1>0, <2>1, <3>2 DEF SecretsOK
  <2>7. Situation'
    <3>1. state'.rollbackInfo = {} /\ saved'.rollbackInfo = {} /\ task' > 0
      <4>1. state' = NewEntry /\ saved' = NewEntry /\ task' = task + 1
        BY <2>1
      <4>2. task' > 0
        BY <2>2, <4>1
      <4> QED BY <4>1, <4>2 DEF NewEntry
    <3>2. UNCHANGED <<crt, key, writing, info, bak>>
      BY <2>1 DEF cert, files
    <3> QED BY <1>0, <2>1, <3>1, <3>2 DEF Situation
  <2> QED BY <2>3, <2>4, <2>5, <2>6, <2>7 DEF TypeInv, TypeOK
<1>2. CASE Earlier
  <2>1. CASE pc = "earlier" /\ Fails
    BY <2>1, FailsType
  <2>2. CASE ~Fails
    <3> DEFINE to == IF ~Declares THEN "restore"
                     ELSE IF Decl.skipDeviceCertificates THEN "license" ELSE "certificate"
    <3>1. /\ Quiet /\ pc = "earlier" /\ pc' = to
          /\ UNCHANGED <<chain, rolling, state, saved, files, secrets, resized, faults, writing>>
          /\ store' = [p \in Path |-> "ls"] /\ wrote' = FALSE /\ info' = {}
          /\ crt' = (IF pc' = "certificate" THEN "cat" ELSE "end") /\ key' = crt'
      BY <1>2, <2>2 DEF Earlier, Step
    <3>2. FilesOK' /\ SecretsOK' /\ EntriesOK'
      BY <1>0, <3>1, SameFiles, SameSecrets DEF chain, EntriesOK
    <3>3. ChainOK'
      BY <1>0, <3>1, SameChain DEF ChainOK
    <3>4. CertificateOK'
      BY <1>0, <3>1 DEF CertificateOK, Ended
    <3>5. Situation'
      <4>1. Decl' = Decl /\ (Declares' <=> Declares) /\ bak' = bak
        BY <3>1, SameDecl DEF Declares, files
      <4> QED BY <1>0, <3>1, <4>1 DEF Situation, Ended, Quiet, chain
    <3> QED BY <3>2, <3>3, <3>4, <3>5 DEF TypeInv, TypeOK
  <2> QED BY <1>2, <2>1, <2>2 DEF Earlier, Step
<1>3. CASE Later
  <2>1. CASE pc = "later" /\ Fails
    BY <2>1, FailsType
  <2>2. CASE ~Fails
    <3>1. /\ pc = "later" /\ pc' \in {"finish", "save"}
          /\ UNCHANGED <<chain, rolling, files, cert, secrets, resized, faults>>
          /\ \/ /\ state' = [state EXCEPT !.status = "ERROR", !.message = "rolled back"]
                /\ saved' = state'
             \/ /\ state' = [state EXCEPT !.rebootRequired = wrote, !.rollbackInfo = info]
                /\ UNCHANGED saved
      BY <1>3, <2>2 DEF Later
    <3>2. FilesOK' /\ SecretsOK' /\ CertificateOK'
      BY <1>0, <3>1, SameFiles, SameSecrets, SameCertificate DEF chain
    <3>3. ChainOK'
      BY <1>0, <3>1, SameChain DEF ChainOK
    <3>4. EntriesOK' /\ (state'.rollbackInfo \cup saved'.rollbackInfo) \subseteq
                          (info \cup state.rollbackInfo \cup saved.rollbackInfo)
      <4>1. state \in Entry /\ saved \in Entry /\ wrote \in BOOLEAN /\ info \in SUBSET Path
        BY <1>0 DEF EntriesOK, CertificateOK
      <4> QED BY <3>1, <4>1 DEF EntriesOK, Entry, Status
    <3>5. Situation'
      BY <1>0, <3>1, <3>4 DEF Situation, cert, files, chain
    <3> QED BY <3>2, <3>3, <3>4, <3>5 DEF TypeInv, TypeOK
  <2> QED BY <1>3, <2>1, <2>2 DEF Later
<1>4. CASE Save
  <2>1. CASE pc = "save" /\ Fails
    BY <2>1, FailsType
  <2>2. CASE ~Fails
    <3>1. /\ pc = "save" /\ pc' = "finish" /\ savedSecret' = secret
          /\ UNCHANGED <<chain, rolling, state, saved, files, cert, resized, faults, secret,
                         listener, creating, deleting, revoked>>
      BY <1>4, <2>2 DEF Save
    <3>2. FilesOK' /\ CertificateOK' /\ EntriesOK'
      BY <1>0, <3>1, SameFiles, SameCertificate DEF chain, EntriesOK
    <3>3. ChainOK'
      BY <1>0, <3>1, SameChain DEF ChainOK
    <3>4. SecretsOK'
      BY <1>0, <3>1 DEF SecretsOK, chain
    <3>5. Situation'
      BY <1>0, <3>1 DEF Situation, cert, files, chain
    <3> QED BY <3>2, <3>3, <3>4, <3>5 DEF TypeInv, TypeOK
  <2> QED BY <1>4, <2>1, <2>2 DEF Save
<1>5. CASE Finish
  <2>1. /\ pc = "finish" /\ pc' \in {"reboot", "settled"} /\ savedSecret' = secret
        /\ UNCHANGED <<chain, rolling, files, cert, resized, faults, secret, listener, creating,
                       deleting, revoked>>
    BY <1>5 DEF Finish
  <2>2. FilesOK' /\ CertificateOK'
    BY <1>0, <2>1, SameFiles, SameCertificate DEF chain
  <2>3. ChainOK'
    BY <1>0, <2>1, SameChain DEF ChainOK
  <2>4. SecretsOK'
    BY <1>0, <2>1 DEF SecretsOK, chain
  <2>5. EntriesOK' /\ state'.rollbackInfo = state.rollbackInfo
        /\ saved'.rollbackInfo \in {state.rollbackInfo, saved.rollbackInfo}
    <3>1. state \in Entry /\ saved \in Entry
      BY <1>0 DEF EntriesOK
    <3>2. CASE state.status = "ERROR"
      BY <1>5, <3>1, <3>2 DEF Finish, EntriesOK
    <3>3. CASE state.status # "ERROR"
      BY <1>5, <3>1, <3>3 DEF Finish, EntriesOK, Entry, Status
    <3> QED BY <3>2, <3>3
  <2>6. Situation'
    BY <1>0, <2>1, <2>5 DEF Situation, cert, files, chain
  <2> QED BY <2>2, <2>3, <2>4, <2>5, <2>6 DEF TypeInv, TypeOK
<1> QED BY <1>1, <1>2, <1>3, <1>4, <1>5 DEF Onboard

(* The promises of handleDeviceCertificate leave the chain alone. *)
LEMMA CertificateStepType ==
  ASSUME TypeInv, FilesOK', CertificateOK', BackedUp',
         UNCHANGED <<chain, pc, rolling, state, saved, secrets, resized>>,
         faults' \in 0 .. MaxFaults,
         pc # "certificate" => UNCHANGED <<crt, key, writing>>
  PROVE  TypeInv'
<1>1. TypeOK /\ ChainOK /\ EntriesOK /\ SecretsOK /\ Situation
  BY DEF TypeInv, TypeOK
<1>2. SecretsOK' /\ EntriesOK'
  BY <1>1, SameSecrets DEF chain, EntriesOK
<1>3. ChainOK'
  BY <1>1 DEF ChainOK, chain
<1>4. Decl' = Decl /\ (Declares' <=> Declares)
  BY SameDecl DEF Declares
<1>5. Situation'
  BY <1>1, <1>4 DEF Situation, BackedUp, chain
<1> QED BY <1>2, <1>3, <1>5 DEF TypeInv, TypeOK

LEMMA InCertificateType ==
  ASSUME TypeInv, InCertificate, pc = "certificate",
         file' \in [Path -> Content \ {NoFile}], bak' \in [Path -> Content],
         crt' \in {"cat", "cp", "big3d", "cp big3d", "gtm", "cp gtm"} \cup Ended,
         key' \in {"cat", "cp"} \cup Ended, writing' \subseteq Path,
         wrote' \in BOOLEAN, info' \subseteq Path, BackedUp', faults' \in 0 .. MaxFaults
  PROVE  TypeInv'
<1>1. FilesOK /\ CertificateOK
  BY DEF TypeInv, TypeOK
<1>2. FilesOK' /\ CertificateOK'
  BY <1>1 DEF InCertificate, FilesOK, CertificateOK, chain
<1> QED BY <1>2, CertificateStepType DEF InCertificate

(* What handleDeviceCertificate does with one file, and what of it the     *)
(* type invariant has to know.                                             *)
LEMMA BackUpType ==
  ASSUME TypeInv, NEW p \in Path, BackUp(p), UNCHANGED <<state, saved>>
  PROVE  /\ bak' \in [Path -> Content] /\ writing' \subseteq Path /\ info' \subseteq Path
         /\ wrote' \in BOOLEAN /\ BackedUp'
<1>1. /\ file \in [Path -> Content \ {NoFile}] /\ bak \in [Path -> Content]
      /\ writing \subseteq Path /\ info \subseteq Path /\ BackedUp
      /\ state.rollbackInfo \subseteq Path /\ saved.rollbackInfo \subseteq Path
  BY DEF TypeInv, TypeOK, FilesOK, CertificateOK, EntriesOK, Entry, Situation, BackedUp
<1>2. /\ bak' = [bak EXCEPT ![p] = file[p]] /\ info' = info \cup {p}
      /\ writing' = writing \cup {p} /\ wrote' = TRUE
  BY DEF BackUp
<1>3. bak' \in [Path -> Content]
  BY <1>1, <1>2
<1>4. BackedUp'
  BY <1>1, <1>2 DEF BackedUp
<1> QED BY <1>1, <1>2, <1>3, <1>4

LEMMA LeaveType ==
  ASSUME TypeInv, Leave, UNCHANGED <<state, saved>>
  PROVE  /\ bak' \in [Path -> Content] /\ writing' \subseteq Path /\ info' \subseteq Path
         /\ wrote' \in BOOLEAN /\ BackedUp'
BY DEF TypeInv, TypeOK, FilesOK, CertificateOK, Situation, BackedUp, Leave

(* restoreOriginalCertAndKey takes the first file that differs. *)
LEMMA FirstDiffers ==
  ASSUME Differing # {}
  PROVE  (CHOOSE i \in Differing : \A j \in Differing : i <= j) \in Differing
<1>1. Differing \subseteq {1, 2, 3, 4}
  BY DEF Differing, PathOrder
<1> DEFINE Least(i) == i \in Differing /\ \A j \in Differing : i <= j
<1>2. 1 \in Differing => Least(1)
  BY <1>1
<1>3. 1 \notin Differing /\ 2 \in Differing => Least(2)
  BY <1>1
<1>4. 1 \notin Differing /\ 2 \notin Differing /\ 3 \in Differing => Least(3)
  BY <1>1
<1>5. 1 \notin Differing /\ 2 \notin Differing /\ 3 \notin Differing => Least(4)
  <2>1. PICK i \in Differing : TRUE
    OBVIOUS
  <2> QED BY <1>1, <2>1
<1>6. \E i : Least(i)
  BY <1>2, <1>3, <1>4, <1>5
<1> QED BY <1>6

LEMMA PairType ==
  ASSUME TypeInv, pc = "certificate"
  PROVE  Decl.pair \in Pair /\ {Decl.pair} \in Content \ {NoFile} /\ Decl \in Declaration
<1>1. Decl \in Declaration /\ Decl.pair # NoPair
  BY DeclType DEF TypeInv, Situation, Declares
<1> QED BY <1>1 DEF Declaration, Content, NoFile

LEMMA DeviceCertificateType ==
  ASSUME TypeInv, DeviceCertificate
  PROVE  TypeInv'
<1> USE DEF Path, Trusted
<1>a. TypeOK /\ ChainOK /\ EntriesOK /\ FilesOK /\ CertificateOK /\ SecretsOK /\ Situation
  BY DEF TypeInv, TypeOK
<1>b. BackedUp
  BY <1>a DEF Situation, BackedUp
<1>c. MaxFaults \in Nat /\ faults \in 0 .. MaxFaults
  BY <1>a, SystemAssumption DEF ChainOK
<1>0. /\ TypeOK /\ ChainOK /\ EntriesOK /\ FilesOK /\ CertificateOK /\ SecretsOK /\ Situation
      /\ BackedUp /\ MaxFaults \in Nat /\ faults \in 0 .. MaxFaults
  BY <1>a, <1>b, <1>c
<1>1. ASSUME NEW p \in Path, StoreOriginal(p) PROVE TypeInv'
  <2>1. /\ UNCHANGED <<chain, pc, rolling, state, saved, file, bak, served, crt, key, writing,
                       wrote, info, secrets, resized>>
        /\ \/ orig' = orig \/ orig' = [orig EXCEPT ![p] = file[p]]
        /\ \E s \in {"cp", "end", "failed"} : store' = [store EXCEPT ![p] = s]
    BY <1>1 DEF StoreOriginal
  <2>a. FilesOK'
    BY <1>0, <2>1 DEF FilesOK, chain
  <2>b. PICK s \in {"cp", "end", "failed"} : store' = [store EXCEPT ![p] = s]
    BY <2>1
  <2>c. store' \in [Path -> {"ls", "cp"} \cup Ended]
    BY <1>0, <2>b DEF CertificateOK, Ended
  <2>2. FilesOK' /\ CertificateOK'
    BY <1>0, <2>1, <2>a, <2>c DEF CertificateOK
  <2>3. faults' \in 0 .. MaxFaults
    BY <1>0, <1>1, FaultType DEF StoreOriginal
  <2>4. BackedUp'
    BY <1>0, <2>1 DEF BackedUp
  <2> QED BY <2>1, <2>2, <2>3, <2>4, CertificateStepType
<1>2. ASSUME NEW p \in Path, Write(p) PROVE TypeInv'
  <2>1. /\ p \in writing /\ writing' = writing \ {p} /\ file' = [file EXCEPT ![p] = Written(p)]
        /\ UNCHANGED <<bak, crt, key, wrote, info, faults>> /\ InCertificate
    BY <1>2 DEF Write
  <2>2. pc = "certificate"
    BY <1>0, <2>1 DEF Situation
  <2>3. Written(p) \in Content \ {NoFile}
    <3>1. file[p] \in Content \ {NoFile} /\ {Decl.pair} \in Content \ {NoFile}
      BY <1>0, <2>2, PairType DEF FilesOK
    <3> QED BY <3>1 DEF Written, Content, NoFile
  <2>4. file' \in [Path -> Content \ {NoFile}]
    BY <1>0, <2>1, <2>3 DEF FilesOK
  <2>5. BackedUp'
    BY <1>0, <2>1 DEF BackedUp, InCertificate
  <2> QED BY <1>0, <2>1, <2>2, <2>4, <2>5, InCertificateType DEF FilesOK, CertificateOK
<1>3. CASE CrtStep
  <2>1. crt \notin Ended /\ UNCHANGED <<file, key, faults>> /\ InCertificate
    BY <1>3 DEF CrtStep, Ended
  <2>2. pc = "certificate"
    BY <1>0, <2>1 DEF Situation
  <2>3. Leave \/ \E p \in Path : BackUp(p)
    BY <1>3 DEF CrtStep
  <2>4. crt' \in {"cp", "big3d", "cp big3d", "gtm", "cp gtm", "end"}
    BY <1>3 DEF CrtStep, AfterCrt
  <2>5. UNCHANGED <<state, saved>>
    BY <2>1 DEF InCertificate
  <2>6. /\ bak' \in [Path -> Content] /\ writing' \subseteq Path /\ info' \subseteq Path
        /\ wrote' \in BOOLEAN /\ BackedUp'
    BY <2>3, <2>5, BackUpType, LeaveType
  <2> QED BY <1>0, <2>1, <2>2, <2>4, <2>6, InCertificateType DEF FilesOK, CertificateOK, Ended
<1>4. CASE KeyStep
  <2>1. key \notin Ended /\ UNCHANGED <<file, crt, faults>> /\ InCertificate
    BY <1>4 DEF KeyStep, Ended
  <2>2. pc = "certificate"
    BY <1>0, <2>1 DEF Situation
  <2>3. Leave \/ \E p \in Path : BackUp(p)
    BY <1>4 DEF KeyStep
  <2>4. key' \in {"cp", "end"}
    BY <1>4 DEF KeyStep
  <2>5. UNCHANGED <<state, saved>>
    BY <2>1 DEF InCertificate
  <2>6. /\ bak' \in [Path -> Content] /\ writing' \subseteq Path /\ info' \subseteq Path
        /\ wrote' \in BOOLEAN /\ BackedUp'
    BY <2>3, <2>5, BackUpType, LeaveType
  <2> QED BY <1>0, <2>1, <2>2, <2>4, <2>6, InCertificateType DEF FilesOK, CertificateOK, Ended
<1>5. CASE CertificateCallFails
  <2>1. /\ UNCHANGED <<file, bak, wrote, info>> /\ InCertificate /\ Fault
        /\ crt' \in {crt, "failed"} /\ key' \in {key, "failed"} /\ writing' \subseteq writing
        /\ crt \notin Ended \/ key \notin Ended \/ writing # {}
    BY <1>5 DEF CertificateCallFails
  <2>2. pc = "certificate"
    BY <1>0, <2>1 DEF Situation
  <2>3. faults' \in 0 .. MaxFaults
    BY <1>0, <2>1, FaultType
  <2>4. BackedUp'
    BY <1>0, <2>1 DEF BackedUp, InCertificate
  <2> QED BY <1>0, <2>1, <2>2, <2>3, <2>4, InCertificateType DEF FilesOK, CertificateOK, Ended
<1>6. CASE CertificateEnds
  <2>1. /\ pc = "certificate" /\ Quiet /\ UNCHANGED cert
        /\ \/ Rejected /\ UNCHANGED <<chain, files, secrets, resized, faults>>
           \/ Step("certificate", "license")
    BY <1>6 DEF CertificateEnds
  <2>2. CASE Rejected /\ UNCHANGED <<chain, files, secrets, resized, faults>>
    <3>1. UNCHANGED <<before, task, bak, info, crt, key, writing>>
      BY <2>1, <2>2 DEF chain, files, cert
    <3>2. FilesOK' /\ CertificateOK' /\ SecretsOK'
      BY <1>0, <2>1, <2>2, <3>1, SameFiles, SameCertificate, SameSecrets
    <3>3. ChainOK' /\ EntriesOK' /\ Situation'
      BY <1>0, <2>1, <2>2, <3>1, RejectedType
    <3> QED BY <3>2, <3>3 DEF TypeInv, TypeOK
  <2> QED BY <2>1, <2>2, StepType
<1>7. CASE RestoreCertAndKey
  <2>1. /\ pc = "restore" /\ Quiet
        /\ UNCHANGED <<chain, orig, served, store, crt, key, writing, secrets, resized>>
    BY <1>7 DEF RestoreCertAndKey
  <2>2. \/ Rejected /\ UNCHANGED <<file, bak, wrote, info, faults>>
        \/ RollbackCertAndKey
        \/ RestoreOriginal
    BY <1>7 DEF RestoreCertAndKey
  <2>3. \A p \in state.rollbackInfo : p \in Path /\ bak[p] \in Content \ {NoFile}
    BY <1>0 DEF BackedUp, EntriesOK, Entry, FilesOK
  <2>4. \A p \in Path : orig[p] # NoFile => orig[p] \in Content \ {NoFile}
    BY <1>0 DEF FilesOK
  <2>5. /\ file' \in [Path -> Content \ {NoFile}] /\ bak' \in [Path -> Content]
        /\ wrote' \in BOOLEAN /\ info' \subseteq Path
        /\ \A p \in Path : bak[p] # NoFile => bak'[p] # NoFile
        /\ \A p \in info' \ info : bak'[p] # NoFile
        /\ \/ UNCHANGED <<bak, info>> /\ Rejected /\ (UNCHANGED faults \/ Fault)
           \/ pc' \in {pc, "license"} /\ UNCHANGED <<rolling, state, saved, faults>>
    <3>1. CASE Rejected /\ UNCHANGED <<file, bak, wrote, info, faults>>
      BY <1>0, <3>1 DEF FilesOK, CertificateOK
    <3>2. CASE RollbackCertAndKey
      <4>1. PICK copied \in SUBSET state.rollbackInfo :
              /\ file' = [p \in Path |-> IF p \in copied THEN bak[p] ELSE file[p]]
              /\ IF copied = state.rollbackInfo
                   THEN /\ pc' = "license"
                        /\ UNCHANGED <<rolling, state, saved, faults>>
                   ELSE Fault /\ Rejected
        BY <3>2 DEF RollbackCertAndKey
      <4>2. wrote' = TRUE /\ UNCHANGED <<bak, info>>
        BY <3>2 DEF RollbackCertAndKey
      <4>3. file' \in [Path -> Content \ {NoFile}]
        BY <1>0, <2>3, <4>1 DEF FilesOK
      <4> QED BY <1>0, <4>1, <4>2, <4>3 DEF FilesOK, CertificateOK
    <3>3. CASE RestoreOriginal /\ Differing = {}
      BY <1>0, <3>3 DEF RestoreOriginal, FilesOK, CertificateOK
    <3>4. CASE RestoreOriginal /\ Differing # {}
      <4> DEFINE first == CHOOSE i \in Differing : \A j \in Differing : i <= j
                 p == PathOrder[first]
      <4>1. \/ /\ bak' = [bak EXCEPT ![p] = file[p]]
               /\ file' = [file EXCEPT ![p] = orig[p]]
               /\ wrote' = TRUE /\ info' = info \cup {p}
               /\ UNCHANGED <<pc, rolling, state, saved, faults>>
            \/ Fault /\ Rejected /\ UNCHANGED <<file, bak, wrote, info>>
        BY <3>4 DEF RestoreOriginal
      <4>2. first \in Differing
        BY <3>4, FirstDiffers
      <4> HIDE DEF first
      <4>a. first \in {1, 2, 3, 4} /\ orig[PathOrder[first]] # NoFile
        BY <4>2 DEF Differing, PathOrder
      <4>3. p \in Path /\ orig[p] # NoFile
        BY <4>a DEF PathOrder
      <4> HIDE DEF p
      <4>4. CASE Fault /\ Rejected /\ UNCHANGED <<file, bak, wrote, info>>
        BY <1>0, <4>4 DEF FilesOK, CertificateOK
      <4>5. CASE /\ bak' = [bak EXCEPT ![p] = file[p]]
                 /\ file' = [file EXCEPT ![p] = orig[p]]
                 /\ wrote' = TRUE /\ info' = info \cup {p}
                 /\ UNCHANGED <<pc, rolling, state, saved, faults>>
        <5>1. file[p] \in Content \ {NoFile} /\ orig[p] \in Content \ {NoFile}
          BY <1>0, <4>3 DEF FilesOK
        <5>2. file' \in [Path -> Content \ {NoFile}]
          BY <1>0, <4>5, <5>1 DEF FilesOK
        <5>3. bak' \in [Path -> Content] /\ bak'[p] = file[p]
              /\ \A q \in Path : bak[q] # NoFile => bak'[q] # NoFile
          BY <1>0, <4>3, <4>5, <5>1 DEF FilesOK
        <5>4. wrote' \in BOOLEAN /\ info' \subseteq Path
              /\ \A q \in info' \ info : bak'[q] # NoFile
          BY <1>0, <4>3, <4>5, <5>1, <5>3 DEF CertificateOK
        <5> QED BY <4>5, <5>2, <5>3, <5>4
      <4> QED BY <4>1, <4>4, <4>5
    <3> QED BY <2>2, <3>1, <3>2, <3>3, <3>4
  <2>6. FilesOK' /\ CertificateOK' /\ SecretsOK'
    BY <1>0, <2>1, <2>5, SameSecrets DEF FilesOK, CertificateOK, chain
  <2>7. CASE UNCHANGED <<bak, info>> /\ Rejected /\ (UNCHANGED faults \/ Fault)
    <3>1. faults' \in 0 .. MaxFaults
      BY <1>0, <2>7, FaultType
    <3>2. ChainOK' /\ EntriesOK' /\ Situation'
      BY <1>0, <2>1, <2>7, <3>1, RejectedType
    <3> QED BY <2>6, <3>2 DEF TypeInv, TypeOK
  <2>8. CASE pc' \in {pc, "license"} /\ UNCHANGED <<rolling, state, saved, faults>>
    <3>1. ChainOK' /\ EntriesOK'
      BY <1>0, <2>1, <2>8, SameChain DEF EntriesOK
    <3>2. BackedUp'
      BY <1>0, <2>5, <2>8 DEF BackedUp, EntriesOK, Entry, CertificateOK
    <3>3. Decl' = Decl /\ (Declares' <=> Declares)
      BY <2>1, <2>8, SameDecl DEF Declares
    <3>4. Situation'
      BY <1>0, <2>1, <2>8, <3>2, <3>3 DEF Situation, BackedUp, chain
    <3> QED BY <2>6, <3>1, <3>4 DEF TypeInv, TypeOK
  <2> QED BY <2>5, <2>7, <2>8
<1> QED BY <1>1, <1>2, <1>3, <1>4, <1>5, <1>6, <1>7 DEF DeviceCertificate

(* The license and the passwords do not touch the files.                   *)
LEMMA SecretStepType ==
  ASSUME TypeInv, UNCHANGED <<chain, files, cert, rolling, resized>>,
         EntriesOK', SecretsOK', BackedUp', faults' \in 0 .. MaxFaults,
         pc' = pc \/ (pc \notin {"idle", "certificate"} /\
                      pc' \in {"delay", "licensing", "earlier", "settled", "reboot",
                               "waitForRevokeReady", "decrypt bigIq", "resume"})
  PROVE  TypeInv'
<1>1. TypeOK /\ ChainOK /\ FilesOK /\ CertificateOK /\ Situation
  BY DEF TypeInv, TypeOK
<1>2. FilesOK' /\ CertificateOK'
  BY <1>1, SameFiles, SameCertificate DEF chain
<1>3. ChainOK'
  BY <1>1 DEF ChainOK, chain
<1>4. Decl' = Decl /\ (Declares' <=> Declares)
  BY SameDecl DEF Declares
<1>5. UNCHANGED <<task, crt, key, writing>>
  BY DEF chain, cert
<1>6. Situation'
  BY <1>1, <1>4, <1>5 DEF Situation, BackedUp
<1> QED BY <1>2, <1>3, <1>6 DEF TypeInv, TypeOK

(* The same of an action that leaves the entry alone, too. *)
LEMMA SecretOnlyType ==
  ASSUME TypeInv, UNCHANGED <<chain, files, cert, rolling, resized, state, saved>>,
         SecretsOK', faults' \in 0 .. MaxFaults,
         pc' = pc \/ (pc \notin {"idle", "certificate"} /\
                      pc' \in {"delay", "licensing", "earlier", "settled", "reboot",
                               "waitForRevokeReady", "decrypt bigIq", "resume"})
  PROVE  TypeInv'
<1>1. EntriesOK /\ BackedUp
  BY DEF TypeInv, TypeOK, Situation, BackedUp
<1>2. EntriesOK' /\ BackedUp'
  BY <1>1 DEF EntriesOK, BackedUp, cert, files
<1> QED BY <1>2, SecretStepType

(* The status and the message of an entry. *)
LEMMA StatusType ==
  ASSUME TypeInv, UNCHANGED <<files, cert>>,
         state' \in Entry, state'.rollbackInfo = state.rollbackInfo,
         saved' = saved \/ saved' = state'
  PROVE  EntriesOK' /\ BackedUp'
<1>1. saved \in Entry /\ BackedUp
  BY DEF TypeInv, TypeOK, EntriesOK, Situation, BackedUp
<1>3. BackedUp'
  BY <1>1 DEF BackedUp, files, cert
<1> QED BY <1>1, <1>3 DEF EntriesOK

LEMMA RelicenseType ==
  ASSUME TypeInv, Relicense \/ Disk
  PROVE  TypeInv'
<1>0. TypeOK /\ ChainOK /\ EntriesOK /\ FilesOK /\ CertificateOK /\ SecretsOK /\ Situation
  BY DEF TypeInv, TypeOK
<1>t. task \in Nat
  BY <1>0, PostsType
<1>a. /\ secret \in [SecretId -> 0 .. task] /\ savedSecret \in [SecretId -> 0 .. task]
      /\ listener \in {"idle", "create", "status", "ready", "failed"}
      /\ creating \subseteq SecretId /\ deleting \subseteq SecretId /\ revoked \in BOOLEAN
      /\ task \in 0 .. task /\ 0 \in 0 .. task /\ faults \in 0 .. MaxFaults
  <2>1. task \in 0 .. task /\ 0 \in 0 .. task
    BY <1>t
  <2>2. faults \in 0 .. MaxFaults
    BY <1>0 DEF ChainOK
  <2> QED BY <1>0, <2>1, <2>2, Zenon DEF SecretsOK
<1>b. state \in Entry /\ saved \in Entry
  BY <1>0 DEF EntriesOK
<1>1. CASE License
  <2>1. CASE Step("license", "disk") /\ UNCHANGED cert
    BY <2>1, StepType
  <2>2. CASE Step("license", "licensing") /\ UNCHANGED cert
    BY <2>2, StepType
  <2>3. CASE /\ pc' = "waitForRevokeReady"
             /\ listener' = "create" /\ creating' = Given
             /\ UNCHANGED <<chain, rolling, state, saved, files, cert, secret, savedSecret,
                            deleting, revoked, resized, faults>>
    <3>1. pc = "license"
      BY <1>1 DEF License
    <3>2. SecretsOK'
      BY <1>a, <2>3 DEF SecretsOK, Given, SecretId, chain
    <3> QED BY <1>a, <2>3, <3>1, <3>2, SecretOnlyType
  <2> QED BY <1>1, <2>1, <2>2, <2>3 DEF License
<1>2. CASE Prepare
  <2>1. /\ UNCHANGED <<chain, pc, rolling, files, cert, deleting, revoked, resized, secret,
                       creating>>
        /\ listener' \in {"status", "ready", "failed"}
        /\ savedSecret' \in {savedSecret, secret}
        /\ UNCHANGED faults \/ Fault
    BY <1>2 DEF Prepare, InListener
  <2>2. SecretsOK'
    BY <1>a, <2>1 DEF SecretsOK, chain
  <2>3. faults' \in 0 .. MaxFaults
    BY <1>0, <1>a, <2>1, FaultType
  <2>4. CASE UNCHANGED <<state, saved>>
    BY <2>1, <2>2, <2>3, <2>4, SecretOnlyType
  <2>5. CASE state' = [state EXCEPT !.status = "REVOKING", !.message = ""] /\ saved' = state'
    <3>a. state' \in Entry /\ state'.rollbackInfo = state.rollbackInfo
      BY <1>b, <2>5 DEF Entry, Status
    <3>1. EntriesOK' /\ BackedUp'
      BY <2>1, <2>5, <3>a, StatusType
    <3> QED BY <2>1, <2>2, <2>3, <3>1, SecretStepType
  <2> QED BY <1>2, <2>4, <2>5 DEF Prepare
<1>3. CASE Revoke
  <2>1. /\ pc = "waitForRevokeReady"
        /\ UNCHANGED <<chain, files, cert, secret, savedSecret, creating, deleting, resized>>
        /\ listener' \in {"idle", listener} /\ revoked' \in BOOLEAN
        /\ UNCHANGED faults \/ Fault
        /\ \/ pc' \in {"delay", "licensing"} /\ UNCHANGED <<rolling, state, saved>>
           \/ Rejected
    BY <1>3, <1>a DEF Revoke
  <2>2. SecretsOK'
    BY <1>a, <2>1 DEF SecretsOK, chain
  <2>3. faults' \in 0 .. MaxFaults
    BY <1>0, <1>a, <2>1, FaultType
  <2>4. CASE pc' \in {"delay", "licensing"} /\ UNCHANGED <<rolling, state, saved>>
    BY <2>1, <2>2, <2>3, <2>4, SecretOnlyType
  <2>5. CASE Rejected
    <3>1. UNCHANGED <<before, task, bak, info, crt, key, writing>>
      BY <2>1 DEF chain, files, cert
    <3>2. ChainOK' /\ EntriesOK' /\ BackedUp' /\ pc' \in {"finish", "earlier"}
      BY <2>1, <2>3, <2>5, <3>1, RejectedType
    <3>3. FilesOK' /\ CertificateOK'
      BY <1>0, <2>1, <3>1, SameFiles, SameCertificate
    <3>4. Situation'
      BY <1>0, <2>1, <3>1, <3>2 DEF Situation, BackedUp
    <3> QED BY <2>2, <3>2, <3>3, <3>4 DEF TypeInv, TypeOK
  <2> QED BY <2>1, <2>4, <2>5
<1>4. CASE DelayEnds
  BY <1>4, StepType DEF DelayEnds
<1>5. CASE Licensing
  <2>1. CASE Step("licensing", "disk") /\ UNCHANGED cert
    BY <2>1, StepType
  <2>2. CASE pc = "licensing" /\ Fails
    BY <2>2, FailsType
  <2> QED BY <1>5, <2>1, <2>2 DEF Licensing
<1>6. ASSUME NEW id \in SecretId, Create(id) PROVE TypeInv'
  <2>1. /\ UNCHANGED <<chain, pc, rolling, files, cert, deleting, revoked, resized, savedSecret,
                       state, saved>>
        /\ creating' = creating \ {id} /\ listener' \in {listener, "failed"}
        /\ secret' = secret \/ secret' = [secret EXCEPT ![id] = task]
        /\ UNCHANGED faults \/ Fault
    BY <1>6 DEF Create, InListener
  <2>2. secret' \in [SecretId -> 0 .. task]
    BY <1>a, <2>1
  <2>3. SecretsOK'
    BY <1>a, <2>1, <2>2 DEF SecretsOK, chain
  <2>4. faults' \in 0 .. MaxFaults
    BY <1>0, <1>a, <2>1, FaultType
  <2> QED BY <2>1, <2>3, <2>4, SecretOnlyType
<1>7. ASSUME NEW id \in SecretId, Delete(id) PROVE TypeInv'
  <2>1. /\ UNCHANGED <<chain, pc, rolling, saved, files, cert, savedSecret, creating, revoked,
                       resized, state>>
        /\ deleting' = deleting \ {id} /\ listener' \in {listener, "failed"}
        /\ secret' = secret \/ secret' = [secret EXCEPT ![id] = 0]
        /\ UNCHANGED faults \/ Fault
    BY <1>7 DEF Delete, InResume
  <2>2. secret' \in [SecretId -> 0 .. task]
    BY <1>a, <2>1
  <2>3. SecretsOK'
    BY <1>a, <2>1, <2>2 DEF SecretsOK, chain
  <2>4. faults' \in 0 .. MaxFaults
    BY <1>0, <1>a, <2>1, FaultType
  <2> QED BY <2>1, <2>3, <2>4, SecretOnlyType
<1>8. ASSUME NEW id \in SecretId, NEW from \in {"decrypt bigIp", "decrypt bigIq"},
             NEW to \in {"decrypt bigIq", "resume"}, Decrypt(id, from, to)
      PROVE  TypeInv'
  <2>1. /\ UNCHANGED <<chain, rolling, saved, files, cert, savedSecret, creating, revoked,
                       resized, secret, listener>>
        /\ pc = from /\ pc' \in {to, "settled"}
        /\ deleting' = deleting \/ deleting' = deleting \cup {id}
        /\ UNCHANGED faults \/ Fault
    BY <1>8 DEF Decrypt, InResume, ResumeFails
  <2>2. SecretsOK'
    BY <1>a, <2>1 DEF SecretsOK, chain
  <2>3. faults' \in 0 .. MaxFaults
    BY <1>0, <1>a, <2>1, FaultType
  <2>4. CASE UNCHANGED state
    BY <2>1, <2>2, <2>3, <2>4, SecretOnlyType
  <2>5. CASE state' = [state EXCEPT !.status = "ERROR", !.message = "failed"]
    <3>a. state' \in Entry /\ state'.rollbackInfo = state.rollbackInfo
      BY <1>b, <2>5 DEF Entry, Status
    <3>1. EntriesOK' /\ BackedUp'
      BY <2>1, <2>5, <3>a, StatusType
    <3> QED BY <2>1, <2>2, <2>3, <3>1, SecretStepType
  <2> QED BY <1>8, <2>4, <2>5 DEF Decrypt, ResumeFails
<1>9. CASE Resume
  <2>1. /\ UNCHANGED <<chain, rolling, saved, files, cert, savedSecret, creating, revoked,
                       resized, secret, deleting, faults>>
        /\ pc = "resume" /\ pc' \in {"earlier", "settled"} /\ listener' = "idle"
    BY <1>9 DEF Resume, InResume, ResumeFails
  <2>2. SecretsOK'
    BY <1>a, <2>1 DEF SecretsOK, chain
  <2>4. CASE UNCHANGED state
    BY <1>a, <2>1, <2>2, <2>4, SecretOnlyType
  <2>5. CASE state' = [state EXCEPT !.status = "ERROR", !.message = "failed"]
    <3>a. state' \in Entry /\ state'.rollbackInfo = state.rollbackInfo
      BY <1>b, <2>5 DEF Entry, Status
    <3>1. EntriesOK' /\ BackedUp'
      BY <2>1, <2>5, <3>a, StatusType
    <3> QED BY <1>a, <2>1, <2>2, <3>1, SecretStepType
  <2> QED BY <1>9, <2>4, <2>5 DEF Resume, ResumeFails
<1>10. CASE Disk
  <2>1. CASE Step("disk", "later") /\ UNCHANGED cert
    BY <2>1, StepType
  <2>2. CASE /\ pc' = "reboot"
             /\ state' = [state EXCEPT !.status = "RESUMING", !.rebootRequired = TRUE]
             /\ saved' = state'
             /\ savedSecret' = secret
             /\ UNCHANGED <<chain, rolling, files, cert, secret, listener, creating, deleting,
                            revoked, resized, faults>>
    <3>1. pc = "disk"
      BY <1>10 DEF Disk
    <3>2. SecretsOK'
      BY <1>a, <2>2 DEF SecretsOK, chain
    <3>a. state' \in Entry /\ state'.rollbackInfo = state.rollbackInfo
      BY <1>b, <2>2 DEF Entry, Status
    <3>3. EntriesOK' /\ BackedUp'
      BY <2>2, <3>a, StatusType
    <3> QED BY <1>a, <2>2, <3>1, <3>2, <3>3, SecretStepType
  <2> QED BY <1>10, <2>1, <2>2 DEF Disk
<1> QED
  BY <1>1, <1>2, <1>3, <1>4, <1>5, <1>6, <1>7, <1>8, <1>9, <1>10 DEF Relicense, SecretId

(* A restart: only what has been saved counts. *)
LEMMA StartupType ==
  ASSUME TypeInv, Startup, task > 0,
         file' \in [Path -> Content \ {NoFile}], served' \in [{"crt", "key"} -> Content \ {NoFile}],
         secret' \in [SecretId -> 0 .. task], UNCHANGED savedSecret,
         writing' = {}, creating' = {}, deleting' = {},
         resized' \in BOOLEAN, restarted' \in BOOLEAN, faults' \in 0 .. MaxFaults
  PROVE  TypeInv'
<1>0. TypeOK /\ ChainOK /\ EntriesOK /\ FilesOK /\ CertificateOK /\ SecretsOK /\ BackedUp
  BY DEF TypeInv, TypeOK, Situation, BackedUp
<1>1. /\ UNCHANGED <<posts, task, before, orig, bak>>
      /\ store' = [p \in Path |-> "end"] /\ crt' = "end" /\ key' = "end"
      /\ wrote' = FALSE /\ info' = {} /\ listener' = "idle"
      /\ pc' \in {"decrypt bigIp", "settled"}
      /\ dropped' \in {dropped, TRUE} /\ rolling' \in {rolling, FALSE}
      /\ revoked' \in {revoked, FALSE}
      /\ saved' = state'
      /\ \/ state' = saved \/ \E s \in {"RUNNING", "OK"} : state' = [saved EXCEPT !.status = s]
  BY DEF Startup
<1>2. saved \in Entry /\ state' \in Entry /\ state'.rollbackInfo = saved.rollbackInfo
  BY <1>0, <1>1 DEF EntriesOK, Entry, Status
<1>3. EntriesOK' /\ BackedUp'
  BY <1>0, <1>1, <1>2 DEF EntriesOK, BackedUp
<1>4. ChainOK'
  BY <1>0, <1>1 DEF ChainOK
<1>5. FilesOK'
  BY <1>0, <1>1 DEF FilesOK
<1>6. CertificateOK'
  BY <1>1 DEF CertificateOK, Ended
<1>7. SecretsOK'
  BY <1>0, <1>1 DEF SecretsOK
<1>8. Situation'
  BY <1>1, <1>3 DEF Situation, BackedUp, Ended
<1> QED BY <1>3, <1>4, <1>5, <1>6, <1>7, <1>8 DEF TypeInv, TypeOK

(* What is under way writes good contents, and passwords of this task. *)
LEMMA LandedType ==
  ASSUME TypeInv, NEW done, Landed(done)
  PROVE  file' \in [Path -> Content \ {NoFile}] /\ writing' = {} /\ creating' = {} /\ deleting' = {}
<1>1. /\ file' = [p \in Path |-> IF p \in writing /\ p \in done THEN Written(p) ELSE file[p]]
      /\ file \in [Path -> Content \ {NoFile}]
      /\ pc # "certificate" => writing = {}
  BY DEF Landed, TypeInv, TypeOK, FilesOK, Situation
<1>2. \A p \in Path : p \in writing => Written(p) \in Content \ {NoFile}
  <2>1. ASSUME NEW p \in Path, p \in writing PROVE Written(p) \in Content \ {NoFile}
    <3>1. {Decl.pair} \in Content \ {NoFile}
      BY <1>1, <2>1, PairType
    <3>2. file[p] \in Content \ {NoFile}
      BY <1>1
    <3> QED BY <3>1, <3>2 DEF Written, Content, NoFile
  <2> QED BY <2>1
<1> QED BY <1>1, <1>2 DEF Landed

LEMMA RestartType ==
  ASSUME TypeInv, task > 0, NEW done, Restart(done), faults' \in 0 .. MaxFaults
  PROVE  TypeInv'
<1>0. TypeOK /\ ChainOK /\ FilesOK /\ SecretsOK
  BY DEF TypeInv, TypeOK
<1>1. /\ Landed(done) /\ Startup /\ UNCHANGED <<served, savedSecret, resized>>
      /\ secret' = [id \in SecretId |-> SecretAfter(id, done)]
      /\ restarted' = (restarted \/ ~Settled \/ Resumes)
  BY DEF Restart
<1>2. task \in Nat
  BY <1>0, PostsType
<1>3. \A id \in SecretId : SecretAfter(id, done) \in 0 .. task
  BY <1>0, <1>2 DEF SecretAfter, SecretsOK
<1>4. secret' \in [SecretId -> 0 .. task]
  BY <1>1, <1>3
<1>5. resized' \in BOOLEAN /\ restarted' \in BOOLEAN
  BY <1>0, <1>1 DEF ChainOK
<1>6. served' \in [{"crt", "key"} -> Content \ {NoFile}]
  BY <1>0, <1>1 DEF FilesOK
<1> QED BY <1>1, <1>4, <1>5, <1>6, LandedType, StartupType

LEMMA RebootType ==
  ASSUME TypeInv, task > 0, NEW done, Reboot(done), faults' \in 0 .. MaxFaults,
         restarted' \in BOOLEAN
  PROVE  TypeInv'
<1>0. TypeOK /\ ChainOK /\ SecretsOK
  BY DEF TypeInv, TypeOK
<1>1. /\ Landed(done) /\ Startup /\ UNCHANGED savedSecret /\ secret' = savedSecret
      /\ served' = [p \in {"crt", "key"} |-> file'[p]]
      /\ resized' = (resized \/ state.status = "RESUMING")
  BY DEF Reboot
<1>2. file' \in [Path -> Content \ {NoFile}] /\ writing' = {} /\ creating' = {} /\ deleting' = {}
  BY <1>1, LandedType
<1>3. served' \in [{"crt", "key"} -> Content \ {NoFile}]
  BY <1>1, <1>2 DEF Path
<1>4. resized' \in BOOLEAN /\ secret' \in [SecretId -> 0 .. task]
  BY <1>0, <1>1 DEF ChainOK, SecretsOK
<1> QED BY <1>1, <1>2, <1>3, <1>4, StartupType

LEMMA RestartsType ==
  ASSUME TypeInv, Restarts
  PROVE  TypeInv'
<1>0. TypeOK /\ ChainOK /\ Situation
  BY DEF TypeInv, TypeOK
<1>1. CASE ServicesRestart
  <2>1. task > 0 /\ faults' \in 0 .. MaxFaults /\ \E done : Restart(done)
    BY <1>0, <1>1 DEF ServicesRestart, Situation, ChainOK
  <2> QED BY <2>1, RestartType
<1>2. CASE WorkerCrash
  <2>1. task > 0 /\ Fault /\ \E done : Restart(done)
    BY <1>0, <1>2 DEF WorkerCrash, Situation
  <2>2. faults' \in 0 .. MaxFaults
    BY <1>0, <2>1, FaultType
  <2> QED BY <2>1, <2>2, RestartType
<1>3. CASE DeviceReboot
  <2>1. task > 0 /\ faults' \in 0 .. MaxFaults /\ restarted' \in BOOLEAN /\ Reboot({})
    BY <1>0, <1>3 DEF DeviceReboot, Situation, ChainOK
  <2> QED BY <2>1, RebootType
<1>4. CASE PowerLoss
  <2>1. task > 0 /\ Fault /\ restarted' \in BOOLEAN /\ \E done : Reboot(done)
    BY <1>0, <1>4 DEF PowerLoss, Situation, ChainOK
  <2>2. faults' \in 0 .. MaxFaults
    BY <1>0, <2>1, FaultType
  <2> QED BY <2>1, <2>2, RebootType
<1> QED BY <1>1, <1>2, <1>3, <1>4 DEF Restarts

LEMMA InitType == ASSUME Init PROVE TypeInv
<1>1. posts \in Posts /\ MaxFaults \in Nat /\ posts \in Seq(Declaration)
  BY SystemAssumption DEF Init
<1>2. ChainOK
  <2>1. Len(posts) \in Nat
    BY <1>1
  <2>2. task \in 0 .. Len(posts) /\ faults \in 0 .. MaxFaults
    BY <1>1, <2>1 DEF Init
  <2> QED BY <1>1, <2>2 DEF Init, ChainOK
<1>3. EntriesOK /\ state.rollbackInfo = {} /\ saved.rollbackInfo = {}
  BY DEF Init, EntriesOK, NewEntry, Entry, Status
<1>4. FilesOK
  BY DEF Init, FilesOK, Content, NoFile, Path
<1>5. CertificateOK
  BY DEF Init, CertificateOK, Ended
<1>6. SecretsOK
  <2>1. 0 \in 0 .. task
    BY DEF Init
  <2> QED BY <2>1 DEF Init, SecretsOK
<1>7. Situation
  BY <1>3 DEF Init, Situation, Ended
<1> QED BY <1>2, <1>3, <1>4, <1>5, <1>6, <1>7 DEF TypeInv, TypeOK

LEMMA StutterType == ASSUME TypeInv, UNCHANGED vars PROVE TypeInv'
<1>1. /\ UNCHANGED <<chain, rolling, resized, faults, pc, state, saved, files, cert, secrets>>
      /\ UNCHANGED <<posts, task, before, dropped, restarted>>
  BY DEF vars, chain
<1>2. TypeOK /\ ChainOK /\ EntriesOK /\ FilesOK /\ CertificateOK /\ SecretsOK /\ Situation
  BY DEF TypeInv, TypeOK
<1>3. ChainOK' /\ EntriesOK'
  BY <1>1, <1>2 DEF ChainOK, EntriesOK
<1>4. FilesOK' /\ CertificateOK' /\ SecretsOK'
  BY <1>1, <1>2, SameFiles, SameCertificate, SameSecrets
<1>5. Decl' = Decl /\ (Declares' <=> Declares)
  BY <1>1 DEF Declares, Decl
<1>6. Situation'
  BY <1>1, <1>2, <1>5 DEF Situation, cert, files
<1> QED BY <1>3, <1>4, <1>6 DEF TypeInv, TypeOK

LEMMA NextType == ASSUME TypeInv, [Next]_vars PROVE TypeInv'
BY OnboardType, DeviceCertificateType, RelicenseType, RestartsType, StutterType DEF Next

(* The state is of the right shape, whatever is posted, however the        *)
(* promises interleave, and whenever something fails or restarts; and what *)
(* can be rolled back has a backup copy.                                   *)
THEOREM TypeCorrect == Spec => []TypeOK
<1>1. Spec => []TypeInv
  BY InitType, NextType, PTL DEF Spec
<1>2. TypeInv => TypeOK
  BY DEF TypeInv
<1> QED BY <1>1, <1>2, PTL

-----------------------------------------------------------------------------
(* The passwords *)

Preparing == listener \in {"create", "status"}

(* The password is on the device, and nobody is deleting it. *)
IsKept(id) == secret[id] = task /\ id \notin deleting

(* The listener is at work only while the handler waits for it, or after   *)
(* the handler was rejected.                                               *)
ListenerIsLate ==
  /\ Preparing \/ creating # {} => rolling \/ pc = "waitForRevokeReady"
  /\ pc \in Resuming => /\ ~Preparing /\ creating = {} /\ saved.status = "RUNNING"
                        /\ ~rolling /\ ~revoked /\ dropped
  /\ listener = "ready" => creating = {}
  /\ pc = "waitForRevokeReady" => ~rolling /\ ~dropped

Prepared ==
  /\ \A id \in deleting : secret[id] # 0
  /\ listener = "create" => \A id \in Given \ creating : IsKept(id)
  /\ listener = "status" \/ (saved.status = "REVOKING" /\ task > 0) =>
       \A id \in Given : IsKept(id) /\ savedSecret[id] = task
  /\ listener = "status" => creating = {}

Unused(id) == secret[id] # task /\ savedSecret[id] # task

(* Only a task that revokes has passwords on the device. *)
OnlyRevoking ==
  task > 0 => \A id \in SecretId :
    ~Unused(id) \/ id \in creating => Decl.license = "revokeFrom"

Removed ==
  /\ pc \in Ahead \cup {"save", "finish"} /\ pc # "waitForRevokeReady" /\ ~rolling /\ ~revoked =>
       \A id \in SecretId : secret[id] # task
  /\ saved.status \in {"OK", "REBOOTING"} /\ ~rolling /\ ~revoked =>
       \A id \in SecretId : Unused(id)
  /\ pc \in {"decrypt bigIq", "resume"} /\ "bigIp" \in LooksFor =>
       "bigIp" \in deleting \/ secret["bigIp"] = 0 \/ listener = "failed"
  /\ pc = "resume" /\ "bigIq" \in LooksFor =>
       "bigIq" \in deleting \/ secret["bigIq"] = 0 \/ listener = "failed"

SecretInv == ListenerIsLate /\ Prepared /\ OnlyRevoking /\ Removed

(* The entry of the task.  What can be rolled back is known from the end   *)
(* of process on, and is not there for a task that is resumed.             *)
InfoIsLate ==
  /\ pc \in Resuming \/ Preparing \/ (pc \in Ahead /\ ~rolling) => state.rollbackInfo = {}
  /\ Resumes => saved.rollbackInfo = {}

RebootIsLate ==
  /\ pc \in Ahead /\ ~rolling /\ ~dropped => ~state.rebootRequired
  /\ rolling /\ (Preparing \/ saved.status = "REVOKING") => ~state.rebootRequired
  /\ pc = "reboot" /\ rolling => state.rebootRequired

StatusInv ==
  /\ rolling => saved.status \notin {"RUNNING", "RESUMING"}
  /\ pc = "reboot" /\ ~rolling => saved.status \in {"REBOOTING", "RESUMING"}
  /\ saved.status \in {"RESUMING", "REBOOTING"} => pc = "reboot"
  /\ pc \notin {"finish", "reboot", "settled"} \/ (pc = "finish" /\ ~rolling) =>
       state.status # "ERROR" /\ saved.status # "ERROR"
  /\ saved.status = "OK" => pc = "settled"
  /\ pc = "settled" /\ state.status = "OK" => saved.status = "OK"

EntryInv == InfoIsLate /\ RebootIsLate /\ StatusInv

TaskInv == SecretInv /\ EntryInv

LEMMA SameNames ==
  ASSUME UNCHANGED <<task, posts>>
  PROVE  Decl' = Decl /\ Given' = Given /\ LooksFor' = LooksFor
BY DEF Decl, Given, LooksFor

LEMMA SilentTask ==
  ASSUME TaskInv, UNCHANGED <<chain, pc, rolling, state, saved, secrets>>
  PROVE  TaskInv'
<1>1. UNCHANGED <<task, posts, dropped, secret, savedSecret, listener, creating, deleting, revoked>>
  BY DEF chain, secrets
<1>2. Decl' = Decl /\ Given' = Given /\ LooksFor' = LooksFor
  BY <1>1, SameNames
<1>3. SecretInv'
  BY <1>1, <1>2 DEF TaskInv, SecretInv, ListenerIsLate, Preparing, Prepared, IsKept, OnlyRevoking,
                    Unused, Removed
<1>4. EntryInv'
  BY <1>1 DEF TaskInv, EntryInv, InfoIsLate, RebootIsLate, StatusInv, Preparing, Resumes
<1> QED BY <1>3, <1>4 DEF TaskInv

(* The chain goes from one handler to the next. *)
LEMMA MovesOn ==
  ASSUME TaskInv, UNCHANGED <<chain, rolling, state, saved, secrets>>,
         pc \in Ahead, pc # "waitForRevokeReady", pc' \in Ahead, pc' # "waitForRevokeReady"
  PROVE  TaskInv'
<1>1. UNCHANGED <<task, posts, dropped, secret, savedSecret, listener, creating, deleting, revoked>>
  BY DEF chain, secrets
<1>2. Decl' = Decl /\ Given' = Given /\ LooksFor' = LooksFor
  BY <1>1, SameNames
<1>3. SecretInv'
  <2>1. ListenerIsLate'
    BY <1>1 DEF TaskInv, SecretInv, ListenerIsLate, Preparing, Ahead, Resuming
  <2>2. Prepared' /\ OnlyRevoking'
    BY <1>1, <1>2 DEF TaskInv, SecretInv, Prepared, IsKept, OnlyRevoking, Unused
  <2>3. Removed'
    BY <1>1, <1>2 DEF TaskInv, SecretInv, Removed, Unused, Ahead
  <2> QED BY <2>1, <2>2, <2>3 DEF SecretInv
<1>4. EntryInv'
  <2>1. InfoIsLate' /\ RebootIsLate'
    BY <1>1 DEF TaskInv, EntryInv, InfoIsLate, RebootIsLate, Preparing, Resumes, Ahead, Resuming
  <2>2. StatusInv'
    BY <1>1 DEF TaskInv, EntryInv, StatusInv, Ahead
  <2> QED BY <2>1, <2>2 DEF EntryInv
<1> QED BY <1>3, <1>4 DEF TaskInv

(* A handler is rejected: the rollback begins, or has failed.  A listener  *)
(* that is at work goes on.                                                *)
LEMMA RejectedTask ==
  ASSUME TypeInv, TaskInv, Rejected, pc \in Ahead \cup {"save"},
         UNCHANGED <<chain, secret, savedSecret, creating, deleting>>,
         listener' \in {listener, "idle"}
  PROVE  TaskInv'
<1>1. UNCHANGED <<task, posts, dropped>>
  BY DEF chain
<1>2. Decl' = Decl /\ Given' = Given /\ LooksFor' = LooksFor
  BY <1>1, SameNames
<1>3. state \in Entry /\ saved \in Entry
  BY DEF TypeInv, TypeOK, EntriesOK
<1>4. /\ rolling' = TRUE /\ pc' \in {"earlier", "finish"}
      /\ state'.rollbackInfo = state.rollbackInfo
      /\ state'.rebootRequired = state.rebootRequired
      /\ rolling => state'.status = "ERROR" /\ pc' = "finish" /\ saved' = saved
      /\ ~rolling => state'.status = "ROLLING_BACK" /\ pc' = "earlier" /\ saved' = state'
  <2>1. CASE rolling
    BY <1>3, <2>1 DEF Rejected, Entry
  <2>2. CASE ~rolling
    BY <1>3, <2>2 DEF Rejected, Entry
  <2> QED BY <2>1, <2>2
<1>5. saved'.status = "REVOKING" => saved.status = "REVOKING"
  BY <1>4
<1>6. ListenerIsLate'
  BY <1>4 DEF TaskInv, SecretInv, ListenerIsLate, Preparing, Resuming
<1>7. Prepared' /\ OnlyRevoking'
  BY <1>1, <1>2, <1>5 DEF TaskInv, SecretInv, Prepared, IsKept, OnlyRevoking, Unused
<1>8. Removed'
  BY <1>4 DEF Removed
<1>9. InfoIsLate'
  <2>1. CASE rolling
    BY <1>4, <2>1 DEF TaskInv, EntryInv, InfoIsLate, Preparing, Resumes, Resuming, Ahead
  <2>2. CASE ~rolling
    BY <1>4, <2>2 DEF TaskInv, EntryInv, InfoIsLate, Preparing, Resumes, Resuming, Ahead
  <2> QED BY <2>1, <2>2
<1>10. RebootIsLate'
  <2>1. CASE rolling
    BY <1>4, <2>1 DEF TaskInv, EntryInv, RebootIsLate, Preparing
  <2>2. CASE ~rolling
    <3>1. Preparing' => pc = "waitForRevokeReady" /\ ~dropped
      BY <2>2 DEF TaskInv, SecretInv, ListenerIsLate, Preparing
    <3>2. pc = "waitForRevokeReady" /\ ~dropped => ~state.rebootRequired
      BY <2>2 DEF TaskInv, EntryInv, RebootIsLate, Ahead
    <3> QED BY <1>4, <2>2, <3>1, <3>2 DEF RebootIsLate, Ahead
  <2> QED BY <2>1, <2>2
<1>11. StatusInv'
  <2>1. CASE rolling
    BY <1>4, <2>1 DEF TaskInv, EntryInv, StatusInv, Ahead
  <2>2. CASE ~rolling
    BY <1>4, <2>2 DEF StatusInv
  <2> QED BY <2>1, <2>2
<1> QED BY <1>6, <1>7, <1>8, <1>9, <1>10, <1>11 DEF TaskInv, SecretInv, EntryInv

LEMMA FailsTask ==
  ASSUME TypeInv, TaskInv, Fails, pc \in Ahead \cup {"save"}
  PROVE  TaskInv'
<1>1. Rejected /\ UNCHANGED <<chain, secrets>>
  BY DEF Fails
<1> QED BY <1>1, RejectedTask DEF secrets

(* The steps of onboard. *)
LEMMA PostTask ==
  ASSUME TypeInv, TaskInv, Post
  PROVE  TaskInv'
<1>1. /\ UNCHANGED <<secret, savedSecret, listener, creating, deleting>>
      /\ listener \notin {"create", "status"} /\ creating = {}
      /\ task' = task + 1 /\ pc' = "earlier" /\ ~rolling' /\ ~dropped' /\ ~revoked'
      /\ state' = NewEntry /\ saved' = NewEntry
  BY DEF Post
<1>2. /\ state'.status = "RUNNING" /\ saved'.status = "RUNNING" /\ ~state'.rebootRequired
      /\ state'.rollbackInfo = {} /\ saved'.rollbackInfo = {}
  BY <1>1 DEF NewEntry
<1>3. \A id \in SecretId : Unused(id)'
  <2>1. task \in Nat /\ TypeOK
    BY PostsType DEF TypeInv
  <2>2. \A id \in SecretId : secret[id] \in 0 .. task /\ savedSecret[id] \in 0 .. task
    BY <2>1 DEF TypeOK, SecretsOK
  <2> QED BY <1>1, <2>1, <2>2 DEF Unused
<1>4. ListenerIsLate' /\ Prepared'
  BY <1>1, <1>2 DEF TaskInv, SecretInv, ListenerIsLate, Prepared, Preparing, Resuming
<1>5. OnlyRevoking' /\ Removed'
  BY <1>1, <1>2, <1>3 DEF OnlyRevoking, Removed, Unused
<1>6. EntryInv'
  BY <1>1, <1>2 DEF EntryInv, InfoIsLate, RebootIsLate, StatusInv
<1> QED BY <1>4, <1>5, <1>6 DEF TaskInv, SecretInv

LEMMA OnboardTask ==
  ASSUME TypeInv, TaskInv, Onboard
  PROVE  TaskInv'
<1>0. state \in Entry /\ saved \in Entry
  BY DEF TypeInv, TypeOK, EntriesOK
<1> USE DEF TaskInv, SecretInv, EntryInv
<1>1. CASE Post
  BY <1>1, PostTask
<1>2. CASE Earlier
  <2>1. CASE pc = "earlier" /\ Fails
    BY <2>1, FailsTask DEF Ahead
  <2>2. CASE ~Fails
    <3>1. /\ UNCHANGED <<chain, rolling, state, saved, secrets>>
          /\ pc = "earlier" /\ pc' \in {"restore", "license", "certificate"}
      BY <1>2, <2>2 DEF Earlier, Step
    <3> QED BY <3>1, MovesOn DEF Ahead
  <2>3. pc = "earlier"
    BY <1>2 DEF Earlier, Step
  <2> QED BY <2>1, <2>2, <2>3
<1>3. CASE Later
  <2>1. CASE pc = "later" /\ Fails
    BY <2>1, FailsTask DEF Ahead
  <2>2. CASE ~Fails
    <3>1. pc = "later" /\ UNCHANGED <<chain, rolling, secrets>>
      BY <1>3, <2>2 DEF Later
    <3>2. UNCHANGED <<task, posts, dropped, secret, savedSecret, listener, creating, deleting,
                      revoked>>
      BY <3>1 DEF chain, secrets
    <3>3. Decl' = Decl /\ Given' = Given /\ LooksFor' = LooksFor
      BY <3>2, SameNames
    <3>4. CASE rolling
      <4>1. /\ state' = [state EXCEPT !.status = "ERROR", !.message = "rolled back"]
            /\ saved' = state' /\ pc' = "finish"
        BY <1>3, <2>2, <3>4 DEF Later
      <4>2. /\ state'.status = "ERROR" /\ saved'.status = "ERROR"
            /\ state'.rollbackInfo = state.rollbackInfo
            /\ state'.rebootRequired = state.rebootRequired
        BY <1>0, <4>1 DEF Entry
      <4>3. ListenerIsLate' /\ Prepared' /\ OnlyRevoking'
        BY <3>1, <3>2, <3>3, <3>4, <4>1, <4>2 DEF ListenerIsLate, Prepared, OnlyRevoking, Preparing,
             IsKept, Unused, Resuming
      <4>4. Removed'
        BY <3>1, <3>4, <4>1 DEF Removed
      <4>5. InfoIsLate' /\ RebootIsLate' /\ StatusInv'
        BY <3>1, <3>2, <3>4, <4>1, <4>2 DEF InfoIsLate, RebootIsLate, StatusInv, Preparing, Resumes,
             Ahead, Resuming
      <4> QED BY <4>3, <4>4, <4>5
    <3>5. CASE ~rolling
      <4>1. /\ state' = [state EXCEPT !.rebootRequired = wrote, !.rollbackInfo = info]
            /\ saved' = saved /\ pc' = "save"
        BY <1>3, <2>2, <3>5 DEF Later
      <4>2. state'.status = state.status
        BY <1>0, <4>1 DEF Entry
      <4>3. ListenerIsLate' /\ ~Preparing
        BY <3>1, <3>2, <3>5, <4>1 DEF ListenerIsLate, Preparing, Resuming
      <4>4. Prepared' /\ OnlyRevoking'
        BY <3>2, <3>3, <4>1 DEF Prepared, OnlyRevoking, IsKept, Unused
      <4>5. Removed'
        BY <3>1, <3>2, <4>1 DEF Removed, Unused, Ahead
      <4>6. InfoIsLate' /\ RebootIsLate' /\ StatusInv'
        BY <3>1, <3>2, <3>5, <4>1, <4>2, <4>3 DEF InfoIsLate, RebootIsLate, StatusInv, Preparing,
             Resumes, Ahead, Resuming
      <4> QED BY <4>3, <4>4, <4>5, <4>6
    <3> QED BY <3>4, <3>5
  <2>3. pc = "later"
    BY <1>3 DEF Later
  <2> QED BY <2>1, <2>2, <2>3
<1>4. CASE Save
  <2>1. CASE pc = "save" /\ Fails
    BY <2>1, FailsTask
  <2>2. CASE ~Fails
    <3>1. /\ pc = "save" /\ pc' = "finish" /\ savedSecret' = secret
          /\ UNCHANGED <<chain, rolling, state, saved, secret, listener, creating, deleting, revoked>>
      BY <1>4, <2>2 DEF Save
    <3>2. UNCHANGED <<task, posts, dropped>>
      BY <3>1 DEF chain
    <3>3. Decl' = Decl /\ Given' = Given /\ LooksFor' = LooksFor
      BY <3>2, SameNames
    <3>4. ListenerIsLate' /\ Prepared'
      BY <3>1, <3>2, <3>3 DEF ListenerIsLate, Prepared, IsKept, Preparing, Resuming
    <3>5. OnlyRevoking' /\ Removed'
      BY <3>1, <3>2, <3>3 DEF OnlyRevoking, Removed, Unused
    <3>6. InfoIsLate' /\ RebootIsLate' /\ StatusInv'
      BY <3>1, <3>2 DEF InfoIsLate, RebootIsLate, StatusInv, Preparing, Resumes, Ahead, Resuming
    <3> QED BY <3>4, <3>5, <3>6
  <2> QED BY <1>4, <2>1, <2>2 DEF Save
<1>5. CASE Finish
  <2>1. /\ pc = "finish" /\ savedSecret' = secret
        /\ pc' = (IF state.rebootRequired THEN "reboot" ELSE "settled")
        /\ UNCHANGED <<chain, rolling, secret, listener, creating, deleting, revoked>>
    BY <1>5 DEF Finish
  <2>2. UNCHANGED <<task, posts, dropped>>
    BY <2>1 DEF chain
  <2>3. Decl' = Decl /\ Given' = Given /\ LooksFor' = LooksFor
    BY <2>2, SameNames
  <2>4. /\ state'.rollbackInfo = state.rollbackInfo
        /\ state'.rebootRequired = state.rebootRequired
        /\ \/ state.status = "ERROR" /\ state' = state /\ saved' = saved
           \/ /\ saved' = state'
              /\ state'.status = (IF state.rebootRequired THEN "REBOOTING" ELSE "OK")
    <3>1. CASE state.status = "ERROR"
      BY <1>5, <3>1 DEF Finish
    <3>2. CASE state.status # "ERROR"
      BY <1>0, <1>5, <3>2 DEF Finish, Entry
    <3> QED BY <3>1, <3>2
  <2>5. ListenerIsLate' /\ Prepared'
    BY <2>1, <2>2, <2>3, <2>4 DEF ListenerIsLate, Prepared, IsKept, Preparing, Resuming
  <2>6. OnlyRevoking' /\ Removed'
    BY <2>1, <2>2, <2>3, <2>4 DEF OnlyRevoking, Removed, Unused, Ahead
  <2>7. InfoIsLate' /\ RebootIsLate'
    BY <2>1, <2>2, <2>4 DEF InfoIsLate, RebootIsLate, Preparing, Resumes, Ahead, Resuming
  <2>8. StatusInv'
    BY <2>1, <2>4 DEF StatusInv
  <2> QED BY <2>5, <2>6, <2>7, <2>8
<1> QED BY <1>1, <1>2, <1>3, <1>4, <1>5 DEF Onboard

(* Of the certificate only what it does to the chain matters. *)
LEMMA DeviceCertificateTask ==
  ASSUME TypeInv, TaskInv, DeviceCertificate
  PROVE  TaskInv'
<1>1. CASE CertificateEnds
  <2>1. \/ Rejected /\ pc = "certificate" /\ UNCHANGED <<chain, secrets>>
        \/ /\ pc = "certificate" /\ pc' = "license"
           /\ UNCHANGED <<chain, rolling, state, saved, secrets>>
    BY <1>1 DEF CertificateEnds, Step
  <2> QED BY <2>1, RejectedTask, MovesOn DEF Ahead, secrets
<1>2. CASE RestoreCertAndKey
  <2>1. pc = "restore" /\ UNCHANGED <<chain, secrets>>
    BY <1>2 DEF RestoreCertAndKey
  <2>2. Rejected \/ (pc' \in {"license", "restore"} /\ UNCHANGED <<rolling, state, saved>>)
    BY <1>2, <2>1 DEF RestoreCertAndKey, RollbackCertAndKey, RestoreOriginal
  <2> QED BY <2>1, <2>2, RejectedTask, MovesOn DEF Ahead, secrets
<1>3. CASE ~CertificateEnds /\ ~RestoreCertAndKey
  <2>1. UNCHANGED <<chain, pc, rolling, state, saved, secrets>>
    BY <1>3 DEF DeviceCertificate, StoreOriginal, Write, CrtStep, KeyStep, CertificateCallFails,
                InCertificate
  <2> QED BY <2>1, SilentTask
<1> QED BY <1>1, <1>2, <1>3

(* One of the calls that put the passwords on the device is answered. *)
LEMMA CreateTask ==
  ASSUME TypeInv, TaskInv, NEW id \in SecretId, Create(id)
  PROVE  TaskInv'
<1> USE DEF TaskInv, SecretInv, EntryInv
<1>1. /\ UNCHANGED <<chain, pc, rolling, deleting, revoked, savedSecret, state, saved>>
      /\ id \in creating /\ creating' = creating \ {id}
      /\ \/ secret[id] = 0 /\ secret' = [secret EXCEPT ![id] = task] /\ listener' = listener
         \/ listener' = "failed" /\ secret' = secret
  BY DEF Create, InListener
<1>2. UNCHANGED <<task, posts, dropped>>
  BY <1>1 DEF chain
<1>3. Decl' = Decl /\ Given' = Given /\ LooksFor' = LooksFor
  BY <1>2, SameNames
<1>4. /\ secret \in [SecretId -> 0 .. task] /\ deleting \subseteq SecretId
      /\ creating \subseteq SecretId
  BY DEF TypeInv, TypeOK, SecretsOK
<1>5. \A i \in SecretId \ {id} : secret'[i] = secret[i]
  BY <1>1, <1>4
<1>6. secret'[id] \in {task, secret[id]} /\ (secret[id] # 0 => secret'[id] = secret[id])
  BY <1>1, <1>4
<1>7. ListenerIsLate'
  BY <1>1, <1>2 DEF ListenerIsLate, Preparing
<1>8. Prepared'
  <2>1. \A i \in deleting : secret'[i] # 0
    BY <1>4, <1>5, <1>6 DEF Prepared
  <2>2. listener' = "create" => \A i \in Given \ creating' : IsKept(i)'
    <3>1. ASSUME listener' = "create", NEW i \in Given \ creating' PROVE IsKept(i)'
      <4>1. CASE i = id
        <5>1. secret[id] = 0 /\ secret'[id] = task
          BY <1>1, <1>4, <3>1
        <5>2. id \notin deleting
          BY <5>1 DEF Prepared
        <5> QED BY <1>1, <1>2, <4>1, <5>1, <5>2 DEF IsKept
      <4>2. CASE i # id
        <5>1. i \in Given \ creating /\ i \in SecretId /\ listener = "create"
          BY <1>1, <3>1, <4>2 DEF Given
        <5> QED BY <1>1, <1>2, <1>5, <4>2, <5>1 DEF IsKept, Prepared
      <4> QED BY <4>1, <4>2
    <3> QED BY <3>1
  <2>3. listener # "status"
    BY <1>1 DEF Prepared
  <2>4. saved.status = "REVOKING" /\ task > 0 =>
          \A i \in Given : IsKept(i)' /\ savedSecret'[i] = task
    <3>1. ASSUME saved.status = "REVOKING", task > 0, NEW i \in Given
          PROVE  IsKept(i)' /\ savedSecret'[i] = task
      <4>1. IsKept(i) /\ savedSecret[i] = task /\ i \in SecretId
        BY <3>1 DEF Prepared, Given
      <4>2. secret[i] # 0
        BY <3>1, <4>1 DEF IsKept
      <4>3. secret'[i] = secret[i]
        BY <1>5, <1>6, <4>1, <4>2
      <4> QED BY <1>1, <1>2, <4>1, <4>3 DEF IsKept
    <3> QED BY <3>1
  <2> QED BY <1>1, <1>2, <1>3, <2>1, <2>2, <2>3, <2>4 DEF Prepared
<1>9. OnlyRevoking'
  BY <1>1, <1>2, <1>3, <1>5, <1>6 DEF OnlyRevoking, Unused
<1>10. Removed'
  <2>1. rolling \/ pc = "waitForRevokeReady"
    BY <1>1 DEF ListenerIsLate
  <2>2. saved.status \notin {"OK", "REBOOTING"} \/ rolling
    BY <2>1 DEF StatusInv
  <2> QED BY <1>1, <2>1, <2>2 DEF Removed, ListenerIsLate, Resuming
<1>11. EntryInv'
  BY <1>1, <1>2 DEF InfoIsLate, RebootIsLate, StatusInv, Preparing, Resumes
<1> QED BY <1>7, <1>8, <1>9, <1>10, <1>11

(* The configuration is saved with the passwords, and then the entry. *)
LEMMA PrepareTask ==
  ASSUME TypeInv, TaskInv, Prepare
  PROVE  TaskInv'
<1> USE DEF TaskInv, SecretInv, EntryInv
<1>0. state \in Entry /\ saved \in Entry
  BY DEF TypeInv, TypeOK, EntriesOK
<1>1. /\ UNCHANGED <<chain, pc, rolling, deleting, revoked, secret, creating>>
      /\ creating = {} /\ listener \in {"create", "status"}
  BY DEF Prepare, InListener
<1>2. UNCHANGED <<task, posts, dropped>>
  BY <1>1 DEF chain
<1>3. Decl' = Decl /\ Given' = Given /\ LooksFor' = LooksFor
  BY <1>2, SameNames
<1>4. rolling \/ pc = "waitForRevokeReady"
  BY <1>1 DEF ListenerIsLate, Preparing
<1>5. CASE listener = "create" /\ listener' = "status" /\ savedSecret' = secret
             /\ UNCHANGED <<state, saved>>
  <2>1. ListenerIsLate'
    BY <1>1, <1>2, <1>5 DEF ListenerIsLate, Preparing
  <2>2. \A id \in Given : IsKept(id)
    BY <1>1, <1>5 DEF Prepared
  <2>3. Prepared'
    BY <1>1, <1>2, <1>3, <1>5, <2>2 DEF Prepared, IsKept
  <2>4. OnlyRevoking' /\ Removed'
    BY <1>1, <1>2, <1>3, <1>5, <1>4 DEF OnlyRevoking, Removed, Unused, Resuming
  <2>5. EntryInv'
    BY <1>1, <1>2, <1>5 DEF InfoIsLate, RebootIsLate, StatusInv, Preparing, Resumes
  <2> QED BY <2>1, <2>3, <2>4, <2>5
<1>6. CASE /\ listener = "status" /\ listener' = "ready"
           /\ state' = [state EXCEPT !.status = "REVOKING", !.message = ""]
           /\ saved' = state' /\ savedSecret' = savedSecret
  <2>1. /\ state'.status = "REVOKING" /\ saved'.status = "REVOKING"
        /\ state'.rollbackInfo = state.rollbackInfo /\ saved'.rollbackInfo = state.rollbackInfo
        /\ state'.rebootRequired = state.rebootRequired
    BY <1>0, <1>6 DEF Entry
  <2>2. ListenerIsLate' /\ pc \notin Resuming
    BY <1>1, <1>2, <1>6 DEF ListenerIsLate, Preparing
  <2>3. Prepared'
    BY <1>1, <1>2, <1>3, <1>6 DEF Prepared, IsKept
  <2>4. OnlyRevoking' /\ Removed'
    BY <1>1, <1>2, <1>3, <1>6, <2>1, <2>2 DEF OnlyRevoking, Removed, Unused, Resuming
  <2>5. InfoIsLate' /\ RebootIsLate'
    BY <1>1, <1>2, <1>4, <1>6, <2>1 DEF InfoIsLate, RebootIsLate, Preparing, Resumes
  <2>6. StatusInv'
    BY <1>1, <1>4, <2>1 DEF StatusInv
  <2> QED BY <2>2, <2>3, <2>4, <2>5, <2>6
<1>7. CASE listener' = "failed" /\ UNCHANGED <<savedSecret, state, saved>>
  <2>1. SecretInv'
    BY <1>1, <1>2, <1>3, <1>7 DEF ListenerIsLate, Prepared, OnlyRevoking, Removed, Preparing,
         IsKept, Unused
  <2>2. EntryInv'
    BY <1>1, <1>2, <1>7 DEF InfoIsLate, RebootIsLate, StatusInv, Preparing, Resumes
  <2> QED BY <2>1, <2>2
<1> QED BY <1>5, <1>6, <1>7 DEF Prepare

(* A deletion is answered. *)
LEMMA DeleteTask ==
  ASSUME TypeInv, TaskInv, NEW id \in SecretId, Delete(id)
  PROVE  TaskInv'
<1> USE DEF TaskInv, SecretInv, EntryInv
<1>1. /\ UNCHANGED <<chain, pc, rolling, creating, revoked, savedSecret, state, saved>>
      /\ id \in deleting /\ deleting' = deleting \ {id}
      /\ \/ secret' = [secret EXCEPT ![id] = 0] /\ listener' = listener
         \/ listener' = "failed" /\ secret' = secret
  BY DEF Delete, InResume
<1>2. UNCHANGED <<task, posts, dropped>>
  BY <1>1 DEF chain
<1>3. Decl' = Decl /\ Given' = Given /\ LooksFor' = LooksFor
  BY <1>2, SameNames
<1>4. /\ secret \in [SecretId -> 0 .. task] /\ deleting \subseteq SecretId /\ task \in Nat
      /\ pc # "idle" => task > 0
  BY PostsType DEF TypeInv, TypeOK, SecretsOK, Situation
<1>5. \A i \in SecretId \ {id} : secret'[i] = secret[i]
  BY <1>1, <1>4
<1>6. secret'[id] \in {0, secret[id]} /\ (listener' # "failed" => secret'[id] = 0)
  BY <1>1, <1>4
<1>7. ListenerIsLate'
  BY <1>1, <1>2 DEF ListenerIsLate, Preparing
<1>8. Prepared'
  <2>1. \A i \in deleting' : secret'[i] # 0
    BY <1>1, <1>4, <1>5 DEF Prepared
  <2>2. \A i \in Given : IsKept(i) => IsKept(i)'
    BY <1>1, <1>2, <1>4, <1>5 DEF Given, IsKept
  <2> QED BY <1>1, <1>2, <1>3, <2>1, <2>2 DEF Prepared
<1>9. OnlyRevoking'
  BY <1>1, <1>2, <1>3, <1>4, <1>5, <1>6 DEF OnlyRevoking, Unused
<1>10. Removed'
  <2>1. pc # "idle" => \A i \in SecretId : secret[i] # task => secret'[i] # task
    BY <1>4, <1>5, <1>6
  <2>2. \A i \in SecretId : i \in deleting \/ secret[i] = 0 =>
                              i \in deleting' \/ secret'[i] = 0 \/ listener' = "failed"
    BY <1>1, <1>5, <1>6
  <2>3. saved.status \in {"OK", "REBOOTING"} => pc # "idle"
    BY DEF StatusInv
  <2>4. pc \in Ahead \cup {"save", "finish"} => pc # "idle"
    BY DEF Ahead
  <2>5. listener = "failed" => listener' = "failed"
    BY <1>1
  <2> QED BY <1>1, <1>2, <1>3, <2>1, <2>2, <2>3, <2>4, <2>5 DEF Removed, Unused, SecretId
<1>11. EntryInv'
  BY <1>1, <1>2 DEF InfoIsLate, RebootIsLate, StatusInv, Preparing, Resumes
<1> QED BY <1>7, <1>8, <1>9, <1>10, <1>11

(* The resumed task looks for one of its passwords, and asks for its       *)
(* deletion.                                                               *)
LEMMA DecryptTask ==
  ASSUME TypeInv, TaskInv, NEW id \in SecretId, NEW from, NEW to, Decrypt(id, from, to),
         \/ id = "bigIp" /\ from = "decrypt bigIp" /\ to = "decrypt bigIq"
         \/ id = "bigIq" /\ from = "decrypt bigIq" /\ to = "resume"
  PROVE  TaskInv'
<1> USE DEF TaskInv, SecretInv, EntryInv
<1>0. state \in Entry
  BY DEF TypeInv, TypeOK, EntriesOK
<1>1. /\ UNCHANGED <<chain, rolling, saved, savedSecret, creating, revoked, secret, listener>>
      /\ pc = from /\ pc \in Resuming
      /\ \/ id \notin LooksFor /\ pc' = to /\ UNCHANGED <<state, deleting>>
         \/ secret[id] # 0 /\ deleting' = deleting \cup {id} /\ pc' = to /\ UNCHANGED state
         \/ /\ state' = [state EXCEPT !.status = "ERROR", !.message = "failed"]
            /\ pc' = "settled" /\ UNCHANGED deleting
  BY DEF Decrypt, InResume, ResumeFails, Resuming
<1>2. UNCHANGED <<task, posts, dropped>>
  BY <1>1 DEF chain
<1>3. Decl' = Decl /\ Given' = Given /\ LooksFor' = LooksFor
  BY <1>2, SameNames
<1>4. /\ ~Preparing /\ creating = {} /\ saved.status = "RUNNING" /\ ~rolling /\ ~revoked /\ dropped
      /\ state.rollbackInfo = {}
  BY <1>1 DEF ListenerIsLate, InfoIsLate
<1>5. CASE /\ state' = [state EXCEPT !.status = "ERROR", !.message = "failed"]
           /\ pc' = "settled" /\ UNCHANGED deleting
  <2>1. state'.status = "ERROR"
    BY <1>0, <1>5 DEF Entry
  <2>2. ListenerIsLate' /\ Prepared'
    BY <1>1, <1>2, <1>3, <1>4, <1>5 DEF ListenerIsLate, Prepared, Preparing, IsKept, Resuming
  <2>3. OnlyRevoking' /\ Removed'
    BY <1>1, <1>2, <1>3, <1>4, <1>5 DEF OnlyRevoking, Removed, Unused, Ahead
  <2>4. InfoIsLate' /\ RebootIsLate'
    BY <1>1, <1>2, <1>4, <1>5 DEF InfoIsLate, RebootIsLate, Preparing, Resumes, Ahead, Resuming
  <2>5. StatusInv'
    BY <1>1, <1>2, <1>4, <1>5, <2>1 DEF StatusInv
  <2> QED BY <2>2, <2>3, <2>4, <2>5
<1>6. CASE /\ pc' = to /\ UNCHANGED state
           /\ \/ id \notin LooksFor /\ UNCHANGED deleting
              \/ secret[id] # 0 /\ deleting' = deleting \cup {id}
  <2>1. pc' \in {"decrypt bigIq", "resume"}
    BY <1>6
  <2>2. ListenerIsLate' /\ Prepared'
    BY <1>1, <1>2, <1>3, <1>4, <1>6, <2>1 DEF ListenerIsLate, Prepared, Preparing, IsKept, Resuming
  <2>3. OnlyRevoking'
    BY <1>1, <1>2, <1>3 DEF OnlyRevoking, Unused
  <2>4. Removed'
    BY <1>1, <1>2, <1>3, <1>4, <1>6 DEF Removed, Unused, Ahead
  <2>5. InfoIsLate' /\ RebootIsLate'
    BY <1>1, <1>2, <1>4, <1>6, <2>1 DEF InfoIsLate, RebootIsLate, Preparing, Resumes, Ahead,
       Resuming
  <2>6. StatusInv'
    BY <1>1, <1>2, <1>4, <1>6, <2>1 DEF StatusInv, Resuming
  <2> QED BY <2>2, <2>3, <2>4, <2>5, <2>6
<1> QED BY <1>1, <1>5, <1>6

LEMMA ResumeTask ==
  ASSUME TypeInv, TaskInv, Resume
  PROVE  TaskInv'
<1> USE DEF TaskInv, SecretInv, EntryInv
<1>0. state \in Entry /\ task > 0 /\ task \in Nat
  BY PostsType DEF TypeInv, TypeOK, EntriesOK, Situation, Resume
<1>1. /\ UNCHANGED <<chain, rolling, saved, savedSecret, creating, revoked, secret, deleting>>
      /\ pc = "resume" /\ deleting = {} /\ listener' = "idle"
      /\ \/ listener # "failed" /\ pc' = "earlier" /\ UNCHANGED state
         \/ /\ state' = [state EXCEPT !.status = "ERROR", !.message = "failed"]
            /\ pc' = "settled"
  BY DEF Resume, InResume, ResumeFails
<1>2. UNCHANGED <<task, posts, dropped>>
  BY <1>1 DEF chain
<1>3. Decl' = Decl /\ Given' = Given /\ LooksFor' = LooksFor
  BY <1>2, SameNames
<1>4. /\ ~Preparing /\ creating = {} /\ saved.status = "RUNNING" /\ ~rolling /\ ~revoked /\ dropped
      /\ state.rollbackInfo = {}
  BY <1>1 DEF ListenerIsLate, InfoIsLate, Resuming
<1>5. ListenerIsLate' /\ Prepared'
  BY <1>1, <1>4 DEF ListenerIsLate, Prepared, Preparing, Resuming
<1>6. OnlyRevoking'
  BY <1>1, <1>2, <1>3 DEF OnlyRevoking, Unused
<1>7. listener # "failed" => \A id \in SecretId : secret[id] # task
  <2>1. CASE Decl.license = "revokeFrom"
    BY <1>0, <1>1, <2>1 DEF Removed, LooksFor, SecretId
  <2>2. CASE Decl.license # "revokeFrom"
    BY <1>0, <2>2 DEF OnlyRevoking, Unused
  <2> QED BY <2>1, <2>2
<1>8. Removed'
  BY <1>1, <1>2, <1>4, <1>7 DEF Removed, Ahead
<1>9. InfoIsLate' /\ RebootIsLate'
  BY <1>1, <1>2, <1>4 DEF InfoIsLate, RebootIsLate, Preparing, Resumes, Ahead, Resuming
<1>10. StatusInv'
  <2>1. pc' = "settled" => state'.status = "ERROR"
    BY <1>0, <1>1 DEF Entry
  <2> QED BY <1>1, <1>4, <2>1 DEF StatusInv
<1> QED BY <1>5, <1>6, <1>8, <1>9, <1>10

LEMMA RelicenseTask ==
  ASSUME TypeInv, TaskInv, Relicense \/ Disk
  PROVE  TaskInv'
<1> USE DEF TaskInv, SecretInv, EntryInv
<1>0. state \in Entry /\ saved \in Entry
  BY DEF TypeInv, TypeOK, EntriesOK
<1>1. CASE License
  <2>1. CASE /\ pc = "license" /\ pc' \in {"disk", "licensing"}
             /\ UNCHANGED <<chain, rolling, state, saved, secrets>>
    BY <2>1, MovesOn DEF Ahead
  <2>2. CASE /\ pc = "license" /\ pc' = "waitForRevokeReady"
             /\ listener' = "create" /\ creating' = Given /\ Revokes /\ ~rolling
             /\ UNCHANGED <<chain, rolling, state, saved, secret, savedSecret, deleting, revoked>>
    <3>1. UNCHANGED <<task, posts, dropped>> /\ ~dropped /\ Given \subseteq SecretId
      BY <2>2 DEF chain, Revokes, Given
    <3>2. Decl' = Decl /\ Given' = Given /\ LooksFor' = LooksFor
      BY <3>1, SameNames
    <3>3. ListenerIsLate' /\ Prepared'
      BY <2>2, <3>1, <3>2 DEF ListenerIsLate, Prepared, Preparing, IsKept, Resuming
    <3>4. OnlyRevoking' /\ Removed'
      BY <2>2, <3>1, <3>2 DEF OnlyRevoking, Removed, Unused, Given
    <3>5. InfoIsLate' /\ RebootIsLate' /\ StatusInv'
      BY <2>2, <3>1 DEF InfoIsLate, RebootIsLate, StatusInv, Preparing, Resumes, Ahead, Resuming
    <3> QED BY <3>3, <3>4, <3>5
  <2> QED BY <1>1, <2>1, <2>2 DEF License, Step
<1>2. CASE Prepare
  BY <1>2, PrepareTask
<1>3. CASE Revoke
  <2>1. /\ pc = "waitForRevokeReady"
        /\ UNCHANGED <<chain, secret, savedSecret, creating, deleting>>
        /\ \/ /\ listener = "ready" /\ listener' = "idle" /\ revoked'
              /\ pc' \in {"delay", "licensing"} /\ UNCHANGED <<rolling, state, saved>>
           \/ Rejected /\ listener' \in {listener, "idle"}
    BY <1>3 DEF Revoke
  <2>2. CASE Rejected /\ listener' \in {listener, "idle"}
    BY <2>1, <2>2, RejectedTask DEF Ahead
  <2>3. CASE /\ listener = "ready" /\ listener' = "idle" /\ revoked'
             /\ pc' \in {"delay", "licensing"} /\ UNCHANGED <<rolling, state, saved>>
    <3>1. UNCHANGED <<task, posts, dropped>>
      BY <2>1 DEF chain
    <3>2. Decl' = Decl /\ Given' = Given /\ LooksFor' = LooksFor
      BY <3>1, SameNames
    <3>3. ListenerIsLate' /\ Prepared'
      BY <2>1, <2>3, <3>1, <3>2 DEF ListenerIsLate, Prepared, Preparing, IsKept, Resuming
    <3>4. OnlyRevoking' /\ Removed'
      BY <2>1, <2>3, <3>1, <3>2 DEF OnlyRevoking, Removed, Unused
    <3>5. InfoIsLate' /\ RebootIsLate' /\ StatusInv'
      BY <2>1, <2>3, <3>1 DEF InfoIsLate, RebootIsLate, StatusInv, Preparing, Resumes, Ahead,
         Resuming
    <3> QED BY <3>3, <3>4, <3>5
  <2> QED BY <2>1, <2>2, <2>3
<1>4. CASE DelayEnds
  BY <1>4, MovesOn DEF DelayEnds, Step, Ahead
<1>5. CASE Licensing
  <2>1. CASE Step("licensing", "disk") /\ UNCHANGED cert
    BY <2>1, MovesOn DEF Step, Ahead
  <2>2. CASE pc = "licensing" /\ Fails
    BY <2>2, FailsTask DEF Ahead
  <2> QED BY <1>5, <2>1, <2>2 DEF Licensing
<1>6. CASE Disk
  <2>1. CASE Step("disk", "later") /\ UNCHANGED cert
    BY <2>1, MovesOn DEF Step, Ahead
  <2>2. CASE /\ pc = "disk" /\ pc' = "reboot" /\ ~rolling
             /\ state' = [state EXCEPT !.status = "RESUMING", !.rebootRequired = TRUE]
             /\ saved' = state' /\ savedSecret' = secret
             /\ UNCHANGED <<chain, rolling, secret, listener, creating, deleting, revoked>>
    <3>1. UNCHANGED <<task, posts, dropped>>
      BY <2>2 DEF chain
    <3>2. Decl' = Decl /\ Given' = Given /\ LooksFor' = LooksFor
      BY <3>1, SameNames
    <3>3. /\ state'.status = "RESUMING" /\ saved'.status = "RESUMING"
          /\ saved'.rollbackInfo = state.rollbackInfo
      BY <1>0, <2>2 DEF Entry
    <3>4. ListenerIsLate' /\ Prepared' /\ ~Preparing
      BY <2>2, <3>1, <3>2, <3>3 DEF ListenerIsLate, Prepared, Preparing, IsKept, Resuming
    <3>5. OnlyRevoking' /\ Removed'
      BY <2>2, <3>1, <3>2, <3>3 DEF OnlyRevoking, Removed, Unused, Ahead
    <3>6. InfoIsLate' /\ RebootIsLate' /\ StatusInv'
      BY <2>2, <3>1, <3>3, <3>4 DEF InfoIsLate, RebootIsLate, StatusInv, Preparing, Resumes, Ahead,
         Resuming
    <3> QED BY <3>4, <3>5, <3>6
  <2> QED BY <1>6, <2>1, <2>2 DEF Disk
<1>7. CASE \E id \in SecretId : Create(id) \/ Delete(id)
  BY <1>7, CreateTask, DeleteTask
<1>8. CASE \/ Decrypt("bigIp", "decrypt bigIp", "decrypt bigIq")
           \/ Decrypt("bigIq", "decrypt bigIq", "resume")
  BY <1>8, DecryptTask DEF SecretId
<1>9. CASE Resume
  BY <1>9, ResumeTask
<1> QED BY <1>1, <1>2, <1>3, <1>4, <1>5, <1>6, <1>7, <1>8, <1>9 DEF Relicense

(* A restart, of the worker alone or of the device: the secrets are those  *)
(* that were there, those that were under way, or those that were saved.   *)
LEMMA StartupTask ==
  ASSUME TypeInv, TaskInv, Startup, task > 0, UNCHANGED savedSecret, creating' = {}, deleting' = {},
         \A id \in SecretId :
           \/ secret'[id] \in {secret[id], savedSecret[id], 0}
           \/ id \in creating /\ secret'[id] = task
  PROVE  TaskInv'
<1> USE DEF TaskInv, SecretInv, EntryInv
<1>0. state \in Entry /\ saved \in Entry /\ task \in Nat
  BY PostsType DEF TypeInv, TypeOK, EntriesOK
<1>1. UNCHANGED <<posts, task>> /\ listener' = "idle" /\ saved' = state'
  BY DEF Startup
<1>2. Decl' = Decl /\ Given' = Given /\ LooksFor' = LooksFor
  BY <1>1, SameNames
<1>3. OnlyRevoking'
  BY <1>0, <1>1, <1>2 DEF OnlyRevoking, Unused
<1>4. CASE Resumes
  <2>1. /\ state' = [saved EXCEPT !.status = "RUNNING"] /\ dropped' = TRUE
        /\ rolling' = FALSE /\ revoked' = FALSE /\ pc' = "decrypt bigIp"
    BY <1>4 DEF Startup
  <2>2. state'.status = "RUNNING" /\ state'.rollbackInfo = saved.rollbackInfo
    BY <1>0, <2>1 DEF Entry
  <2>3. ListenerIsLate' /\ Prepared' /\ Removed'
    BY <1>1, <2>1, <2>2 DEF ListenerIsLate, Prepared, Removed, Preparing, Ahead
  <2>4. EntryInv'
    BY <1>1, <1>4, <2>1, <2>2 DEF InfoIsLate, RebootIsLate, StatusInv, Preparing, Ahead
  <2> QED BY <1>3, <2>3, <2>4
<1>5. CASE ~Resumes
  <2>1. /\ state' = (IF saved.status = "REBOOTING" THEN [saved EXCEPT !.status = "OK"] ELSE saved)
        /\ pc' = "settled" /\ UNCHANGED <<dropped, rolling, revoked>>
    BY <1>5 DEF Startup
  <2>2. state'.status = (IF saved.status = "REBOOTING" THEN "OK" ELSE saved.status)
        /\ state'.status \notin {"RUNNING", "REVOKING", "RESUMING", "REBOOTING"}
    BY <1>0, <1>5, <2>1 DEF Entry, Resumes
  <2>3. ListenerIsLate' /\ Prepared'
    BY <1>1, <2>1, <2>2 DEF ListenerIsLate, Prepared, Preparing, Resuming
  <2>4. Removed'
    <3>1. saved'.status \in {"OK", "REBOOTING"} /\ ~rolling => creating = {}
      BY <1>1, <2>2 DEF StatusInv, ListenerIsLate
    <3>2. ASSUME saved'.status \in {"OK", "REBOOTING"}, ~rolling, ~revoked, NEW id \in SecretId
          PROVE  Unused(id)'
      <4>1. saved.status \in {"OK", "REBOOTING"}
        BY <1>1, <2>2, <3>2
      <4>2. secret[id] # task /\ savedSecret[id] # task
        BY <3>2, <4>1 DEF Removed, Unused
      <4>3. secret'[id] \in {secret[id], savedSecret[id], 0}
        BY <3>1, <3>2
      <4> QED BY <1>0, <1>1, <4>2, <4>3 DEF Unused
    <3>3. \A id \in SecretId :
            saved'.status \in {"OK", "REBOOTING"} /\ ~rolling /\ ~revoked => Unused(id)'
      BY <3>2
    <3> QED BY <2>1, <3>3 DEF Removed, Ahead
  <2>5. EntryInv'
    BY <1>1, <2>1, <2>2 DEF InfoIsLate, RebootIsLate, StatusInv, Preparing, Resumes, Ahead, Resuming
  <2> QED BY <1>3, <2>3, <2>4, <2>5
<1> QED BY <1>4, <1>5

LEMMA RestartsTask ==
  ASSUME TypeInv, TaskInv, Restarts
  PROVE  TaskInv'
<1>1. pc # "idle" /\ ((\E done : Restart(done)) \/ (\E done : Reboot(done)))
  BY DEF Restarts, ServicesRestart, WorkerCrash, DeviceReboot, PowerLoss
<1>2. task > 0
  BY <1>1 DEF TypeInv, Situation
<1>3. ASSUME NEW done, Restart(done) PROVE TaskInv'
  <2>1. /\ Startup /\ UNCHANGED savedSecret /\ creating' = {} /\ deleting' = {}
        /\ secret' = [id \in SecretId |-> SecretAfter(id, done)]
    BY <1>3 DEF Restart, Landed
  <2>2. \A id \in SecretId : \/ secret'[id] \in {secret[id], savedSecret[id], 0}
                             \/ id \in creating /\ secret'[id] = task
    BY <2>1 DEF SecretAfter
  <2> QED BY <1>2, <2>1, <2>2, StartupTask
<1>4. ASSUME NEW done, Reboot(done) PROVE TaskInv'
  <2>1. /\ Startup /\ UNCHANGED savedSecret /\ creating' = {} /\ deleting' = {}
        /\ secret' = savedSecret
    BY <1>4 DEF Reboot, Landed
  <2> QED BY <1>2, <2>1, StartupTask
<1> QED BY <1>1, <1>3, <1>4

LEMMA InitTask == ASSUME Init PROVE TaskInv
<1>1. state.status = "RUNNING" /\ saved.status = "RUNNING" /\ ~state.rebootRequired
      /\ state.rollbackInfo = {} /\ saved.rollbackInfo = {}
  BY DEF Init, NewEntry
<1>2. SecretInv
  BY <1>1 DEF Init, SecretInv, ListenerIsLate, Prepared, OnlyRevoking, Removed, Preparing, Ahead,
              Resuming
<1>3. EntryInv
  BY <1>1 DEF Init, EntryInv, InfoIsLate, RebootIsLate, StatusInv, Preparing, Ahead, Resuming
<1> QED BY <1>2, <1>3 DEF TaskInv

LEMMA NextTask == ASSUME TypeInv, TaskInv, [Next]_vars PROVE TaskInv'
<1>1. UNCHANGED vars => UNCHANGED <<chain, pc, rolling, state, saved, secrets>>
  BY DEF vars
<1> QED
  BY <1>1, OnboardTask, DeviceCertificateTask, RelicenseTask, RestartsTask, SilentTask DEF Next

LEMMA TaskInvariant == Spec => [](TypeInv /\ TaskInv)
BY InitType, NextType, InitTask, NextTask, PTL DEF Spec

(* prepForRebootResumeOrRevoke saves the passwords before it says that the *)
(* license is being revoked: a task that is found REVOKING has them.       *)
THEOREM RevokingResumes == Spec => []RevokingIsResumable
<1>1. TypeInv /\ TaskInv => RevokingIsResumable
  BY DEF TaskInv, SecretInv, Prepared, RevokingIsResumable
<1> QED BY <1>1, TaskInvariant, PTL

(* decryptAndDeleteUserData: the passwords of a task that has succeeded    *)
(* are neither on the device nor in its saved configuration.               *)
THEOREM SecretsAreGone == Spec => []SecretsAreRemoved
<1>1. TypeInv /\ TaskInv => SecretsAreRemoved
  BY DEF TaskInv, SecretInv, EntryInv, StatusInv, Removed, Unused, SecretsAreRemoved, Succeeded
<1> QED BY <1>1, TaskInvariant, PTL

-----------------------------------------------------------------------------
(* The files *)

(* The copies of the originals: taken once, and there when the originals   *)
(* are to be restored.                                                     *)
Copies ==
  \A p \in Path : /\ store[p] = "cp" => orig[p] = NoFile
                  /\ pc = "restore" /\ store[p] = "end" => orig[p] # NoFile

IsOriginal == \A p \in Path : orig[p] # NoFile /\ file[p] = orig[p]

(* What handleDeviceCertificate brings about. *)
Met ==
  IF Decl.pair = NoPair THEN IsOriginal
  ELSE IF Decl.skipDeviceCertificates THEN ~restarted => file = before
  ELSE file["crt"] = {Decl.pair} /\ file["key"] = {Decl.pair}

Trusts == Decl.pair # NoPair /\ Decl.updateTrustCerts /\ ~Decl.skipDeviceCertificates
            /\ before["crt"] # {Decl.pair}

TrustDone == Trusts => \A p \in Trusted : Decl.pair \in file[p]

(* A promise that is through with a file has it written, or under way. *)
Writes(p) == p \in writing \/ Decl.pair \in file[p]
Declared(p) == p \in writing \/ file[p] = {Decl.pair}

CertificateInv ==
  pc = "certificate" =>
    /\ crt \notin {"cat", "cp", "failed"} => Declared("crt")
    /\ key \notin {"cat", "cp", "failed"} => Declared("key")
    /\ crt \in {"gtm", "cp gtm"} => Writes("big3d")
    /\ ~restarted /\ crt = "end" /\ Trusts => Writes("big3d") /\ Writes("gtm")

(* What a task that was not resumed has changed, and what it has kept.     *)
Fresh == ~restarted /\ ~rolling /\ ~dropped

Recorded ==
  /\ \A p \in Path \ info : file[p] = before[p] /\ p \notin writing
  /\ \A p \in info : bak[p] = before[p]
  /\ \A p \in writing : file[p] = before[p]
  /\ info # {} => wrote

NotYet ==
  /\ crt \in {"cat", "cp"} => "crt" \notin info
  /\ crt \in {"cat", "cp", "big3d", "cp big3d"} => "big3d" \notin info
  /\ crt \notin Ended => "gtm" \notin info
  /\ key \notin Ended => "key" \notin info

Changes ==
  Fresh =>
    /\ pc = "earlier" => file = before
    /\ pc \in (Ahead \ {"earlier"}) \cup {"save"} => Recorded
    /\ pc = "certificate" => NotYet
    /\ pc = "restore" /\ info # {} =>
         /\ \A p \in Path : store[p] \in Ended
         /\ \A p \in info : file[p] = orig[p]
    /\ pc = "save" => state.rollbackInfo = info /\ state.rebootRequired = wrote

(* A task that was resumed after a reboot for the disk had done its part.  *)
Again ==
  ~restarted /\ ~rolling /\ dropped =>
    /\ Met /\ TrustDone /\ (PairChanged => Loaded) /\ info = {} /\ writing = {}
    /\ crt \in {"cat"} \cup Ended /\ key \in {"cat"} \cup Ended
    /\ pc = "save" => state.rollbackInfo = {}

HasMet ==
  ~rolling /\ (pc \in Past \/ saved.status \in {"OK", "REBOOTING", "RESUMING"}) =>
    Met /\ (~restarted => TrustDone)

HasLoaded ==
  ~rolling /\ ~restarted =>
    /\ pc = "finish" /\ PairChanged => state.rebootRequired \/ Loaded
    /\ saved.status = "OK" /\ PairChanged => Loaded

(* What the rollback has to do, and has done. *)
Undone(entry) == file = before \/ (entry.rollbackInfo = {} /\ IsOriginal)

CanUndo ==
  ~restarted /\ rolling /\ pc \in {"earlier", "restore"} /\ state.rollbackInfo # {} =>
    /\ \A p \in state.rollbackInfo : bak[p] = before[p]
    /\ \A p \in Path \ state.rollbackInfo : file[p] = before[p]

IsRolledBack(entry) == entry.status = "ERROR" /\ entry.message = "rolled back"

RollsBack ==
  ~restarted =>
    /\ rolling /\ pc \in Past \cap Ahead => Undone(state)
    /\ IsRolledBack(state) => Undone(state)
    /\ IsRolledBack(saved) => Undone(saved)

FileInv == /\ Copies /\ CertificateInv /\ Changes /\ Again /\ HasMet /\ HasLoaded
           /\ CanUndo /\ RollsBack

(* What is said of the files depends on them and on the declaration. *)
LEMMA SameMet ==
  ASSUME UNCHANGED <<task, posts, before, restarted, file, orig>>
  PROVE  /\ Met' <=> Met
         /\ TrustDone' <=> TrustDone
         /\ Trusts' <=> Trusts
         /\ IsOriginal' <=> IsOriginal
         /\ PairChanged' <=> PairChanged
         /\ Decl' = Decl
BY DEF Met, TrustDone, Trusts, IsOriginal, PairChanged, Decl

LEMMA SilentFiles ==
  ASSUME FileInv, UNCHANGED <<chain, pc, rolling, files, cert, state, saved>>
  PROVE  FileInv'
<1> USE DEF FileInv
<1>1. UNCHANGED <<posts, task, dropped, before, restarted, file, orig, bak, served, store, crt, key,
                  writing, wrote, info>>
  BY DEF chain, files, cert
<1>2. /\ Met' <=> Met
      /\ TrustDone' <=> TrustDone
      /\ Trusts' <=> Trusts
      /\ IsOriginal' <=> IsOriginal
      /\ PairChanged' <=> PairChanged
      /\ Decl' = Decl
  BY <1>1, SameMet
<1>3. Copies' /\ CertificateInv'
  BY <1>1, <1>2 DEF Copies, CertificateInv, Declared, Writes
<1>4. Changes'
  BY <1>1 DEF Changes, Fresh, Recorded, NotYet
<1>5. Again' /\ HasMet' /\ HasLoaded'
  BY <1>1, <1>2 DEF Again, HasMet, HasLoaded, Loaded
<1>6. CanUndo' /\ RollsBack'
  BY <1>1, <1>2 DEF CanUndo, RollsBack, Undone, IsRolledBack
<1> QED BY <1>3, <1>4, <1>5, <1>6

(* From handler to handler after handleDeviceCertificate. *)
LEMMA MovesFiles ==
  ASSUME TaskInv, FileInv, UNCHANGED <<chain, rolling, files, cert, state, saved>>,
         pc \in Past \cap Ahead, pc' \in Past \cap Ahead
  PROVE  FileInv'
<1> USE DEF FileInv
<1>1. UNCHANGED <<posts, task, dropped, before, restarted, file, orig, bak, served, store, crt, key,
                  writing, wrote, info>>
  BY DEF chain, files, cert
<1>2. /\ Met' <=> Met
      /\ TrustDone' <=> TrustDone
      /\ Trusts' <=> Trusts
      /\ IsOriginal' <=> IsOriginal
      /\ PairChanged' <=> PairChanged
      /\ Decl' = Decl
  BY <1>1, SameMet
<1>3. Copies' /\ CertificateInv'
  BY <1>1 DEF Copies, CertificateInv, Past
<1>4. Changes'
  BY <1>1 DEF Changes, Fresh, Recorded, Past, Ahead
<1>5. Again' /\ HasMet' /\ HasLoaded'
  BY <1>1, <1>2 DEF Again, HasMet, HasLoaded, Loaded, Ahead
<1>6. CanUndo' /\ RollsBack'
  BY <1>1, <1>2 DEF CanUndo, RollsBack, Undone, IsRolledBack, Past
<1> QED BY <1>3, <1>4, <1>5, <1>6

(* A rejection: the rollback knows the files that the task has changed, or *)
(* the task has changed none that it could roll back.                      *)
LEMMA RejectedFiles ==
  ASSUME TypeInv, TaskInv, FileInv, Rejected, pc \in Ahead \cup {"save"},
         UNCHANGED <<chain, orig, store>>,
         ~rolling => UNCHANGED <<file, bak>>
  PROVE  FileInv'
<1> USE DEF FileInv
<1>1. UNCHANGED <<posts, task, dropped, before, restarted>>
  BY DEF chain
<1>2. state \in Entry /\ saved \in Entry /\ state.status # "ERROR" /\ saved.status # "ERROR"
  BY DEF TypeInv, TypeOK, EntriesOK, TaskInv, EntryInv, StatusInv, Ahead
<1>3. /\ rolling' = TRUE /\ pc' \in {"earlier", "finish"}
      /\ state'.rollbackInfo = state.rollbackInfo
      /\ rolling => /\ state'.message = "rollback failed"
                    /\ pc' = "finish" /\ saved' = saved
      /\ ~rolling => state'.status = "ROLLING_BACK" /\ pc' = "earlier" /\ saved' = state'
  <2>1. CASE rolling
    BY <1>2, <2>1 DEF Rejected, Entry
  <2>2. CASE ~rolling
    BY <1>2, <2>2 DEF Rejected, Entry
  <2> QED BY <2>1, <2>2
<1>4. Copies' /\ CertificateInv'
  BY <1>3 DEF Copies, CertificateInv
<1>5. Changes' /\ Again' /\ HasMet' /\ HasLoaded'
  BY <1>3 DEF Changes, Fresh, Again, HasMet, HasLoaded
<1>6. CanUndo'
  <2>1. CASE rolling
    BY <1>3, <2>1 DEF CanUndo
  <2>2. CASE ~rolling /\ pc # "save"
    <3>1. state.rollbackInfo = {}
      BY <2>2 DEF TaskInv, EntryInv, InfoIsLate
    <3> QED BY <1>3, <3>1 DEF CanUndo
  <2>3. CASE ~rolling /\ pc = "save"
    <3>1. CASE dropped
      BY <1>1, <1>3, <2>3, <3>1 DEF CanUndo, Again
    <3>2. CASE ~dropped
      BY <1>1, <1>3, <2>3, <3>2 DEF CanUndo, Changes, Fresh, Recorded
    <3> QED BY <3>1, <3>2
  <2> QED BY <2>1, <2>2, <2>3
<1>7. RollsBack'
  <2>1. CASE rolling
    BY <1>2, <1>3, <2>1 DEF RollsBack, IsRolledBack, Ahead
  <2>2. CASE ~rolling
    BY <1>2, <1>3, <2>2 DEF RollsBack, IsRolledBack, Past
  <2> QED BY <2>1, <2>2
<1> QED BY <1>4, <1>5, <1>6, <1>7

LEMMA FailsFiles ==
  ASSUME TypeInv, TaskInv, FileInv, Fails, pc \in Ahead \cup {"save"}
  PROVE  FileInv'
<1>1. Rejected /\ UNCHANGED <<chain, orig, store, file, bak>>
  BY DEF Fails, files, cert
<1> QED BY <1>1, RejectedFiles

LEMMA EarlierFiles ==
  ASSUME TypeInv, TaskInv, FileInv, Earlier, ~Fails
  PROVE  FileInv'
<1> USE DEF FileInv
<1>1. /\ pc = "earlier" /\ Quiet
      /\ UNCHANGED <<chain, rolling, state, saved, files, writing>>
      /\ pc' = (IF ~Declares THEN "restore"
                ELSE IF Decl.skipDeviceCertificates THEN "license" ELSE "certificate")
      /\ store' = [p \in Path |-> "ls"] /\ info' = {}
      /\ crt' \in {"cat", "end"} /\ key' \in {"cat", "end"}
      /\ pc' = "certificate" => crt' = "cat" /\ key' = "cat"
  BY DEF Earlier, Step
<1>2. UNCHANGED <<posts, task, dropped, before, restarted, file, orig, bak, served>> /\ writing = {}
  BY <1>1 DEF chain, files, Quiet
<1>3. /\ Met' <=> Met
      /\ TrustDone' <=> TrustDone
      /\ Trusts' <=> Trusts
      /\ IsOriginal' <=> IsOriginal
      /\ PairChanged' <=> PairChanged
      /\ Decl' = Decl
  BY <1>2, SameMet
<1>4. Copies' /\ CertificateInv'
  BY <1>1 DEF Copies, CertificateInv
<1>5. Changes'
  <2>1. Fresh' => Recorded' /\ NotYet'
    BY <1>1, <1>2 DEF Changes, Fresh, Recorded, NotYet
  <2> QED BY <1>1, <2>1 DEF Changes
<1>6. Again'
  BY <1>1, <1>2, <1>3 DEF Again, Loaded, Ended
<1>7. saved.status \notin {"OK", "REBOOTING", "RESUMING", "ERROR"} /\ state.status # "ERROR"
  BY <1>1 DEF TaskInv, EntryInv, StatusInv
<1>8. HasMet'
  <2>1. CASE pc' = "license"
    <3>1. ~rolling /\ Decl.pair # NoPair /\ Decl.skipDeviceCertificates
      BY <1>1, <2>1 DEF Declares
    <3>2. ~restarted => file = before
      BY <1>1, <3>1 DEF Changes, Fresh, Again, Met
    <3>3. Met /\ TrustDone
      BY <3>1, <3>2 DEF Met, TrustDone, Trusts
    <3> QED BY <1>3, <3>3 DEF HasMet
  <2>2. CASE pc' # "license"
    BY <1>1, <1>7, <2>2 DEF HasMet, Past
  <2> QED BY <2>1, <2>2
<1>9. HasLoaded'
  BY <1>1, <1>7 DEF HasLoaded
<1>10. CanUndo'
  BY <1>1, <1>2 DEF CanUndo
<1>11. RollsBack'
  <2>1. pc' \in Past => ~rolling
    BY <1>1 DEF Declares, Past
  <2> QED BY <1>1, <1>7, <2>1 DEF RollsBack, IsRolledBack
<1> QED BY <1>4, <1>5, <1>6, <1>8, <1>9, <1>10, <1>11

LEMMA LaterFiles ==
  ASSUME TypeInv, TaskInv, FileInv, Later, ~Fails
  PROVE  FileInv'
<1> USE DEF FileInv
<1>0. state \in Entry /\ saved \in Entry
  BY DEF TypeInv, TypeOK, EntriesOK
<1>1. pc = "later" /\ UNCHANGED <<chain, rolling, files, cert>>
  BY DEF Later
<1>2. UNCHANGED <<posts, task, dropped, before, restarted, file, orig, bak, served, store, crt, key,
                  writing, wrote, info>>
  BY <1>1 DEF chain, files, cert
<1>3. /\ Met' <=> Met
      /\ TrustDone' <=> TrustDone
      /\ Trusts' <=> Trusts
      /\ IsOriginal' <=> IsOriginal
      /\ PairChanged' <=> PairChanged
      /\ Decl' = Decl
  BY <1>2, SameMet
<1>4. saved.status \notin {"OK", "REBOOTING", "RESUMING", "ERROR"} /\ state.status # "ERROR"
  BY <1>1 DEF TaskInv, EntryInv, StatusInv
<1>5. CASE rolling
  <2>1. /\ state' = [state EXCEPT !.status = "ERROR", !.message = "rolled back"]
        /\ saved' = state' /\ pc' = "finish" /\ rolling'
    BY <1>1, <1>5 DEF Later
  <2>2. state'.rollbackInfo = state.rollbackInfo /\ saved'.rollbackInfo = state.rollbackInfo
    BY <1>0, <2>1 DEF Entry
  <2>3. Copies' /\ CertificateInv' /\ Changes' /\ Again' /\ HasMet' /\ HasLoaded' /\ CanUndo'
    BY <1>2, <2>1 DEF Copies, CertificateInv, Changes, Fresh, Again, HasMet, HasLoaded, CanUndo
  <2>4. ~restarted => Undone(state)
    BY <1>1, <1>5 DEF RollsBack, Past, Ahead
  <2>5. RollsBack'
    BY <1>2, <1>3, <2>1, <2>2, <2>4 DEF RollsBack, Undone, Ahead
  <2> QED BY <2>3, <2>5
<1>6. CASE ~rolling
  <2>1. /\ state' = [state EXCEPT !.rebootRequired = wrote, !.rollbackInfo = info]
        /\ saved' = saved /\ pc' = "save" /\ ~rolling'
    BY <1>1, <1>6 DEF Later
  <2>2. state'.status = state.status /\ state'.rollbackInfo = info /\ state'.rebootRequired = wrote
    BY <1>0, <2>1 DEF Entry
  <2>3. Copies' /\ CertificateInv' /\ CanUndo' /\ HasLoaded'
    BY <1>2, <1>4, <2>1 DEF Copies, CertificateInv, HasLoaded, CanUndo
  <2>4. Changes'
    BY <1>1, <1>2, <2>1, <2>2 DEF Changes, Fresh, Recorded, Ahead
  <2>5. Again'
    BY <1>1, <1>2, <1>3, <2>1, <2>2 DEF Again, Loaded
  <2>6. HasMet'
    BY <1>1, <1>2, <1>3, <2>1 DEF HasMet, Past
  <2>7. RollsBack'
    BY <1>4, <2>1, <2>2 DEF RollsBack, IsRolledBack
  <2> QED BY <2>3, <2>4, <2>5, <2>6, <2>7
<1> QED BY <1>5, <1>6

LEMMA PostFiles ==
  ASSUME TypeInv, TaskInv, FileInv, Post
  PROVE  FileInv'
<1> USE DEF FileInv
<1>1. /\ UNCHANGED <<file, orig, bak, store>> /\ before' = file
      /\ pc' = "earlier" /\ ~rolling' /\ ~dropped' /\ ~restarted'
      /\ state'.status = "RUNNING" /\ saved'.status = "RUNNING"
  BY DEF Post, files, cert, NewEntry
<1>2. Copies' /\ CertificateInv' /\ Changes' /\ Again'
  BY <1>1 DEF Copies, CertificateInv, Changes, Again, Ahead
<1>3. HasMet' /\ HasLoaded' /\ CanUndo' /\ RollsBack'
  BY <1>1 DEF HasMet, HasLoaded, CanUndo, RollsBack, IsRolledBack, Past
<1> QED BY <1>2, <1>3

(* A task that has changed the pair knows that it has to reboot. *)
LEMMA SaveFiles ==
  ASSUME TypeInv, TaskInv, FileInv, Save, ~Fails
  PROVE  FileInv'
<1> USE DEF FileInv
<1>1. pc = "save" /\ pc' = "finish" /\ UNCHANGED <<chain, rolling, state, saved, files, cert>>
  BY DEF Save
<1>2. UNCHANGED <<posts, task, dropped, before, restarted, file, orig, bak, served, store, crt, key,
                  writing, wrote, info>>
  BY <1>1 DEF chain, files, cert
<1>3. /\ Met' <=> Met
      /\ TrustDone' <=> TrustDone
      /\ Trusts' <=> Trusts
      /\ IsOriginal' <=> IsOriginal
      /\ PairChanged' <=> PairChanged
      /\ Decl' = Decl
  BY <1>2, SameMet
<1>4. Copies' /\ CertificateInv' /\ CanUndo'
  BY <1>1, <1>2 DEF Copies, CertificateInv, CanUndo
<1>5. Changes' /\ Again' /\ HasMet'
  BY <1>1, <1>2, <1>3 DEF Changes, Fresh, Again, HasMet, Loaded, Past, Ahead
<1>6. HasLoaded'
  <2>1. saved.status # "OK"
    BY <1>1 DEF TaskInv, EntryInv, StatusInv
  <2>2. ASSUME ~rolling, ~restarted, PairChanged PROVE state.rebootRequired \/ Loaded
    <3>1. CASE dropped
      BY <2>2, <3>1 DEF Again
    <3>2. CASE ~dropped
      <4>1. Recorded /\ state.rebootRequired = wrote
        BY <1>1, <2>2, <3>2 DEF Changes, Fresh
      <4>2. info # {}
        BY <2>2, <4>1 DEF Recorded, PairChanged, Path
      <4> QED BY <4>1, <4>2 DEF Recorded
    <3> QED BY <3>1, <3>2
  <2>3. Loaded' <=> Loaded
    BY <1>2 DEF Loaded
  <2> QED BY <1>1, <1>2, <1>3, <2>1, <2>2, <2>3 DEF HasLoaded
<1>7. RollsBack'
  BY <1>1, <1>2, <1>3 DEF RollsBack, IsRolledBack, Undone, Ahead
<1> QED BY <1>4, <1>5, <1>6, <1>7

LEMMA FinishFiles ==
  ASSUME TypeInv, TaskInv, FileInv, Finish
  PROVE  FileInv'
<1> USE DEF FileInv
<1>0. state \in Entry /\ saved \in Entry
  BY DEF TypeInv, TypeOK, EntriesOK
<1>1. /\ pc = "finish" /\ pc' \in {"reboot", "settled"}
      /\ UNCHANGED <<chain, rolling, files, cert>>
  BY DEF Finish
<1>2. UNCHANGED <<posts, task, dropped, before, restarted, file, orig, bak, served, store, crt, key,
                  writing, wrote, info>>
  BY <1>1 DEF chain, files, cert
<1>3. /\ Met' <=> Met
      /\ TrustDone' <=> TrustDone
      /\ Trusts' <=> Trusts
      /\ IsOriginal' <=> IsOriginal
      /\ PairChanged' <=> PairChanged
      /\ Decl' = Decl
  BY <1>2, SameMet
<1>4. /\ saved.status # "OK"
      /\ \/ state.status = "ERROR" /\ state' = state /\ saved' = saved /\ rolling
         \/ /\ saved' = state' /\ state'.status \in {"OK", "REBOOTING"}
            /\ state'.status = "OK" => ~state.rebootRequired
  <2>1. saved.status # "OK" /\ (state.status = "ERROR" => rolling)
    BY <1>1 DEF TaskInv, EntryInv, StatusInv
  <2>2. CASE state.status = "ERROR"
    BY <2>1, <2>2 DEF Finish
  <2>3. CASE state.status # "ERROR"
    BY <1>0, <2>1, <2>3 DEF Finish, Entry
  <2> QED BY <2>2, <2>3
<1>5. Copies' /\ CertificateInv' /\ CanUndo' /\ Changes'
  BY <1>1, <1>2 DEF Copies, CertificateInv, CanUndo, Changes, Ahead
<1>6. Again'
  BY <1>1, <1>2, <1>3 DEF Again, Loaded
<1>7. HasMet'
  BY <1>1, <1>2, <1>3 DEF HasMet, Past
<1>8. HasLoaded'
  <2>1. Loaded' <=> Loaded
    BY <1>2 DEF Loaded
  <2> QED BY <1>1, <1>2, <1>3, <1>4, <2>1 DEF HasLoaded
<1>9. RollsBack'
  BY <1>1, <1>2, <1>3, <1>4 DEF RollsBack, IsRolledBack, Undone, Ahead
<1> QED BY <1>5, <1>6, <1>7, <1>8, <1>9

(* A copy of an original is taken only when there is none. *)
LEMMA StoreOriginalFiles ==
  ASSUME TypeInv, TaskInv, FileInv, NEW p \in Path, StoreOriginal(p)
  PROVE  FileInv'
<1> USE DEF FileInv
<1>0. /\ file \in [Path -> Content \ {NoFile}] /\ orig \in [Path -> Content]
      /\ store \in [Path -> {"ls", "cp", "end", "failed"}]
  BY DEF TypeInv, TypeOK, FilesOK, CertificateOK, Ended
<1>1. /\ UNCHANGED <<chain, pc, rolling, state, saved, file, bak, served, crt, key, writing, wrote,
                     info>>
      /\ store[p] \in {"ls", "cp"}
      /\ \/ /\ store[p] = "ls" /\ orig' = orig
            /\ store' = [store EXCEPT ![p] = IF orig[p] = NoFile THEN "cp" ELSE "end"]
         \/ /\ store[p] = "cp" /\ orig' = [orig EXCEPT ![p] = file[p]]
            /\ store' = [store EXCEPT ![p] = "end"]
         \/ orig' = orig /\ store' = [store EXCEPT ![p] = "failed"]
  BY DEF StoreOriginal
<1>2. UNCHANGED <<posts, task, dropped, before, restarted>>
  BY <1>1 DEF chain
<1>3. /\ \A q \in Path : orig[q] # NoFile => orig'[q] = orig[q]
      /\ \A q \in Path \ {p} : orig'[q] = orig[q] /\ store'[q] = store[q]
  BY <1>0, <1>1 DEF Copies
<1>4. Copies'
  <2>1. /\ store'[p] = "cp" => orig'[p] = NoFile
        /\ store'[p] = "end" => orig'[p] # NoFile
    BY <1>0, <1>1
  <2> QED BY <1>1, <1>3, <2>1 DEF Copies
<1>5. IsOriginal => IsOriginal'
  BY <1>1, <1>3 DEF IsOriginal
<1>6. Decl' = Decl /\ (Met => Met') /\ (TrustDone' <=> TrustDone) /\ (PairChanged' <=> PairChanged)
      /\ (Trusts' <=> Trusts) /\ (Loaded' <=> Loaded)
  BY <1>1, <1>2, <1>5 DEF Decl, Met, TrustDone, Trusts, PairChanged, Loaded
<1>7. CertificateInv'
  BY <1>1, <1>2, <1>6 DEF CertificateInv, Declared, Writes
<1>8. Changes'
  <2>1. store[p] \notin Ended
    BY <1>1 DEF Ended
  <2>2. (Recorded' <=> Recorded) /\ (NotYet' <=> NotYet) /\ (Fresh' <=> Fresh)
    BY <1>1, <1>2 DEF Recorded, NotYet, Fresh
  <2> QED BY <1>1, <1>2, <2>1, <2>2 DEF Changes
<1>9. Again' /\ HasMet' /\ HasLoaded'
  BY <1>1, <1>2, <1>6 DEF Again, HasMet, HasLoaded
<1>10. CanUndo'
  BY <1>1, <1>2 DEF CanUndo
<1>11. RollsBack'
  BY <1>1, <1>2, <1>5 DEF RollsBack, IsRolledBack, Undone
<1> QED BY <1>4, <1>7, <1>8, <1>9, <1>10, <1>11

(* While a certificate is written nothing is said of how the task ends. *)
LEMMA InCertificateFiles ==
  ASSUME TypeInv, TaskInv, FileInv, pc = "certificate", InCertificate
  PROVE  Copies' /\ HasMet' /\ HasLoaded' /\ CanUndo' /\ RollsBack'
<1>1. /\ pc' = pc /\ UNCHANGED <<rolling, state, saved, orig, store>>
      /\ saved.status \notin {"OK", "REBOOTING", "RESUMING", "ERROR"} /\ state.status # "ERROR"
  BY DEF InCertificate, TaskInv, EntryInv, StatusInv
<1> QED
  BY <1>1 DEF FileInv, Copies, HasMet, HasLoaded, CanUndo, RollsBack, IsRolledBack, Past

LEMMA BackUpRecords ==
  ASSUME Recorded, TypeInv, NEW p \in Path, p \notin info, BackUp(p), UNCHANGED <<file, before>>
  PROVE  Recorded'
<1>1. bak \in [Path -> Content] /\ info \subseteq Path
  BY DEF TypeInv, TypeOK, FilesOK, CertificateOK
<1>2. /\ bak' = [bak EXCEPT ![p] = file[p]] /\ info' = info \cup {p}
      /\ writing' = writing \cup {p} /\ wrote' = TRUE
  BY DEF BackUp
<1>3. file[p] = before[p]
  BY DEF Recorded
<1>4. \A q \in Path : bak'[q] = IF q = p THEN file[p] ELSE bak[q]
  BY <1>1, <1>2
<1> QED BY <1>1, <1>2, <1>3, <1>4 DEF Recorded

(* The promise about the certificate. *)
LEMMA CrtStepFiles ==
  ASSUME TypeInv, TaskInv, FileInv, CrtStep
  PROVE  FileInv'
<1> USE DEF FileInv
<1>0. /\ pc = "certificate" /\ Declares /\ ~Decl.skipDeviceCertificates
      /\ Decl.pair # NoPair /\ ~rolling
  <2>1. crt \notin Ended
    BY DEF CrtStep, Trusted, Ended
  <2> QED BY <2>1 DEF TypeInv, Situation, Declares
<1>1. /\ InCertificate /\ UNCHANGED <<chain, pc, rolling, state, saved, orig, served, store, file,
                                      key>>
      /\ UNCHANGED <<posts, task, dropped, before, restarted>>
  BY DEF CrtStep, InCertificate, chain
<1>2. /\ Met' <=> Met
      /\ TrustDone' <=> TrustDone
      /\ Trusts' <=> Trusts
      /\ IsOriginal' <=> IsOriginal
      /\ PairChanged' <=> PairChanged
      /\ Decl' = Decl
  BY <1>1, SameMet
<1>3. Copies' /\ HasMet' /\ HasLoaded' /\ CanUndo' /\ RollsBack'
  BY <1>0, <1>1, InCertificateFiles
<1>4. ASSUME ~restarted, ~dropped PROVE Recorded /\ NotYet /\ Fresh /\ Fresh'
  BY <1>0, <1>1, <1>4 DEF Changes, Fresh, Ahead
<1>5. ASSUME ~restarted, dropped
      PROVE  /\ Met /\ TrustDone /\ (PairChanged' => Loaded') /\ info = {} /\ writing = {}
             /\ crt \in {"cat"} \cup Ended /\ key \in {"cat"} \cup Ended
  BY <1>0, <1>1, <1>2, <1>5 DEF Again, Loaded
<1>6. CASE crt = "cat"
  <2>1. /\ crt' = (IF file["crt"] # {Decl.pair} THEN "cp" ELSE "end") /\ Leave
    BY <1>6 DEF CrtStep, Trusted
  <2>2. UNCHANGED <<bak, info, writing, wrote>>
    BY <2>1 DEF Leave
  <2>3. CertificateInv'
    <3>1. ASSUME ~restarted, crt' = "end", Trusts PROVE Writes("big3d") /\ Writes("gtm")
      <4>1. file["crt"] = {Decl.pair} /\ before["crt"] # {Decl.pair}
        BY <2>1, <3>1 DEF Trusts
      <4>2. dropped
        BY <1>4, <1>6, <3>1, <4>1 DEF Recorded, NotYet, Path
      <4> QED BY <1>5, <3>1, <4>2 DEF TrustDone, Trusted, Writes
    <3> QED BY <1>0, <1>1, <1>2, <2>1, <2>2, <3>1 DEF CertificateInv, Declared, Writes
  <2>4. Changes'
    BY <1>0, <1>1, <1>4, <1>6, <2>1, <2>2 DEF Changes, Fresh, Recorded, NotYet, Ended
  <2>5. Again'
    <3>1. ~restarted /\ dropped => file["crt"] = {Decl.pair}
      BY <1>0, <1>5 DEF Met
    <3> QED BY <1>0, <1>1, <1>2, <1>5, <2>1, <2>2, <3>1 DEF Again, Ended
  <2> QED BY <1>3, <2>3, <2>4, <2>5
<1>7. CASE crt \in Trusted
  <2>1. /\ crt' = (IF Decl.pair \in file[crt] THEN AfterCrt(crt)
                   ELSE IF crt = "big3d" THEN "cp big3d" ELSE "cp gtm")
        /\ Leave
    BY <1>7 DEF CrtStep, Trusted
  <2>2. UNCHANGED <<bak, info, writing, wrote>>
    BY <2>1 DEF Leave
  <2>3. /\ crt = "big3d" => crt' \in {"gtm", "cp big3d"} /\ (crt' = "gtm" => Writes("big3d"))
        /\ crt = "gtm" => crt' \in {"end", "cp gtm"} /\ (crt' = "end" => Writes("gtm"))
        /\ crt \in {"big3d", "gtm"}
    BY <1>7, <2>1 DEF AfterCrt, Trusted, Writes
  <2>4. CertificateInv'
    BY <1>0, <1>1, <1>2, <2>2, <2>3 DEF CertificateInv, Declared, Writes
  <2>5. Changes'
    BY <1>0, <1>1, <1>4, <2>2, <2>3 DEF Changes, Fresh, Recorded, NotYet, Ended
  <2>6. Again'
    BY <1>0, <1>1, <1>5, <2>3 DEF Again, Ended
  <2> QED BY <1>3, <2>4, <2>5, <2>6
<1>8. CASE crt \in {"cp", "cp big3d", "cp gtm"}
  <2> DEFINE p == IF crt = "cp" THEN "crt" ELSE IF crt = "cp big3d" THEN "big3d" ELSE "gtm"
  <2>1. /\ BackUp(p) /\ crt' = AfterCrt(crt) /\ p \in Path
        /\ ~restarted => ~dropped
    BY <1>5, <1>8 DEF CrtStep, Trusted, Path, Ended
  <2>2. /\ crt = "cp" => crt' = IF Decl.updateTrustCerts THEN "big3d" ELSE "end"
        /\ crt = "cp big3d" => crt' = "gtm"
        /\ crt = "cp gtm" => crt' = "end"
    BY <2>1 DEF AfterCrt
  <2>3. writing' = writing \cup {p} /\ info' = info \cup {p}
    BY <2>1 DEF BackUp
  <2>4. CertificateInv'
    <3>1. ~Decl.updateTrustCerts => ~Trusts
      BY DEF Trusts
    <3>2. CASE crt = "cp"
      BY <1>0, <1>1, <1>2, <2>2, <2>3, <3>1, <3>2 DEF CertificateInv, Declared, Writes
    <3>3. CASE crt = "cp big3d"
      BY <1>0, <1>1, <1>2, <2>2, <2>3, <3>3 DEF CertificateInv, Declared, Writes
    <3>4. CASE crt = "cp gtm"
      BY <1>0, <1>1, <1>2, <2>2, <2>3, <3>4 DEF CertificateInv, Declared, Writes
    <3> QED BY <1>8, <3>2, <3>3, <3>4
  <2>5. Changes'
    <3>1. ASSUME Fresh' PROVE Recorded' /\ NotYet'
      <4>1. Recorded /\ NotYet
        BY <1>1, <1>4, <3>1 DEF Fresh
      <4>2. p \notin info
        BY <1>8, <4>1 DEF NotYet, Ended
      <4>3. Recorded'
        BY <1>1, <2>1, <4>1, <4>2, BackUpRecords
      <4>4. NotYet'
        <5>1. CASE crt = "cp"
          BY <1>1, <2>2, <2>3, <4>1, <5>1 DEF NotYet, Ended
        <5>2. CASE crt = "cp big3d"
          BY <1>1, <2>2, <2>3, <4>1, <5>2 DEF NotYet, Ended
        <5>3. CASE crt = "cp gtm"
          BY <1>1, <2>2, <2>3, <4>1, <5>3 DEF NotYet, Ended
        <5> QED BY <1>8, <5>1, <5>2, <5>3
      <4> QED BY <4>3, <4>4
    <3> QED BY <1>0, <1>1, <3>1 DEF Changes
  <2>6. Again'
    BY <1>1, <2>1 DEF Again
  <2> QED BY <1>3, <2>4, <2>5, <2>6
<1>9. crt \in Trusted \cup {"cat", "cp", "cp big3d", "cp gtm"}
  BY DEF CrtStep
<1> QED BY <1>6, <1>7, <1>8, <1>9

(* The promise about the key. *)
LEMMA KeyStepFiles ==
  ASSUME TypeInv, TaskInv, FileInv, KeyStep
  PROVE  FileInv'
<1> USE DEF FileInv
<1>0. /\ pc = "certificate" /\ Declares /\ ~Decl.skipDeviceCertificates
      /\ Decl.pair # NoPair /\ ~rolling
  BY DEF TypeInv, Situation, KeyStep, Ended, Declares
<1>1. /\ InCertificate /\ UNCHANGED <<chain, pc, rolling, state, saved, orig, served, store, file,
                                      crt>>
      /\ UNCHANGED <<posts, task, dropped, before, restarted>>
  BY DEF KeyStep, InCertificate, chain
<1>2. /\ Met' <=> Met
      /\ TrustDone' <=> TrustDone
      /\ Trusts' <=> Trusts
      /\ IsOriginal' <=> IsOriginal
      /\ PairChanged' <=> PairChanged
      /\ Decl' = Decl
  BY <1>1, SameMet
<1>3. Copies' /\ HasMet' /\ HasLoaded' /\ CanUndo' /\ RollsBack'
  BY <1>0, <1>1, InCertificateFiles
<1>4. ASSUME ~restarted, ~dropped PROVE Recorded /\ NotYet /\ Fresh /\ Fresh'
  BY <1>0, <1>1, <1>4 DEF Changes, Fresh, Ahead
<1>5. ASSUME ~restarted, dropped
      PROVE  /\ Met /\ TrustDone /\ (PairChanged' => Loaded') /\ info = {} /\ writing = {}
             /\ crt \in {"cat"} \cup Ended /\ key \in {"cat"} \cup Ended
  BY <1>0, <1>1, <1>2, <1>5 DEF Again, Loaded
<1>6. CASE key = "cat"
  <2>1. /\ key' = (IF file["key"] # {Decl.pair} THEN "cp" ELSE "end") /\ Leave
    BY <1>6 DEF KeyStep
  <2>2. UNCHANGED <<bak, info, writing, wrote>>
    BY <2>1 DEF Leave
  <2>3. CertificateInv'
    BY <1>0, <1>1, <1>2, <2>1, <2>2 DEF CertificateInv, Declared, Writes
  <2>4. Changes'
    BY <1>0, <1>1, <1>4, <1>6, <2>1, <2>2 DEF Changes, Fresh, Recorded, NotYet, Ended
  <2>5. Again'
    <3>1. ~restarted /\ dropped => file["key"] = {Decl.pair}
      BY <1>0, <1>5 DEF Met
    <3> QED BY <1>0, <1>1, <1>2, <1>5, <2>1, <2>2, <3>1 DEF Again, Ended
  <2> QED BY <1>3, <2>3, <2>4, <2>5
<1>7. CASE key # "cat"
  <2>1. key = "cp" /\ BackUp("key") /\ key' = "end" /\ (~restarted => ~dropped) /\ "key" \in Path
    BY <1>5, <1>7 DEF KeyStep, Ended, Path
  <2>2. writing' = writing \cup {"key"} /\ info' = info \cup {"key"}
    BY <2>1 DEF BackUp
  <2>3. CertificateInv'
    BY <1>0, <1>1, <1>2, <2>1, <2>2 DEF CertificateInv, Declared, Writes
  <2>4. Changes'
    <3>1. ASSUME Fresh' PROVE Recorded' /\ NotYet'
      <4>1. Recorded /\ NotYet
        BY <1>1, <1>4, <3>1 DEF Fresh
      <4>2. "key" \notin info
        BY <2>1, <4>1 DEF NotYet, Ended
      <4>3. Recorded'
        BY <1>1, <2>1, <4>1, <4>2, BackUpRecords
      <4>4. NotYet'
        BY <1>1, <2>1, <2>2, <4>1 DEF NotYet, Ended
      <4> QED BY <4>3, <4>4
    <3> QED BY <1>0, <1>1, <3>1 DEF Changes
  <2>5. Again'
    BY <1>1, <2>1 DEF Again
  <2> QED BY <1>3, <2>3, <2>4, <2>5
<1> QED BY <1>6, <1>7

LEMMA WriteFiles ==
  ASSUME TypeInv, TaskInv, FileInv, NEW p \in Path, Write(p)
  PROVE  FileInv'
<1> USE DEF FileInv
<1>0. file \in [Path -> Content \ {NoFile}] /\ pc = "certificate"
  BY DEF TypeInv, TypeOK, FilesOK, Situation, Write
<1>1. /\ InCertificate
      /\ UNCHANGED <<chain, pc, rolling, state, saved, orig, served, store, bak, crt, key, wrote,
                     info>>
      /\ UNCHANGED <<posts, task, dropped, before, restarted>>
      /\ p \in writing /\ writing' = writing \ {p} /\ file' = [file EXCEPT ![p] = Written(p)]
  BY DEF Write, InCertificate, chain
<1>2. /\ file'[p] = Written(p) /\ \A q \in Path \ {p} : file'[q] = file[q]
      /\ Decl' = Decl /\ (Trusts' <=> Trusts)
  BY <1>0, <1>1 DEF Decl, Trusts
<1>3. Copies' /\ HasMet' /\ HasLoaded' /\ CanUndo' /\ RollsBack'
  BY <1>0, <1>1, InCertificateFiles
<1>4. /\ \A q \in {"crt", "key"} : Declared(q) => Declared(q)'
      /\ \A q \in Trusted : Writes(q) => Writes(q)'
  BY <1>1, <1>2 DEF Declared, Writes, Written, Path, Trusted
<1>5. CertificateInv'
  BY <1>0, <1>1, <1>2, <1>4 DEF CertificateInv, Trusted
<1>6. Changes'
  <2>1. ASSUME Fresh PROVE Recorded /\ NotYet
    BY <1>0, <2>1 DEF Changes, Ahead
  <2>2. (Fresh' <=> Fresh) /\ (NotYet' <=> NotYet)
    BY <1>1 DEF Fresh, NotYet
  <2>3. Recorded => Recorded'
    BY <1>1, <1>2 DEF Recorded
  <2> QED BY <1>0, <1>1, <2>1, <2>2, <2>3 DEF Changes
<1>7. Again'
  BY <1>1 DEF Again
<1> QED BY <1>3, <1>5, <1>6, <1>7

LEMMA CallFailsFiles ==
  ASSUME TypeInv, TaskInv, FileInv, CertificateCallFails
  PROVE  FileInv'
<1> USE DEF FileInv
<1>1. /\ InCertificate
      /\ UNCHANGED <<chain, pc, rolling, state, saved, orig, served, store, file, bak, wrote, info>>
      /\ UNCHANGED <<posts, task, dropped, before, restarted>>
  BY DEF CertificateCallFails, InCertificate, chain
<1>2. /\ \/ crt' = "failed" /\ key' = key /\ ("key" \in writing => "key" \in writing')
         \/ key' = "failed" /\ crt' = crt /\ \A q \in writing : q # "key" => q \in writing'
      /\ writing' \subseteq writing
      /\ crt \notin Ended \/ key \notin Ended \/ writing # {}
  BY DEF CertificateCallFails
<1>3. pc = "certificate"
  BY <1>2 DEF TypeInv, Situation
<1>4. /\ Met' <=> Met
      /\ TrustDone' <=> TrustDone
      /\ Trusts' <=> Trusts
      /\ IsOriginal' <=> IsOriginal
      /\ PairChanged' <=> PairChanged
      /\ Decl' = Decl
  BY <1>1, SameMet
<1>5. Copies' /\ HasMet' /\ HasLoaded' /\ CanUndo' /\ RollsBack'
  BY <1>1, <1>3, InCertificateFiles
<1>6. CertificateInv'
  BY <1>1, <1>2, <1>3, <1>4 DEF CertificateInv, Declared, Writes
<1>7. Changes'
  <2>1. ASSUME Fresh PROVE Recorded /\ NotYet
    BY <1>3, <2>1 DEF Changes, Ahead
  <2>2. (Fresh' <=> Fresh) /\ (NotYet => NotYet')
    BY <1>1, <1>2 DEF Fresh, NotYet, Ended
  <2>3. Recorded => Recorded'
    BY <1>1, <1>2 DEF Recorded
  <2> QED BY <1>1, <1>3, <2>1, <2>2, <2>3 DEF Changes
<1>8. Again'
  BY <1>1, <1>2, <1>3, <1>4 DEF Again, Ended, Loaded
<1> QED BY <1>5, <1>6, <1>7, <1>8

(* All promises of a declared certificate have ended. *)
LEMMA CertificateEndsFiles ==
  ASSUME TypeInv, TaskInv, FileInv, CertificateEnds
  PROVE  FileInv'
<1> USE DEF FileInv
<1>0. /\ pc = "certificate" /\ Quiet /\ UNCHANGED <<chain, files, cert>>
      /\ Declares /\ ~Decl.skipDeviceCertificates /\ Decl.pair # NoPair /\ ~rolling
  BY DEF TypeInv, Situation, CertificateEnds, Declares, Step
<1>1. UNCHANGED <<posts, task, dropped, before, restarted, file, orig, bak, served, store, crt, key,
                  writing, wrote, info>>
  BY <1>0 DEF chain, files, cert
<1>2. CASE Broken
  <2>1. Rejected
    BY <1>2 DEF CertificateEnds
  <2> QED BY <1>0, <1>1, <2>1, RejectedFiles DEF Ahead
<1>3. CASE ~Broken
  <2>1. pc' = "license" /\ UNCHANGED <<rolling, state, saved>>
    BY <1>3 DEF CertificateEnds, Step
  <2>2. crt = "end" /\ key = "end" /\ writing = {}
    BY <1>0, <1>3 DEF Broken, Quiet, Ended
  <2>3. Met /\ (~restarted => TrustDone)
    <3>1. Declared("crt") /\ Declared("key")
      BY <1>0, <2>2 DEF CertificateInv
    <3>2. ~restarted /\ Trusts => Writes("big3d") /\ Writes("gtm")
      BY <1>0, <2>2 DEF CertificateInv
    <3> QED BY <1>0, <2>2, <3>1, <3>2 DEF Declared, Writes, Met, TrustDone, Trusted
  <2>4. /\ Met' <=> Met
        /\ TrustDone' <=> TrustDone
        /\ Trusts' <=> Trusts
        /\ IsOriginal' <=> IsOriginal
        /\ PairChanged' <=> PairChanged
        /\ Decl' = Decl
    BY <1>1, SameMet
  <2>5. saved.status \notin {"OK", "REBOOTING", "RESUMING", "ERROR"} /\ state.status # "ERROR"
    BY <1>0 DEF TaskInv, EntryInv, StatusInv
  <2>6. Copies' /\ CertificateInv' /\ CanUndo' /\ RollsBack'
    BY <1>0, <1>1, <2>1, <2>5 DEF Copies, CertificateInv, CanUndo, RollsBack, IsRolledBack
  <2>7. Changes'
    BY <1>0, <1>1, <2>1 DEF Changes, Fresh, Recorded, Ahead
  <2>8. Again' /\ HasMet' /\ HasLoaded'
    BY <1>0, <1>1, <2>1, <2>3, <2>4, <2>5 DEF Again, HasMet, HasLoaded, Loaded
  <2> QED BY <2>6, <2>7, <2>8
<1> QED BY <1>2, <1>3

(* The originals are back when no file differs from its copy. *)
LEMMA NothingDiffers ==
  ASSUME Copies, pc = "restore", Quiet, ~Broken, Differing = {}
  PROVE  IsOriginal
<1>1. \A p \in Path : store[p] = "end"
  BY DEF Quiet, Broken, Ended
<1>2. \A p \in Path : orig[p] # NoFile
  BY <1>1 DEF Copies
<1>3. \A i \in 1 .. 4 : orig[PathOrder[i]] = file[PathOrder[i]]
  <2>1. \A i \in 1 .. 4 : PathOrder[i] \in Path
    BY DEF PathOrder, Path, Trusted
  <2>2. Len(PathOrder) = 4
    BY DEF PathOrder
  <2> QED BY <1>2, <2>1, <2>2 DEF Differing
<1>4. \A p \in Path : \E i \in 1 .. 4 : PathOrder[i] = p
  BY DEF PathOrder, Path, Trusted
<1> QED BY <1>2, <1>3, <1>4 DEF IsOriginal

LEMMA RestoreFiles ==
  ASSUME TypeInv, TaskInv, FileInv, RestoreCertAndKey
  PROVE  FileInv'
<1> USE DEF FileInv
<1>0. /\ pc = "restore" /\ Quiet /\ ~Declares
      /\ UNCHANGED <<chain, orig, served, store, crt, key, writing>>
      /\ file \in [Path -> Content \ {NoFile}] /\ before \in [Path -> Content \ {NoFile}]
      /\ bak \in [Path -> Content] /\ orig \in [Path -> Content]
      /\ state.rollbackInfo \subseteq Path
  BY DEF TypeInv, TypeOK, FilesOK, EntriesOK, Entry, Situation, RestoreCertAndKey
<1>1. UNCHANGED <<posts, task, dropped, before, restarted>> /\ writing = {}
  BY <1>0 DEF chain, Quiet
<1>2. saved.status \notin {"OK", "REBOOTING", "RESUMING", "ERROR"} /\ state.status # "ERROR"
  BY <1>0 DEF TaskInv, EntryInv, StatusInv
<1>3. ~rolling => state.rollbackInfo = {} /\ Decl.pair = NoPair
  BY <1>0 DEF TaskInv, EntryInv, InfoIsLate, Ahead, Declares
<1>4. CASE Rejected /\ UNCHANGED <<file, bak>>
  BY <1>0, <1>4, RejectedFiles DEF Ahead
<1>5. CASE state.rollbackInfo # {} /\ RollbackCertAndKey
  <2>1. rolling
    BY <1>3, <1>5
  <2>2. PICK copied \in SUBSET state.rollbackInfo :
          /\ file' = [p \in Path |-> IF p \in copied THEN bak[p] ELSE file[p]]
          /\ IF copied = state.rollbackInfo
               THEN /\ pc' = "license"
                    /\ UNCHANGED <<rolling, state, saved, faults>>
               ELSE Fault /\ Rejected
    BY <1>5 DEF RollbackCertAndKey
  <2>3. CASE copied # state.rollbackInfo
    BY <1>0, <2>1, <2>2, <2>3, RejectedFiles DEF Ahead
  <2>4. CASE copied = state.rollbackInfo
    <3>1. pc' = "license" /\ UNCHANGED <<rolling, state, saved>>
      BY <2>2, <2>4
    <3>2. ~restarted => file' = before
      <4>1. ASSUME ~restarted, NEW p \in Path PROVE file'[p] = before[p]
        BY <1>0, <1>5, <2>1, <2>2, <2>4, <4>1 DEF CanUndo
      <4>2. file' = [p \in Path |-> file'[p]] /\ before = [p \in Path |-> before[p]]
        BY <1>0, <2>2
      <4> QED BY <4>1, <4>2
    <3>3. Copies' /\ CertificateInv' /\ CanUndo'
      BY <1>0, <3>1 DEF Copies, CertificateInv, CanUndo
    <3>4. Changes' /\ Again' /\ HasMet' /\ HasLoaded'
      BY <2>1, <3>1 DEF Changes, Fresh, Again, HasMet, HasLoaded
    <3>5. RollsBack'
      BY <1>1, <1>2, <3>1, <3>2 DEF RollsBack, IsRolledBack, Undone
    <3> QED BY <3>3, <3>4, <3>5
  <2> QED BY <2>3, <2>4
<1>6. CASE state.rollbackInfo = {} /\ ~Broken /\ Differing = {}
           /\ pc' = "license" /\ UNCHANGED <<file, bak, wrote, info, rolling, state, saved>>
  <2>1. IsOriginal
    BY <1>0, <1>6, NothingDiffers
  <2>2. /\ Met' <=> Met
        /\ TrustDone' <=> TrustDone
        /\ Trusts' <=> Trusts
        /\ IsOriginal' <=> IsOriginal
        /\ PairChanged' <=> PairChanged
        /\ Decl' = Decl
    BY <1>0, <1>1, <1>6, SameMet
  <2>3. Copies' /\ CertificateInv' /\ CanUndo'
    BY <1>0, <1>6 DEF Copies, CertificateInv, CanUndo
  <2>4. Changes'
    BY <1>0, <1>1, <1>6 DEF Changes, Fresh, Recorded, Ahead
  <2>5. ~rolling => Met /\ TrustDone
    BY <1>3, <2>1 DEF Met, TrustDone, Trusts
  <2>6. Again' /\ HasMet' /\ HasLoaded'
    BY <1>0, <1>1, <1>2, <1>6, <2>2, <2>5 DEF Again, HasMet, HasLoaded, Loaded
  <2>7. RollsBack'
    BY <1>1, <1>2, <1>6, <2>1, <2>2 DEF RollsBack, IsRolledBack, Undone
  <2> QED BY <2>3, <2>4, <2>6, <2>7
<1>7. CASE state.rollbackInfo = {} /\ Differing # {}
           /\ \E p \in Path : /\ orig[p] # file[p] /\ orig[p] # NoFile
                              /\ bak' = [bak EXCEPT ![p] = file[p]]
                              /\ file' = [file EXCEPT ![p] = orig[p]]
                              /\ wrote' = TRUE /\ info' = info \cup {p}
                              /\ UNCHANGED <<pc, rolling, state, saved>>
  <2>1. PICK p \in Path : /\ orig[p] # file[p] /\ orig[p] # NoFile
                          /\ bak' = [bak EXCEPT ![p] = file[p]]
                          /\ file' = [file EXCEPT ![p] = orig[p]]
                          /\ wrote' = TRUE /\ info' = info \cup {p}
                          /\ UNCHANGED <<pc, rolling, state, saved>>
    BY <1>7
  <2>2. /\ file'[p] = orig[p] /\ bak'[p] = file[p]
        /\ \A q \in Path \ {p} : file'[q] = file[q] /\ bak'[q] = bak[q]
    BY <1>0, <2>1
  <2>3. Copies' /\ CertificateInv' /\ CanUndo'
    BY <1>0, <1>7, <2>1 DEF Copies, CertificateInv, CanUndo
  <2>4. Changes'
    <3>1. ASSUME Fresh' PROVE Recorded' /\ \A q \in info' : file'[q] = orig'[q]
      <4>1. Fresh /\ Recorded
        BY <1>0, <1>1, <2>1, <3>1 DEF Fresh, Changes, Ahead
      <4>2. \A q \in info : file[q] = orig[q]
        BY <1>0, <4>1 DEF Changes
      <4>3. p \notin info /\ info \subseteq Path
        BY <2>1, <4>2 DEF TypeInv, TypeOK, CertificateOK
      <4>4. file[p] = before[p]
        BY <4>1, <4>3 DEF Recorded
      <4>5. Recorded'
        BY <1>0, <1>1, <2>1, <2>2, <4>1, <4>3, <4>4 DEF Recorded
      <4> QED BY <1>0, <2>1, <2>2, <4>2, <4>3, <4>5
    <3>2. \A q \in Path : store'[q] \in Ended
      BY <1>0 DEF Quiet
    <3> QED BY <1>0, <2>1, <3>1, <3>2 DEF Changes
  <2>5. Again'
    <3>1. ~restarted /\ ~rolling /\ dropped => FALSE
      BY <1>3, <2>1 DEF Again, Met, IsOriginal
    <3> QED BY <1>1, <2>1, <3>1 DEF Again
  <2>6. HasMet' /\ HasLoaded'
    BY <1>0, <1>2, <2>1 DEF HasMet, HasLoaded, Past
  <2>7. RollsBack'
    BY <1>0, <1>2, <2>1 DEF RollsBack, IsRolledBack, Past
  <2> QED BY <2>3, <2>4, <2>5, <2>6, <2>7
<1>8. CASE ~Broken /\ state.rollbackInfo = {} /\ RestoreOriginal /\ Differing # {}
  <2> DEFINE first == CHOOSE i \in Differing : \A j \in Differing : i <= j
             p == PathOrder[first]
  <2>1. \/ /\ bak' = [bak EXCEPT ![p] = file[p]]
           /\ file' = [file EXCEPT ![p] = orig[p]]
           /\ wrote' = TRUE /\ info' = info \cup {p}
           /\ UNCHANGED <<pc, rolling, state, saved, faults>>
        \/ Fault /\ Rejected /\ UNCHANGED <<file, bak, wrote, info>>
    BY <1>8 DEF RestoreOriginal
  <2>2. first \in Differing
    BY <1>8, FirstDiffers
  <2> HIDE DEF first
  <2>3. first \in {1, 2, 3, 4} /\ orig[PathOrder[first]] # NoFile
        /\ orig[PathOrder[first]] # file[PathOrder[first]]
    BY <2>2 DEF Differing, PathOrder
  <2>4. p \in Path /\ orig[p] # NoFile /\ orig[p] # file[p]
    BY <2>3 DEF PathOrder, Path, Trusted
  <2> HIDE DEF p
  <2>5. CASE Rejected /\ UNCHANGED <<file, bak>>
    BY <1>4, <2>5
  <2>6. CASE /\ bak' = [bak EXCEPT ![p] = file[p]]
             /\ file' = [file EXCEPT ![p] = orig[p]]
             /\ wrote' = TRUE /\ info' = info \cup {p}
             /\ UNCHANGED <<pc, rolling, state, saved, faults>>
    BY <1>7, <1>8, <2>4, <2>6
  <2> QED BY <2>1, <2>5, <2>6
<1>9. CASE ~Broken /\ state.rollbackInfo = {} /\ RestoreOriginal /\ Differing = {}
  BY <1>6, <1>9 DEF RestoreOriginal
<1>10. CASE Broken
  BY <1>4, <1>10 DEF RestoreCertAndKey
<1> QED BY <1>5, <1>8, <1>9, <1>10 DEF RestoreCertAndKey

LEMMA DeviceCertificateFiles ==
  ASSUME TypeInv, TaskInv, FileInv, DeviceCertificate
  PROVE  FileInv'
BY StoreOriginalFiles, WriteFiles, CrtStepFiles, KeyStepFiles, CallFailsFiles,
   CertificateEndsFiles, RestoreFiles DEF DeviceCertificate

LEMMA OnboardFiles ==
  ASSUME TypeInv, TaskInv, FileInv, Onboard
  PROVE  FileInv'
<1>1. CASE Fails /\ (Earlier \/ Later \/ Save)
  <2>1. pc \in {"earlier", "later", "save"}
    BY <1>1 DEF Earlier, Later, Save, Step
  <2> QED BY <1>1, <2>1, FailsFiles DEF Ahead
<1> QED
  BY <1>1, PostFiles, EarlierFiles, LaterFiles, SaveFiles, FinishFiles DEF Onboard

(* The entry is saved while the handler waits, or while the rollback runs. *)
LEMMA PrepareFiles ==
  ASSUME TypeInv, TaskInv, FileInv, Prepare
  PROVE  FileInv'
<1> USE DEF FileInv
<1>0. state \in Entry
  BY DEF TypeInv, TypeOK, EntriesOK
<1>1. /\ UNCHANGED <<chain, pc, rolling, files, cert>> /\ listener \in {"create", "status"}
  BY DEF Prepare, InListener
<1>2. CASE UNCHANGED <<state, saved>>
  BY <1>1, <1>2, SilentFiles
<1>3. CASE state' = [state EXCEPT !.status = "REVOKING", !.message = ""] /\ saved' = state'
  <2>1. /\ state'.status = "REVOKING" /\ saved'.status = "REVOKING"
        /\ state'.rollbackInfo = state.rollbackInfo
    BY <1>0, <1>3 DEF Entry
  <2>2. rolling \/ pc = "waitForRevokeReady"
    BY <1>1 DEF TaskInv, SecretInv, ListenerIsLate, Preparing
  <2>3. UNCHANGED <<posts, task, dropped, before, restarted, file, orig, bak, served, store, crt,
                    key, writing, wrote, info>>
    BY <1>1 DEF chain, files, cert
  <2>4. /\ Met' <=> Met
        /\ TrustDone' <=> TrustDone
        /\ Trusts' <=> Trusts
        /\ IsOriginal' <=> IsOriginal
        /\ PairChanged' <=> PairChanged
        /\ Decl' = Decl
    BY <2>3, SameMet
  <2>5. Copies' /\ CertificateInv'
    BY <1>1, <2>3, <2>4 DEF Copies, CertificateInv, Declared, Writes
  <2>6. Changes'
    BY <1>1, <2>2, <2>3 DEF Changes, Fresh, Recorded
  <2>7. Again' /\ HasMet' /\ HasLoaded'
    BY <1>1, <2>1, <2>2, <2>3, <2>4 DEF Again, HasMet, HasLoaded, Loaded, Past
  <2>8. CanUndo'
    BY <1>1, <2>1, <2>3 DEF CanUndo
  <2>9. RollsBack'
    BY <1>1, <2>1, <2>3, <2>4 DEF RollsBack, IsRolledBack, Undone
  <2> QED BY <2>5, <2>6, <2>7, <2>8, <2>9
<1> QED BY <1>2, <1>3 DEF Prepare

(* decryptAndDeleteUserData, and the resumed task starts again. *)
LEMMA ResumingFiles ==
  ASSUME TypeInv, TaskInv, FileInv, pc \in Resuming, pc' \in Resuming \cup {"earlier", "settled"},
         UNCHANGED <<chain, rolling, files, cert, saved>>,
         state' = state \/ state' = [state EXCEPT !.status = "ERROR", !.message = "failed"]
  PROVE  FileInv'
<1> USE DEF FileInv
<1>0. state \in Entry
  BY DEF TypeInv, TypeOK, EntriesOK
<1>1. UNCHANGED <<posts, task, dropped, before, restarted, file, orig, bak, served, store, crt, key,
                  writing, wrote, info>>
  BY DEF chain, files, cert
<1>2. /\ Met' <=> Met
      /\ TrustDone' <=> TrustDone
      /\ Trusts' <=> Trusts
      /\ IsOriginal' <=> IsOriginal
      /\ PairChanged' <=> PairChanged
      /\ Decl' = Decl
  BY <1>1, SameMet
<1>3. saved.status = "RUNNING" /\ ~rolling /\ dropped /\ state.status # "ERROR"
  BY DEF TaskInv, SecretInv, EntryInv, ListenerIsLate, StatusInv, Resuming
<1>4. ~IsRolledBack(state')
  BY <1>0, <1>3 DEF IsRolledBack, Entry
<1>5. Copies' /\ CertificateInv' /\ Changes'
  BY <1>1, <1>3 DEF Copies, CertificateInv, Changes, Fresh, Resuming
<1>6. Again' /\ HasMet' /\ HasLoaded'
  BY <1>1, <1>2, <1>3 DEF Again, HasMet, HasLoaded, Loaded, Past, Resuming
<1>7. CanUndo' /\ RollsBack'
  BY <1>3, <1>4 DEF CanUndo, RollsBack, IsRolledBack
<1> QED BY <1>5, <1>6, <1>7

LEMMA DiskFiles ==
  ASSUME TypeInv, TaskInv, FileInv, Disk
  PROVE  FileInv'
<1> USE DEF FileInv
<1>0. state \in Entry
  BY DEF TypeInv, TypeOK, EntriesOK
<1>1. CASE Step("disk", "later") /\ UNCHANGED cert
  BY <1>1, MovesFiles DEF Step, Past, Ahead
<1>2. CASE /\ pc = "disk" /\ pc' = "reboot" /\ ~rolling
           /\ state' = [state EXCEPT !.status = "RESUMING", !.rebootRequired = TRUE]
           /\ saved' = state'
           /\ UNCHANGED <<chain, rolling, files, cert>>
  <2>1. UNCHANGED <<posts, task, dropped, before, restarted, file, orig, bak, served, store, crt,
                    key, writing, wrote, info>>
    BY <1>2 DEF chain, files, cert
  <2>2. /\ Met' <=> Met
        /\ TrustDone' <=> TrustDone
        /\ Trusts' <=> Trusts
        /\ IsOriginal' <=> IsOriginal
        /\ PairChanged' <=> PairChanged
        /\ Decl' = Decl
    BY <2>1, SameMet
  <2>3. state'.status = "RESUMING" /\ saved'.status = "RESUMING"
    BY <1>0, <1>2 DEF Entry
  <2>4. Copies' /\ CertificateInv' /\ Changes' /\ CanUndo'
    BY <1>2, <2>1 DEF Copies, CertificateInv, Changes, CanUndo, Ahead
  <2>5. Again' /\ HasMet' /\ HasLoaded'
    BY <1>2, <2>1, <2>2, <2>3 DEF Again, HasMet, HasLoaded, Loaded, Past
  <2>6. RollsBack'
    BY <1>2, <2>3 DEF RollsBack, IsRolledBack
  <2> QED BY <2>4, <2>5, <2>6
<1> QED BY <1>1, <1>2 DEF Disk

LEMMA RelicenseFiles ==
  ASSUME TypeInv, TaskInv, FileInv, Relicense
  PROVE  FileInv'
<1>1. CASE License
  <2>1. /\ pc = "license" /\ pc' \in {"disk", "licensing", "waitForRevokeReady"}
        /\ UNCHANGED <<chain, rolling, files, cert, state, saved>>
    BY <1>1 DEF License, Step
  <2> QED BY <2>1, MovesFiles DEF Past, Ahead
<1>2. CASE Revoke
  <2>1. pc = "waitForRevokeReady" /\ UNCHANGED <<chain, files, cert>>
    BY <1>2 DEF Revoke
  <2>2. CASE Rejected
    BY <2>1, <2>2, RejectedFiles DEF Ahead, files, cert
  <2>3. CASE pc' \in {"delay", "licensing"} /\ UNCHANGED <<rolling, state, saved>>
    BY <2>1, <2>3, MovesFiles DEF Past, Ahead
  <2> QED BY <1>2, <2>2, <2>3 DEF Revoke
<1>3. CASE DelayEnds
  BY <1>3, MovesFiles DEF DelayEnds, Step, Past, Ahead
<1>4. CASE Licensing
  <2>1. CASE Step("licensing", "disk") /\ UNCHANGED cert
    BY <2>1, MovesFiles DEF Step, Past, Ahead
  <2>2. CASE pc = "licensing" /\ Fails
    BY <2>2, FailsFiles DEF Ahead
  <2> QED BY <1>4, <2>1, <2>2 DEF Licensing
<1>5. CASE \E id \in SecretId : Create(id) \/ Delete(id)
  <2>1. UNCHANGED <<chain, pc, rolling, files, cert, state, saved>>
    BY <1>5 DEF Create, InListener, Delete, InResume
  <2> QED BY <2>1, SilentFiles
<1>6. CASE \/ Decrypt("bigIp", "decrypt bigIp", "decrypt bigIq")
           \/ Decrypt("bigIq", "decrypt bigIq", "resume")
           \/ Resume
  <2>1. /\ pc \in Resuming /\ pc' \in Resuming \cup {"earlier", "settled"}
        /\ UNCHANGED <<chain, rolling, files, cert, saved>>
        /\ state' = state \/ state' = [state EXCEPT !.status = "ERROR", !.message = "failed"]
    BY <1>6 DEF Decrypt, Resume, InResume, ResumeFails, Resuming
  <2> QED BY <2>1, ResumingFiles
<1> QED BY <1>1, <1>2, <1>3, <1>4, <1>5, <1>6, PrepareFiles DEF Relicense

(* A restart.  Only a reboot that the task has asked for is not counted as *)
(* one; what was being written then had been written.                      *)
LEMMA StartupFiles ==
  ASSUME TypeInv, TaskInv, FileInv, Startup, task > 0,
         file' = [p \in Path |-> file'[p]],
         writing = {} => file' = file, writing' = {},
         restarted => restarted',
         ~restarted' =>
           \/ pc = "settled" /\ ~Resumes /\ served' = served
           \/ /\ \A p \in {"crt", "key"} : served'[p] = file'[p]
              /\ pc = "reboot" \/ ~Resumes
  PROVE  FileInv'
<1> USE DEF FileInv
<1>0. state \in Entry /\ saved \in Entry
  BY DEF TypeInv, TypeOK, EntriesOK
<1>1. /\ UNCHANGED <<posts, task, before, orig, bak>>
      /\ store' = [p \in Path |-> "end"] /\ crt' = "end" /\ key' = "end"
      /\ wrote' = FALSE /\ info' = {}
      /\ pc' \in {"decrypt bigIp", "settled"} /\ saved' = state'
  BY DEF Startup
<1>2. Copies' /\ CertificateInv' /\ Changes' /\ CanUndo'
  BY <1>1 DEF Copies, CertificateInv, Changes, CanUndo, Ahead
<1>3. pc # "certificate" => writing = {}
  BY DEF TypeInv, Situation
<1>4. saved.status \in {"OK", "REBOOTING", "RESUMING", "ERROR"} => pc # "certificate"
  BY DEF TaskInv, EntryInv, StatusInv
<1>5. ASSUME file' = file
      PROVE  /\ Met => Met'
             /\ TrustDone' <=> TrustDone
             /\ IsOriginal' <=> IsOriginal
             /\ PairChanged' <=> PairChanged
  BY <1>1, <1>5 DEF Met, TrustDone, Trusts, IsOriginal, PairChanged, Decl
<1>6. CASE Resumes
  <2>1. /\ state' = [saved EXCEPT !.status = "RUNNING"] /\ dropped' = TRUE
        /\ rolling' = FALSE /\ pc' = "decrypt bigIp"
    BY <1>6 DEF Startup
  <2>2. state'.status = "RUNNING" /\ saved'.status = "RUNNING"
    BY <1>0, <1>1, <2>1 DEF Entry
  <2>3. HasMet' /\ HasLoaded' /\ RollsBack'
    BY <1>1, <2>1, <2>2 DEF HasMet, HasLoaded, RollsBack, IsRolledBack, Past
  <2>4. Again'
    <3>1. ASSUME ~restarted' PROVE Met' /\ TrustDone' /\ Loaded'
      <4>1. pc = "reboot" /\ ~restarted /\ \A p \in {"crt", "key"} : served'[p] = file'[p]
        BY <1>6, <3>1
      <4>2. ~rolling /\ saved.status = "RESUMING"
        BY <1>6, <4>1 DEF TaskInv, EntryInv, StatusInv, RebootIsLate, Resumes
      <4>3. Met /\ TrustDone
        BY <4>1, <4>2 DEF HasMet
      <4>4. file' = file
        BY <1>3, <4>1
      <4> QED BY <1>5, <4>1, <4>3, <4>4 DEF Loaded
    <3> QED BY <1>1, <2>1, <3>1 DEF Again, Ended
  <2> QED BY <1>2, <2>3, <2>4
<1>7. CASE ~Resumes
  <2>1. /\ state' = (IF saved.status = "REBOOTING" THEN [saved EXCEPT !.status = "OK"] ELSE saved)
        /\ pc' = "settled" /\ UNCHANGED <<dropped, rolling>>
    BY <1>7 DEF Startup
  <2>2. /\ saved'.status = (IF saved.status = "REBOOTING" THEN "OK" ELSE saved.status)
        /\ saved'.message = saved.message /\ saved'.rollbackInfo = saved.rollbackInfo
        /\ state' = saved'
    BY <1>0, <1>1, <2>1 DEF Entry
  <2>3. HasMet'
    <3>1. ASSUME ~rolling, saved'.status \in {"OK", "REBOOTING", "RESUMING"}
          PROVE  Met' /\ (~restarted' => TrustDone')
      <4>1. saved.status \in {"OK", "REBOOTING", "RESUMING"}
        BY <2>2, <3>1
      <4>2. Met /\ (~restarted => TrustDone) /\ file' = file
        BY <1>3, <1>4, <3>1, <4>1 DEF HasMet
      <4> QED BY <1>5, <4>2
    <3> QED BY <2>1, <3>1 DEF HasMet, Past
  <2>4. Again'
    <3>1. ASSUME ~restarted', ~rolling, dropped
          PROVE  Met' /\ TrustDone' /\ (PairChanged' => Loaded')
      <4>1. Met /\ TrustDone /\ (PairChanged => Loaded) /\ file' = file
        BY <3>1 DEF Again
      <4>2. (PairChanged' => Loaded')
        BY <1>5, <3>1, <4>1 DEF Loaded
      <4> QED BY <1>5, <4>1, <4>2
    <3> QED BY <1>1, <2>1, <3>1 DEF Again, Ended
  <2>5. HasLoaded'
    <3>1. ASSUME ~restarted', ~rolling, saved'.status = "OK", PairChanged' PROVE Loaded'
      <4>1. saved.status \in {"OK", "REBOOTING"}
        BY <2>2, <3>1
      <4>2. file' = file
        BY <1>3, <1>4, <4>1
      <4>3. CASE pc = "settled" /\ served' = served
        <5>1. saved.status = "OK"
          BY <4>1, <4>3 DEF TaskInv, EntryInv, StatusInv
        <5>2. Loaded
          BY <1>5, <3>1, <4>2, <5>1 DEF HasLoaded
        <5> QED BY <4>2, <4>3, <5>2 DEF Loaded
      <4>4. CASE \A p \in {"crt", "key"} : served'[p] = file'[p]
        BY <4>4 DEF Loaded
      <4> QED BY <3>1, <4>3, <4>4
    <3> QED BY <2>1, <3>1 DEF HasLoaded
  <2>6. RollsBack'
    <3>1. ASSUME ~restarted', IsRolledBack(saved') PROVE Undone(saved)'
      <4>1. IsRolledBack(saved) /\ ~restarted
        BY <2>2, <3>1 DEF IsRolledBack
      <4>2. Undone(saved) /\ file' = file
        BY <1>3, <1>4, <4>1 DEF RollsBack, IsRolledBack
      <4> QED BY <1>1, <1>5, <2>2, <4>2 DEF Undone
    <3> QED BY <2>1, <2>2, <3>1 DEF RollsBack, Undone, IsRolledBack, Past
  <2> QED BY <1>2, <2>3, <2>4, <2>5, <2>6
<1> QED BY <1>6, <1>7

LEMMA RestartsFiles ==
  ASSUME TypeInv, TaskInv, FileInv, Restarts
  PROVE  FileInv'
<1>0. file \in [Path -> Content \ {NoFile}]
  BY DEF TypeInv, TypeOK, FilesOK
<1>1. pc # "idle" /\ task > 0
  BY DEF Restarts, ServicesRestart, WorkerCrash, DeviceReboot, PowerLoss, TypeInv, Situation
<1>2. ASSUME NEW done, Landed(done)
      PROVE  file' = [p \in Path |-> file'[p]] /\ (writing = {} => file' = file) /\ writing' = {}
  <2>1. file' = [p \in Path |-> IF p \in writing /\ p \in done THEN Written(p) ELSE file[p]]
        /\ writing' = {}
    BY <1>2 DEF Landed
  <2>2. ASSUME writing = {} PROVE file' = file
    <3>1. \A p \in Path : file'[p] = file[p]
      BY <2>1, <2>2
    <3>2. file' = [p \in Path |-> file'[p]] /\ file = [p \in Path |-> file[p]]
      BY <1>0, <2>1
    <3> QED BY <3>1, <3>2
  <2> QED BY <2>1, <2>2
<1>3. CASE ServicesRestart \/ WorkerCrash
  <2>1. PICK done : Restart(done)
    BY <1>3 DEF ServicesRestart, WorkerCrash
  <2>2. /\ Landed(done) /\ Startup /\ served' = served
        /\ restarted' = (restarted \/ ~Settled \/ Resumes)
    BY <2>1 DEF Restart
  <2>3. ~restarted' => pc = "settled" /\ ~Resumes
    BY <1>1, <2>2 DEF Settled
  <2> QED BY <1>1, <1>2, <2>2, <2>3, StartupFiles
<1>4. CASE DeviceReboot
  <2>1. /\ Landed({}) /\ Startup /\ UNCHANGED restarted /\ pc = "reboot"
        /\ served' = [p \in {"crt", "key"} |-> file'[p]]
    BY <1>4 DEF DeviceReboot, Reboot
  <2> QED BY <1>1, <1>2, <2>1, StartupFiles
<1>5. CASE PowerLoss
  <2>1. PICK done : Reboot(done)
    BY <1>5 DEF PowerLoss
  <2>2. /\ Landed(done) /\ Startup /\ served' = [p \in {"crt", "key"} |-> file'[p]]
        /\ restarted' = (restarted \/ ~Settled \/ Resumes)
    BY <1>5, <2>1 DEF Reboot, PowerLoss
  <2>3. ~restarted' => pc = "settled" /\ ~Resumes
    BY <1>1, <2>2 DEF Settled
  <2> QED BY <1>1, <1>2, <2>2, <2>3, StartupFiles
<1> QED BY <1>3, <1>4, <1>5 DEF Restarts

LEMMA InitFiles == ASSUME Init PROVE FileInv
<1>1. state.status = "RUNNING" /\ saved.status = "RUNNING"
  BY DEF Init, NewEntry
<1>2. Copies /\ CertificateInv /\ Changes /\ Again
  BY DEF Init, Copies, CertificateInv, Changes, Again, Ahead
<1>3. HasMet /\ HasLoaded /\ CanUndo /\ RollsBack
  BY <1>1 DEF Init, HasMet, HasLoaded, CanUndo, RollsBack, IsRolledBack, Past
<1> QED BY <1>2, <1>3 DEF FileInv

LEMMA NextFiles == ASSUME TypeInv, TaskInv, FileInv, [Next]_vars PROVE FileInv'
<1>1. UNCHANGED vars => UNCHANGED <<chain, pc, rolling, files, cert, state, saved>>
  BY DEF vars
<1> QED
  BY <1>1, OnboardFiles, DeviceCertificateFiles, RelicenseFiles, DiskFiles, RestartsFiles,
     SilentFiles DEF Next

LEMMA FileInvariant == Spec => [](TypeInv /\ TaskInv /\ FileInv)
BY InitType, NextType, InitTask, NextTask, InitFiles, NextFiles, PTL DEF Spec

(* A task that has succeeded has met its declaration. *)
LEMMA SuccessMeans ==
  ASSUME TypeInv, TaskInv, FileInv, Succeeded
  PROVE  /\ Met /\ (~restarted => TrustDone)
         /\ ~restarted /\ PairChanged => Loaded
<1>1. saved.status = "OK" /\ ~rolling
  BY DEF Succeeded, TaskInv, EntryInv, StatusInv
<1> QED BY <1>1 DEF FileInv, HasMet, HasLoaded

(* handleDeviceCertificate and its rollback: the files that a task leaves  *)
(* behind are a certificate and its key.                                   *)
THEOREM PairsMatch == Spec => []PairMatches
<1>1. TypeInv /\ TaskInv /\ FileInv => PairMatches
  <2>1. SUFFICES ASSUME TypeInv, TaskInv, FileInv, OriginalsAreIntact,
                        \/ Succeeded /\ ~Skips
                        \/ (Succeeded \/ RolledBack) /\ ~restarted /\ before["crt"] = before["key"]
                 PROVE  file["crt"] = file["key"]
    BY DEF PairMatches
  <2>2. IsOriginal => file["crt"] = file["key"]
    BY <2>1 DEF IsOriginal, OriginalsAreIntact, Path
  <2>3. CASE Succeeded /\ ~Skips
    BY <2>1, <2>2, <2>3, SuccessMeans DEF Met, Skips
  <2>4. CASE Succeeded /\ ~restarted /\ before["crt"] = before["key"]
    BY <2>1, <2>2, <2>4, SuccessMeans DEF Met
  <2>5. CASE RolledBack /\ ~restarted /\ before["crt"] = before["key"]
    BY <2>1, <2>2, <2>5 DEF RolledBack, FileInv, RollsBack, IsRolledBack, Undone
  <2> QED BY <2>1, <2>3, <2>4, <2>5
<1> QED BY <1>1, FileInvariant, PTL

(* The rollback of the certificate leaves the files as it found them, or   *)
(* the originals.                                                          *)
THEOREM RollbackRestores == Spec => []RollbackRestoresFiles
<1>1. TypeInv /\ TaskInv /\ FileInv => RollbackRestoresFiles
  <2>1. SUFFICES ASSUME TypeInv, FileInv, RolledBack, ~restarted, OriginalsAreIntact, file # before
                 PROVE  /\ state.rollbackInfo = {}
                        /\ \E p \in Path : before[p] # {FactoryPair}
                        /\ \A p \in Path : file[p] = {FactoryPair}
    BY DEF RollbackRestoresFiles
  <2>2. state.rollbackInfo = {} /\ IsOriginal
    BY <2>1 DEF RolledBack, FileInv, RollsBack, IsRolledBack, Undone
  <2>3. \A p \in Path : file[p] = {FactoryPair}
    BY <2>1, <2>2 DEF IsOriginal, OriginalsAreIntact
  <2>4. \E p \in Path : before[p] # file[p]
    <3>1. file = [p \in Path |-> file[p]] /\ before = [p \in Path |-> before[p]]
      BY <2>1 DEF TypeInv, TypeOK, FilesOK
    <3> QED BY <2>1, <3>1
  <2> QED BY <2>2, <2>3, <2>4
<1> QED BY <1>1, FileInvariant, PTL

(* auth.rst:101: httpd serves what a successful task has written. *)
THEOREM WrittenGetsLoaded == Spec => []WrittenIsLoaded
<1>1. TypeInv /\ TaskInv /\ FileInv => WrittenIsLoaded
  BY SuccessMeans DEF WrittenIsLoaded
<1> QED BY <1>1, FileInvariant, PTL

(* auth.rst:106: the trusted lists follow the certificate. *)
THEOREM TrustIsUpdated == Spec => []TrustFollows
<1>1. TypeInv /\ TaskInv /\ FileInv => TrustFollows
  BY SuccessMeans DEF TrustFollows, TrustDone, Trusts
<1> QED BY <1>1, FileInvariant, PTL
=============================================================================
