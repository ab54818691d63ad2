---------------------------- MODULE SystemHandler ----------------------------
(***************************************************************************)
(* The device certificate and the license of src/lib/systemHandler.js, in  *)
(* the tasks of src/nodejs/restWorker.js that run it, with the reboots and *)
(* the restarts of the worker that both of them bring about.               *)
(*                                                                         *)
(* The certificate is four files, which have an original and a backup copy *)
(* beside them; they are read, copied and written by promises that run at  *)
(* the same time.  The license may have to be revoked, which restarts the  *)
(* worker: the passwords the resumed task needs are left on the device.    *)
(*                                                                         *)
(* The other handlers are the steps "earlier" and "later", which may fail. *)
(* DO runs on the BIG-IP, one task at a time.  What a handler has under    *)
(* way when it rejects is taken to end before the rollback comes to it.    *)
(***************************************************************************)
EXTENDS Naturals, FiniteSets, Sequences

CONSTANTS
  Pair,        \* certificates, each with its private key
  NoPair,      \* a declaration without DeviceCertificate
  FactoryPair, \* what the device came with
  Posts,       \* the declarations that are posted one after the other
  MaxFaults    \* calls that fail, restarts of the worker and of the device

(* The files: the pair that httpd serves, and two lists of trusted         *)
(* certificates, to which a certificate is appended.                       *)
Trusted == {"big3d", "gtm"}
Path == {"crt", "key"} \cup Trusted
PathOrder == <<"crt", "key", "big3d", "gtm">>

(* The fixed names under which the passwords are kept on the device.       *)
SecretId == {"bigIp", "bigIq"}

Declaration == [pair: Pair \cup {NoPair}, updateTrustCerts: BOOLEAN,
                skipDeviceCertificates: BOOLEAN,
                license: {"none", "pool", "revokeFrom", "revokeCurrent"}, disk: BOOLEAN]

ASSUME SystemAssumption ==
  /\ NoPair \notin Pair
  /\ FactoryPair \notin Pair
  /\ Posts \subseteq Seq(Declaration)
  /\ MaxFaults \in Nat

Content == SUBSET (Pair \cup {FactoryPair})
NoFile == {}

VARIABLES
  posts,         \* the declarations of this behaviour
  task,          \* the number of the task, 0 before the first
  pc,            \* where its chain of promises is
  rolling,       \* the chain is the rollback
  dropped,       \* revokeFrom and revokeCurrent are out of the declaration
  state, saved,  \* the task's entry in the worker's table, in memory and on disk
  file, orig, bak, served, \* the files, their copies, and what httpd has loaded
  store, crt, key, writing, \* the promises of handleDeviceCertificate
  wrote, info,   \* this.rebootRequired and this.rollbackInfo of the handler
  secret, savedSecret, \* whose passwords the device has, running and saved
  listener, creating, deleting, \* the calls about the passwords
  revoked,       \* the license was revoked, and the services will restart
  resized,       \* the disk has its new size
  before, restarted, faults \* history: the files at the post, a restart since

chain   == <<posts, task, dropped, before, restarted>>
files   == <<file, orig, bak, served>>
cert    == <<store, crt, key, writing, wrote, info>>
secrets == <<secret, savedSecret, listener, creating, deleting, revoked>>
vars == <<chain, pc, rolling, state, saved, files, cert, secrets, resized, faults>>

Status == {"OK", "ERROR", "RUNNING", "REVOKING", "RESUMING", "REBOOTING", "ROLLING_BACK"}
Entry == [status: Status, message: {"", "rolled back", "rollback failed", "failed"},
          rebootRequired: BOOLEAN, rollbackInfo: SUBSET Path]

Decl == posts[task]
Settled == pc \in {"idle", "settled"}

Ended == {"end", "failed"}
Quiet == /\ \A p \in Path : store[p] \in Ended
         /\ crt \in Ended /\ key \in Ended /\ writing = {}

MayFail == faults < MaxFaults
Fault == MayFail /\ faults' = faults + 1

-----------------------------------------------------------------------------
(* The chain of onboard *)

NewEntry == [status |-> "RUNNING", message |-> "", rebootRequired |-> FALSE, rollbackInfo |-> {}]

(* onPost *)
Post ==
  /\ Settled /\ task < Len(posts)
  /\ listener \notin {"create", "status"} /\ creating = {}
  /\ task' = task + 1
  /\ state' = NewEntry /\ saved' = NewEntry
  /\ pc' = "earlier" /\ rolling' = FALSE /\ dropped' = FALSE
  /\ before' = file /\ restarted' = FALSE
  /\ resized' = FALSE /\ revoked' = FALSE
  /\ UNCHANGED <<posts, files, cert, secret, savedSecret, listener, creating, deleting, faults>>

(* The first catch of onboard, and the second one when it is the rollback  *)
(* that is rejected.                                                       *)
Rejected ==
  /\ rolling' = TRUE
  /\ IF rolling
       THEN /\ state' = [state EXCEPT !.status = "ERROR", !.message = "rollback failed"]
            /\ pc' = "finish"
            /\ UNCHANGED saved
       ELSE /\ state' = [state EXCEPT !.status = "ROLLING_BACK"]
            /\ saved' = state'
            /\ pc' = "earlier"

(* Nothing but the chain changes, and perhaps a fault is counted. *)
Fails == /\ Fault /\ Rejected
         /\ UNCHANGED <<chain, files, cert, secrets, resized>>

Step(from, to) ==
  /\ pc = from /\ pc' = to
  /\ UNCHANGED <<chain, rolling, state, saved, files, secrets, resized, faults>>

(* Mutant: the rollback, and a declaration without one, write it, too. *)
DeclaresAlways == TRUE

(* The read of the configuration and the handlers before the certificate,  *)
(* and where handleDeviceCertificate starts its promises.  A rollback does *)
(* not declare a certificate.                                              *)
Declares == Decl.pair # NoPair /\ ~rolling

Earlier ==
  \/ /\ Quiet
     /\ Step("earlier", IF ~Declares THEN "restore"
                        ELSE IF Decl.skipDeviceCertificates THEN "license" ELSE "certificate")
     /\ store' = [p \in Path |-> "ls"]
     /\ LET first == IF pc' = "certificate" THEN "cat" ELSE "end"
        IN crt' = first /\ key' = first
     /\ wrote' = FALSE /\ info' = {}
     /\ UNCHANGED writing
  \/ pc = "earlier" /\ Fails

(* The handlers after the license, and the end of declarationHandler       *)
(* .process: only its status tells the task about a reboot, and about what *)
(* can be rolled back.  A rollback has its status thrown away.             *)
Later ==
  \/ /\ pc = "later"
     /\ IF rolling
          THEN /\ state' = [state EXCEPT !.status = "ERROR", !.message = "rolled back"]
               /\ saved' = state' /\ pc' = "finish"
          ELSE /\ state' = [state EXCEPT !.rebootRequired = wrote, !.rollbackInfo = info]
               /\ pc' = "save" /\ UNCHANGED saved
     /\ UNCHANGED <<chain, rolling, files, cert, secrets, resized, faults>>
  \/ pc = "later" /\ Fails

(* saveConfig *)
Save ==
  \/ /\ pc = "save" /\ pc' = "finish"
     /\ savedSecret' = secret
     /\ UNCHANGED <<chain, rolling, state, saved, files, cert, resized, faults, secret, listener,
                    creating, deleting, revoked>>
  \/ pc = "save" /\ Fails

(* The configuration is saved once more, setPostOnboardStatus and          *)
(* rebootIfRequired.                                                       *)
Finish ==
  /\ pc = "finish"
  /\ state' = IF state.status = "ERROR" THEN state
              ELSE [state EXCEPT !.message = "",
                                 !.status = IF state.rebootRequired THEN "REBOOTING" ELSE "OK"]
  /\ saved' = IF state.status = "ERROR" THEN saved ELSE state'
  /\ savedSecret' = secret
  /\ pc' = IF state.rebootRequired THEN "reboot" ELSE "settled"
  /\ UNCHANGED <<chain, rolling, files, cert, resized, faults, secret, listener, creating,
                 deleting, revoked>>

-----------------------------------------------------------------------------
(* handleDeviceCertificate: the original copies *)

(* storeOriginalCertAndKey, one promise for each file. *)
StoreOriginal(p) ==
  /\ store[p] \in {"ls", "cp"}
  /\ \/ /\ store[p] = "ls"
        /\ store' = [store EXCEPT ![p] = IF orig[p] = NoFile THEN "cp" ELSE "end"]
        /\ UNCHANGED <<orig, faults>>
     \/ /\ store[p] = "cp"
        /\ orig' = [orig EXCEPT ![p] = file[p]]
        /\ store' = [store EXCEPT ![p] = "end"]
        /\ UNCHANGED faults
     \/ /\ Fault
        /\ store' = [store EXCEPT ![p] = "failed"]
        /\ UNCHANGED orig
  /\ UNCHANGED <<chain, pc, rolling, state, saved, file, bak, served, crt, key, writing, wrote,
                 info, secrets, resized>>

-----------------------------------------------------------------------------
(* handleDeviceCertificate: a declared certificate *)

InCertificate == UNCHANGED <<chain, pc, rolling, state, saved, orig, served, store, secrets,
                             resized>>

(* Mutant: the backup is taken of what is written. *)
BackUpLate(p) ==
  /\ bak' = [bak EXCEPT ![p] = {Decl.pair}]
  /\ info' = info \cup {p}
  /\ writing' = writing \cup {p}
  /\ wrote' = TRUE

(* Mutant: the write does not ask for a reboot. *)
BackUpQuiet(p) ==
  /\ bak' = [bak EXCEPT ![p] = file[p]]
  /\ info' = info \cup {p}
  /\ writing' = writing \cup {p}
  /\ UNCHANGED wrote

(* storeDeviceCertRollbackInfo, and the write that follows at once. *)
BackUp(p) ==
  /\ bak' = [bak EXCEPT ![p] = file[p]]
  /\ info' = info \cup {p}
  /\ writing' = writing \cup {p}
  /\ wrote' = TRUE

Leave == UNCHANGED <<bak, info, writing, wrote>>

(* Mutant: only one trusted list is updated. *)
AfterCrtOneList(step) ==
  IF step = "cp" /\ Decl.updateTrustCerts THEN "big3d" ELSE "end"

(* The order of the promise about the certificate: the trusted lists are   *)
(* looked at only when the certificate itself had to be written.           *)
AfterCrt(step) ==
  CASE step = "cp" -> IF Decl.updateTrustCerts THEN "big3d" ELSE "end"
    [] step \in {"big3d", "cp big3d"} -> "gtm"
    [] step \in {"gtm", "cp gtm"} -> "end"

CrtStep ==
  /\ \/ /\ crt = "cat"
        /\ crt' = IF file["crt"] # {Decl.pair} THEN "cp" ELSE "end"
        /\ Leave
     \/ crt = "cp" /\ BackUp("crt") /\ crt' = AfterCrt(crt)
     \/ /\ crt \in Trusted
        /\ crt' = IF Decl.pair \in file[crt] THEN AfterCrt(crt)
                  ELSE IF crt = "big3d" THEN "cp big3d" ELSE "cp gtm"
        /\ Leave
     \/ crt = "cp big3d" /\ BackUp("big3d") /\ crt' = AfterCrt(crt)
     \/ crt = "cp gtm" /\ BackUp("gtm") /\ crt' = AfterCrt(crt)
  /\ UNCHANGED <<file, key, faults>> /\ InCertificate

KeyStep ==
  /\ \/ /\ key = "cat"
        /\ key' = IF file["key"] # {Decl.pair} THEN "cp" ELSE "end"
        /\ Leave
     \/ key = "cp" /\ BackUp("key") /\ key' = "end"
  /\ UNCHANGED <<file, crt, faults>> /\ InCertificate

(* What the file is once the command has run: the trusted lists grow. *)
Written(p) == IF p \in Trusted THEN file[p] \cup {Decl.pair} ELSE {Decl.pair}

Write(p) ==
  /\ p \in writing
  /\ writing' = writing \ {p}
  /\ file' = [file EXCEPT ![p] = Written(p)]
  /\ UNCHANGED <<bak, crt, key, wrote, info, faults>> /\ InCertificate

(* One of the calls is rejected; the others go on. *)
CertificateCallFails ==
  /\ Fault
  /\ \/ crt \notin Ended /\ crt' = "failed" /\ UNCHANGED <<key, writing>>
     \/ key \notin Ended /\ key' = "failed" /\ UNCHANGED <<crt, writing>>
     \/ \E p \in writing : /\ writing' = writing \ {p}
                           /\ IF p = "key" THEN key' = "failed" /\ UNCHANGED crt
                                           ELSE crt' = "failed" /\ UNCHANGED key
  /\ UNCHANGED <<file, bak, wrote, info>> /\ InCertificate

(* Mutant: a key that could not be written goes unnoticed. *)
BrokenCrt == crt = "failed" \/ \E p \in Path : store[p] = "failed"

Broken == crt = "failed" \/ key = "failed" \/ \E p \in Path : store[p] = "failed"

(* All the promises are awaited. *)
CertificateEnds ==
  /\ pc = "certificate" /\ Quiet
  /\ IF Broken
       THEN Rejected /\ UNCHANGED <<chain, files, secrets, resized, faults>>
       ELSE Step("certificate", "license")
  /\ UNCHANGED cert

-----------------------------------------------------------------------------
(* handleDeviceCertificate: no certificate is declared *)

(* rollbackCertAndKey: the copies run at the same time, and some of them   *)
(* may be done when one fails.                                             *)
RollbackCertAndKey ==
  /\ \E copied \in SUBSET state.rollbackInfo :
       /\ file' = [p \in Path |-> IF p \in copied THEN bak[p] ELSE file[p]]
       /\ IF copied = state.rollbackInfo
            THEN /\ pc' = "license"
                 /\ UNCHANGED <<rolling, state, saved, faults>>
            ELSE Fault /\ Rejected
  /\ wrote' = TRUE
  /\ UNCHANGED <<bak, info>>

(* restoreOriginalCertAndKey: file after file. *)
Differing == {i \in 1..Len(PathOrder) :
                orig[PathOrder[i]] # NoFile /\ orig[PathOrder[i]] # file[PathOrder[i]]}

RestoreOriginal ==
  IF Differing = {}
    THEN pc' = "license" /\ UNCHANGED <<file, bak, wrote, info, rolling, state, saved, faults>>
    ELSE LET first == CHOOSE i \in Differing : \A j \in Differing : i <= j
             p == PathOrder[first]
         IN \/ /\ bak' = [bak EXCEPT ![p] = file[p]]
               /\ file' = [file EXCEPT ![p] = orig[p]]
               /\ wrote' = TRUE /\ info' = info \cup {p}
               /\ UNCHANGED <<pc, rolling, state, saved, faults>>
            \/ Fault /\ Rejected /\ UNCHANGED <<file, bak, wrote, info>>

RestoreCertAndKey ==
  /\ pc = "restore" /\ Quiet
  /\ IF Broken THEN Rejected /\ UNCHANGED <<file, bak, wrote, info, faults>>
     ELSE IF state.rollbackInfo # {} THEN RollbackCertAndKey
     ELSE RestoreOriginal
  /\ UNCHANGED <<chain, orig, served, store, crt, key, writing, secrets, resized>>

-----------------------------------------------------------------------------
(* handleLicense *)

Revokes == Decl.license \in {"revokeFrom", "revokeCurrent"} /\ ~dropped

(* Mutant: the password of the BIG-IQ is not looked for. *)
LooksForOne == IF Decl.license = "revokeFrom" THEN {"bigIp"} ELSE {}

(* The secrets that prepForRebootResumeOrRevoke is given, and that a       *)
(* resumed task looks for.                                                 *)
Given == IF Decl.license = "revokeFrom" THEN SecretId ELSE {}
LooksFor == CASE Decl.license = "revokeFrom" -> SecretId
              [] Decl.license = "pool" -> {"bigIq"}
              [] OTHER -> {}

(* LICENSE_WILL_BE_REVOKED starts the listener. *)
License ==
  /\ pc = "license"
  /\ IF Decl.license = "none" \/ rolling
       THEN Step("license", "disk") /\ UNCHANGED cert
     ELSE IF ~Revokes
       THEN Step("license", "licensing") /\ UNCHANGED cert
     ELSE /\ pc' = "waitForRevokeReady"
          /\ listener' = "create" /\ creating' = Given
          /\ UNCHANGED <<chain, rolling, state, saved, files, cert, secret, savedSecret, deleting,
                         revoked, resized, faults>>

InListener == UNCHANGED <<chain, pc, rolling, files, cert, deleting, revoked, resized>>

(* encryptAndStoreValue: a name that is taken is refused. *)
Create(id) ==
  /\ id \in creating
  /\ creating' = creating \ {id}
  /\ \/ /\ secret[id] = 0
        /\ secret' = [secret EXCEPT ![id] = task]
        /\ UNCHANGED <<listener, faults>>
     \/ /\ secret[id] # 0
        /\ listener' = "failed"
        /\ UNCHANGED <<secret, faults>>
     \/ Fault /\ listener' = "failed" /\ UNCHANGED secret
  /\ UNCHANGED <<savedSecret, state, saved>> /\ InListener

(* Mutant: the status is saved before the configuration. *)
PrepareUnsaved ==
  /\ creating = {}
  /\ \/ /\ listener = "create"
        /\ state' = [state EXCEPT !.status = "REVOKING", !.message = ""]
        /\ saved' = state'
        /\ listener' = "status"
        /\ UNCHANGED savedSecret
     \/ /\ listener = "status"
        /\ savedSecret' = secret
        /\ listener' = "ready"
        /\ UNCHANGED <<state, saved>>
  /\ UNCHANGED <<secret, creating, faults>> /\ InListener

(* The rest of prepForRebootResumeOrRevoke: save the configuration, then   *)
(* the status.                                                             *)
Prepare ==
  /\ creating = {}
  /\ \/ /\ listener = "create"
        /\ savedSecret' = secret
        /\ listener' = "status"
        /\ UNCHANGED <<state, saved, faults>>
     \/ /\ listener = "status"
        /\ state' = [state EXCEPT !.status = "REVOKING", !.message = ""]
        /\ saved' = state'
        /\ listener' = "ready"
        /\ UNCHANGED <<savedSecret, faults>>
     \/ /\ listener \in {"create", "status"}
        /\ Fault /\ listener' = "failed"
        /\ UNCHANGED <<savedSecret, state, saved>>
  /\ UNCHANGED <<secret, creating>> /\ InListener

(* waitForRevokeReady, and the revocation; READY_FOR_REVOKE may come late, *)
(* or never when the listener has failed.                                  *)
Revoke ==
  /\ pc = "waitForRevokeReady"
  /\ \/ /\ listener = "ready" /\ listener' = "idle"
        /\ revoked' = TRUE
        /\ pc' = IF Decl.license = "revokeFrom" THEN "delay" ELSE "licensing"
        /\ UNCHANGED <<rolling, state, saved, faults>>
     \/ listener = "failed" /\ Rejected /\ listener' = "idle" /\ UNCHANGED <<revoked, faults>>
     \/ Fault /\ Rejected /\ UNCHANGED <<revoked, listener>>
  /\ UNCHANGED <<chain, files, cert, secret, savedSecret, creating, deleting, resized>>

(* The restart did not come within two minutes. *)
DelayEnds == Step("delay", "licensing") /\ UNCHANGED cert

Licensing ==
  \/ Step("licensing", "disk") /\ UNCHANGED cert
  \/ pc = "licensing" /\ Fails

-----------------------------------------------------------------------------
(* handleDisk: on REBOOT_NOW the worker prepares to resume, without any    *)
(* password, and the handler waits for ever.                               *)
Disk ==
  /\ pc = "disk"
  /\ IF Decl.disk /\ ~resized /\ ~rolling
    THEN /\ pc' = "reboot"
         /\ state' = [state EXCEPT !.status = "RESUMING", !.rebootRequired = TRUE]
         /\ saved' = state'
         /\ savedSecret' = secret
         /\ UNCHANGED <<chain, rolling, files, cert, secret, listener, creating, deleting, revoked,
                        resized, faults>>
    ELSE Step("disk", "later") /\ UNCHANGED cert

-----------------------------------------------------------------------------
(* Restarts *)

(* What was sent before the worker stopped may still be carried out. *)
Landed(done) ==
  /\ file' = [p \in Path |-> IF p \in writing /\ p \in done THEN Written(p) ELSE file[p]]
  /\ writing' = {} /\ creating' = {} /\ deleting' = {}

SecretAfter(id, done) ==
  CASE id \in creating /\ secret[id] = 0 /\ id \in done -> task
    [] id \in deleting /\ id \in done -> 0
    [] OTHER -> secret[id]

(* handleStartupState and updateStateAfterReboot. *)
Resumes == saved.status \in {"RUNNING", "REVOKING", "RESUMING"}

Startup ==
  /\ IF Resumes
       THEN /\ state' = [saved EXCEPT !.status = "RUNNING"] /\ saved' = state'
            /\ dropped' = TRUE /\ rolling' = FALSE /\ revoked' = FALSE
            /\ pc' = "decrypt bigIp"
     ELSE /\ state' = IF saved.status = "REBOOTING" THEN [saved EXCEPT !.status = "OK"] ELSE saved
          /\ saved' = state' /\ pc' = "settled"
          /\ UNCHANGED <<dropped, rolling, revoked>>
  /\ store' = [p \in Path |-> "end"] /\ crt' = "end" /\ key' = "end"
  /\ wrote' = FALSE /\ info' = {}
  /\ listener' = "idle"
  /\ UNCHANGED <<posts, task, before, orig, bak>>

(* restnoded restarts; the device goes on. *)
Restart(done) ==
  /\ Landed(done)
  /\ secret' = [id \in SecretId |-> SecretAfter(id, done)]
  /\ restarted' = (restarted \/ ~Settled \/ Resumes)
  /\ UNCHANGED <<served, savedSecret, resized>>
  /\ Startup

(* The device reboots, and loads the saved configuration. *)
Reboot(done) ==
  /\ Landed(done)
  /\ served' = [p \in {"crt", "key"} |-> file'[p]]
  /\ secret' = savedSecret
  /\ resized' = (resized \/ state.status = "RESUMING")
  /\ UNCHANGED savedSecret
  /\ Startup

ServicesRestart ==
  /\ revoked /\ pc \in {"delay", "licensing"}
  /\ \E done \in SUBSET (writing \cup creating \cup deleting) : Restart(done)
  /\ UNCHANGED faults

WorkerCrash ==
  /\ Fault /\ pc # "idle"
  /\ \E done \in SUBSET (writing \cup creating \cup deleting) : Restart(done)

DeviceReboot ==
  /\ pc = "reboot"
  /\ Reboot({}) /\ UNCHANGED <<restarted, faults>>

PowerLoss ==
  /\ Fault /\ pc # "idle"
  /\ \E done \in SUBSET writing : Reboot(done)
  /\ restarted' = (restarted \/ ~Settled \/ Resumes)

-----------------------------------------------------------------------------
(* decryptAndDeleteUserData *)

(* The chain of handleStartupState is rejected; this is not saved. *)
ResumeFails ==
  /\ state' = [state EXCEPT !.status = "ERROR", !.message = "failed"]
  /\ pc' = "settled"

InResume == UNCHANGED <<chain, rolling, saved, files, cert, savedSecret, creating, revoked,
                        resized>>

Decrypt(id, from, to) ==
  /\ pc = from
  /\ \/ /\ id \notin LooksFor
        /\ pc' = to
        /\ UNCHANGED <<state, deleting, faults>>
     \/ /\ id \in LooksFor /\ secret[id] # 0
        /\ deleting' = deleting \cup {id}
        /\ pc' = to
        /\ UNCHANGED <<state, faults>>
     \/ id \in LooksFor /\ secret[id] = 0 /\ ResumeFails /\ UNCHANGED <<deleting, faults>>
     \/ id \in LooksFor /\ Fault /\ ResumeFails /\ UNCHANGED deleting
  /\ UNCHANGED <<secret, listener>> /\ InResume

(* deleteEncryptedId *)
Delete(id) ==
  /\ id \in deleting
  /\ deleting' = deleting \ {id}
  /\ \/ /\ secret' = [secret EXCEPT ![id] = 0]
        /\ UNCHANGED <<pc, state, faults>>
        /\ UNCHANGED listener
     \/ Fault /\ listener' = "failed" /\ UNCHANGED secret
  /\ UNCHANGED <<pc, state>> /\ InResume

Resume ==
  /\ pc = "resume" /\ deleting = {}
  /\ IF listener = "failed" THEN ResumeFails ELSE pc' = "earlier" /\ UNCHANGED state
  /\ listener' = "idle"
  /\ UNCHANGED <<secret, deleting, faults>> /\ InResume

-----------------------------------------------------------------------------
(* Specification *)

Init ==
  /\ posts \in Posts
  /\ task = 0 /\ pc = "idle"
  /\ rolling = FALSE /\ dropped = FALSE
  /\ state = NewEntry /\ saved = NewEntry
  /\ file = [p \in Path |-> {FactoryPair}]
  /\ orig = [p \in Path |-> NoFile]
  /\ bak = [p \in Path |-> NoFile]
  /\ served = [p \in {"crt", "key"} |-> {FactoryPair}]
  /\ store = [p \in Path |-> "end"]
  /\ crt = "end" /\ key = "end" /\ writing = {}
  /\ wrote = FALSE /\ info = {}
  /\ secret = [id \in SecretId |-> 0] /\ savedSecret = [id \in SecretId |-> 0]
  /\ listener = "idle" /\ creating = {} /\ deleting = {}
  /\ revoked = FALSE /\ resized = FALSE
  /\ before = file /\ restarted = FALSE /\ faults = 0

Onboard == Post \/ Earlier \/ Later \/ Save \/ Finish

DeviceCertificate ==
  \/ \E p \in Path : StoreOriginal(p) \/ Write(p)
  \/ CrtStep \/ KeyStep \/ CertificateCallFails \/ CertificateEnds \/ RestoreCertAndKey

Relicense ==
  \/ License \/ Prepare \/ Revoke \/ DelayEnds \/ Licensing
  \/ \E id \in SecretId : Create(id) \/ Delete(id)
  \/ Decrypt("bigIp", "decrypt bigIp", "decrypt bigIq")
  \/ Decrypt("bigIq", "decrypt bigIq", "resume")
  \/ Resume

Restarts == ServicesRestart \/ WorkerCrash \/ DeviceReboot \/ PowerLoss

Next == Onboard \/ DeviceCertificate \/ Relicense \/ Disk \/ Restarts

Spec == Init /\ [][Next]_vars

-----------------------------------------------------------------------------
(* Properties *)

ChainOK ==
  /\ posts \in Posts /\ task \in 0..Len(posts)
  /\ pc \in {"idle", "earlier", "restore", "certificate", "license", "waitForRevokeReady", "delay",
            "licensing", "disk", "later", "save", "finish", "reboot", "settled", "decrypt bigIp",
            "decrypt bigIq", "resume"}
  /\ rolling \in BOOLEAN /\ dropped \in BOOLEAN
  /\ resized \in BOOLEAN /\ restarted \in BOOLEAN
  /\ faults \in 0..MaxFaults

EntriesOK == state \in Entry /\ saved \in Entry

FilesOK ==
  /\ file \in [Path -> Content \ {NoFile}] /\ before \in [Path -> Content \ {NoFile}]
  /\ orig \in [Path -> Content] /\ bak \in [Path -> Content]
  /\ served \in [{"crt", "key"} -> Content \ {NoFile}]

CertificateOK ==
  /\ store \in [Path -> {"ls", "cp"} \cup Ended]
  /\ crt \in {"cat", "cp", "big3d", "cp big3d", "gtm", "cp gtm"} \cup Ended
  /\ key \in {"cat", "cp"} \cup Ended
  /\ writing \subseteq Path
  /\ wrote \in BOOLEAN /\ info \subseteq Path

SecretsOK ==
  /\ secret \in [SecretId -> 0..task] /\ savedSecret \in [SecretId -> 0..task]
  /\ listener \in {"idle", "create", "status", "ready", "failed"}
  /\ creating \subseteq SecretId /\ deleting \subseteq SecretId
  /\ revoked \in BOOLEAN

(* The state is of the right shape. *)
TypeOK == ChainOK /\ EntriesOK /\ FilesOK /\ CertificateOK /\ SecretsOK

(* The copies of the originals are what the device came with.  They are    *)
(* taken while the new certificate is written, so that the copy may be one *)
(* of the new file; then they are of no use, and the properties say so.    *)
OriginalsAreIntact == \A p \in Path : orig[p] \in {NoFile, {FactoryPair}}

RolledBack == pc = "settled" /\ state.status = "ERROR" /\ state.message = "rolled back"

(* A rolled back task whose listener was late reports OK, too: this is     *)
(* RestWorker's subject.                                                   *)
Succeeded == pc = "settled" /\ state.status = "OK" /\ ~rolling

(* handleDeviceCertificate: certificate and key are written by promises of *)
(* their own, but a task that has ended, successful or rolled back, leaves *)
(* a certificate with its key.  (A task that is rolled back, or leaves the *)
(* files alone, only if it found them so.  Not a task that was resumed     *)
(* after it had written one of the files, and then could not save the      *)
(* configuration: the rollback knows only what the resumed task wrote; nor *)
(* one that leaves them alone and was resumed amid its rollback.)          *)
Skips == Decl.pair # NoPair /\ Decl.skipDeviceCertificates

PairMatches ==
  /\ \/ Succeeded /\ ~Skips
     \/ (Succeeded \/ RolledBack) /\ ~restarted /\ before["crt"] = before["key"]
  /\ OriginalsAreIntact
  => file["crt"] = file["key"]

(* A task that is rolled back leaves the files as it found them.  (Unless  *)
(* they were not the originals and a handler failed: a handler that fails  *)
(* takes what the others can roll back with it, and the rollback restores  *)
(* the originals.  Nor after a restart.)                                   *)
RollbackRestoresFiles ==
  RolledBack /\ ~restarted /\ OriginalsAreIntact =>
    \/ file = before
    \/ /\ state.rollbackInfo = {}
       /\ \E p \in Path : before[p] # {FactoryPair}
       /\ \A p \in Path : file[p] = {FactoryPair}

(* docs/declarations/auth.rst:101: if the certificate is updated, DO       *)
(* reboots the device.  When a task has succeeded after it changed the     *)
(* pair, httpd has loaded what is in the files.  Not when the worker was   *)
(* restarted in between: a resumed task finds nothing to write, and the    *)
(* device is not rebooted.                                                 *)
PairChanged == \E p \in {"crt", "key"} : file[p] # before[p]
Loaded == \A p \in {"crt", "key"} : served[p] = file[p]

WrittenIsLoaded == Succeeded /\ PairChanged /\ ~restarted => Loaded

(* auth.rst:106: with updateTrustCerts the trusted lists are updated when  *)
(* the certificate is.  (Not by a resumed task that finds the certificate  *)
(* written already.)                                                       *)
TrustFollows ==
  /\ Succeeded /\ ~restarted
  /\ Decl.pair # NoPair /\ Decl.updateTrustCerts /\ ~Decl.skipDeviceCertificates
  /\ before["crt"] # {Decl.pair}
  => \A p \in Trusted : Decl.pair \in file[p]

(* prepForRebootResumeOrRevoke saves the passwords "in case something      *)
(* restarts": while the table on disk says that the license is being       *)
(* revoked, the saved configuration has both passwords of this very task.  *)
RevokingIsResumable ==
  task > 0 /\ saved.status = "REVOKING" =>
    \A id \in Given : savedSecret[id] = task

(* decryptAndDeleteUserData: once a task has succeeded, its passwords are  *)
(* neither in the running nor in the saved configuration, so that the next *)
(* revocation finds the names free.  (Unless the revocation brought no     *)
(* restart: nobody deletes them then.)                                     *)
SecretsAreRemoved ==
  Succeeded /\ ~revoked => \A id \in SecretId : task \notin {secret[id], savedSecret[id]}
=============================================================================
