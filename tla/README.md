# Declarative Onboarding in TLA+

F5 Declarative Onboarding (DO) takes one JSON declaration, posted over REST, and
brings a BIG-IP to the configuration it describes: licensing, provisioning,
networks, users, clustering. This directory holds TLA+ models of that program,
translated from the JavaScript under `src/`, the TLC configurations that check
them and the theorems TLAPS proves about them. Paths under `lib/` and
`nodejs/` are relative to `src/src/`, those under `docs/` and `examples/` to `src/`.

## 1. The system

### 1.1 Components

| Component | Source | State it keeps | Operations |
|---|---|---|---|
| REST worker | `nodejs/restWorker.js` | `bigIps`, the promise chain of each task, two listeners on the event emitter | `onPost`, `onGet`, `onDelete`, `onStartCompleted`, `onboard`, `save`/`load`, `handleStartupState` |
| Task table | `lib/state.js` | `tasks`, `mostRecentTask`, `originalConfig`, in memory and in rest storage | `addTask`, `updateResult`, `setCurrentConfig`, `setRebootRequired`, `deleteOriginalConfigByConfigId`, retention, upgrade of older tables |
| Declaration handler and diff | `lib/declarationHandler.js`, `lib/diffHandler.js`, `lib/declarationParser.js` | none across calls | `process`: parse, apply defaults and fixes, diff against `currentConfig`, run the handlers in order |
| Configuration manager | `lib/configManager.js` | `currentConfig`, `originalConfig` of a task | `get`: read every item of `configItems.json` from the device, record the original configuration |
| System handler | `lib/systemHandler.js` | rollback info of the device certificate | DNS, NTP, users, licensing and revoking, device certificate, disk resize |
| Network handler | `lib/networkHandler.js` | none | trunks, VLANs, self IPs, routes, tunnels, routing; deletes and re-creates what depends on a self IP |
| Delete handler | `lib/deleteHandler.js` | none | deletes what the diff says, class by class |
| Clustering handler | `lib/dscHandler.js` | none | config sync, device trust, device groups, joining a cluster |
| Other handlers | `lib/{analytics,auth,dag,gtm,provision,deprovision,securityAnalytics...}Handler.js` | none | serial iControl REST calls |
| License secrets | `lib/cryptoUtil.js`, `nodejs/restWorker.js` | encrypted values on the device under two fixed identifiers | encrypt before a revoke, decrypt and delete after the restart |
| Reboot and platform utilities | `lib/doUtil.js` | none | `rebootRequired`, `waitForReboot`, `getCurrentPlatform` |
| BIG-IQ flow | `nodejs/restWorker.js` | a TCW task identifier | `passToTcw`, `pollTcw` |
| Inspect | `lib/inspectHandler.js` | the result of one request | `process` with a timeout |
| Validators, responses, tracing, fetches, schemas | `lib/*Validator.js`, `lib/*Response.js`, ... | none | validation, formatting, I/O |

The device itself, `f5-cloud-libs` (`BigIp`, `tryUntil`) and the REST framework
(`saveState`, `loadState`) are outside `src/src`; they are modelled from how the
code uses them and marked external in `PROJECT.json`.

### 1.2 How they interact

* A POST starts a promise chain in the REST worker. Nothing makes a second POST
  wait: the chains of all tasks interleave at every `then`, and share the task
  table, the device and one event emitter.
* `onboard` calls the declaration handler, which calls the handlers one after
  the other; a rejection anywhere starts the rollback, which is a second
  `process` with the configuration the task read when it began.
* The system handler talks *back* to the worker through events, twice:
  `LICENSE_WILL_BE_REVOKED` is answered by `READY_FOR_REVOKE` once the worker has
  saved the configuration and the status REVOKING; `REBOOT_NOW` is answered by a
  reboot. The handler waits 30 seconds for the first and for ever for the second.
* A restart of restnoded (which a revoke causes) or of the device (which DO asks
  for) loses every chain; `load` and `handleStartupState` go on from rest storage.

### 1.3 What is hard

* **Restarts in the middle.** The program restarts itself on purpose (revoke,
  reboot) and by accident. What was saved when decides what happens next.
* **Two actors, one status.** The task's chain and the revoke listener both write
  the status of the same task, and neither waits for the other after the timeout.
* **Whole-table saves.** Every save writes the half-done updates of every chain.
* **Partial failure.** Any handler may fail after others have written; a status
  may be set in memory and never saved.
* **Concurrent tasks.** Each diffs against what it read; each may roll back to it.
* **Promises nobody waits for.** The disk resize, the deletion of a VXLAN profile,
  the save during startup, and all chains of a `Promise.all` after one has rejected.
* **Several devices.** In a cluster each device runs its own handler at its own pace,
  and uses lists of devices it read some calls ago.
* **Three forms of one thing.** What is declared, what is sent and what is read back
  differ (order, prefixes, defaults, moved VLANs); the diff compares them.

### 1.4 What makes each component correct

* REST worker: OK means applied and saved; an answered client is never
  contradicted by a restart, and one whose body could not be read has nothing done for it; a license is revoked at most once and only when the
  restart is survivable; a task that says it was rolled back was; every accepted
  task settles.
* Task table: a task in storage only moves forward; a task in use is not retired;
  old tasks are.
* Declaration handler, diff and configuration manager: applying the same
  declaration twice changes nothing the second time; what a declaration leaves
  out returns to its original value; the original configuration is recorded once
  and survives every declaration until it is deleted.
* Network and delete handlers: what is deleted to change something else is
  created again; no item is deleted while another one refers to it; retained
  items stay.
* Clustering: no device throws a member out of a group while others join it; the groups
  end as declared, with the owner's configuration; nobody waits for ever.
* Device certificate: a certificate keeps its key, is loaded once written, and comes
  back when the task fails.
* Fixes before the diff: a declaration that has been applied looks like the device, so
  that posting it again changes nothing.
* License secrets: a password can be decrypted whenever a resumed task needs it,
  and none is left behind.
* BIG-IQ flow, inspect: the outcome reported is the outcome reached.

## 2. The modules

| Module | Models |
|---|---|
| `RestWorker` | the REST worker on a BIG-IP, with the task table, the revoke and reboot conversations, restarts and the device |
| `TaskPromise` | abstract: the life of a task as its clients see it; `RestWorker` implements it |
| `ConfigEngine` | what a declaration does to the device: the original configuration, defaults, diff, handlers, rollback |
| `Network` | the network and delete handlers call by call, against a device that refuses dangling references |
| `SystemHandler` | the device certificate and the license, with the restarts both bring about |
| `Cluster` | the clustering handlers of several devices |
| `Reposts` | declarations one after another through the fixes of the declaration handler; composes the five modules below |
| `RouteDomains`, `PolicyFixes`, `GslbFixes`, `ManagementFixes`, `AuthFixes` | fixes, handlers and readings of classes, as operators; `Absence` has what is left out |
| `BigIqTask` | a POST on a BIG-IQ: the task, the TCW and the second task it starts |
| `MCRestWorker`, `MCConfigEngine`, `MCNetwork`, `MCSystemHandler`, `MCCluster`, `MCReposts` | devices, declarations and symmetry for TLC |
| `RestWorkerProofs` | theorems about `RestWorker`: revocation, clients, device |
| `ConfigEngineProofs`, and on it `ConfigEngineDeviceProofs` | theorems about `ConfigEngine`: the original configuration, the device |
| `NetworkProofs`, `SystemHandlerProofs`, `ClusterProofs`, `RepostsProofs`, `BigIqTaskProofs` | theorems about one module each |

The modules divide the program by depth. `RestWorker` has the whole promise chain and no
content; `ConfigEngine` has content of any class and no calls; `Network`, `SystemHandler`
and `Cluster` have the calls of one handler; `Reposts` has the content of single classes in
the detail in which the code tells configurations apart. Where a deeper module needs the
chain around it (rollback, resumption) it has that part of it.

### 2.1 RestWorker

One **task** is one POST. `pc[t]` names the await at which the task's promise
chain is; an action is the code from one await to the next, so two chains (and
the listeners) interleave exactly where node may switch. A status update and the
save that follows it are one action: only a restart reads the storage, and a
restart between the two looks like a restart before both.

| Variables | Code |
|---|---|
| `mem`, `mostRecent` | `this.state.doState` in memory |
| `stored`, `storedRecent` | what `saveState` wrote last |
| `pc`, `ctx` | the chain and its closure (`resumed`: started by `handleStartupState`; `bigIp`: `this.bigIps[taskId]`; `handler`, `rollbackTo`: the variables of `onboard`) |
| `waiter`, `revPrep`, `rebPrep` | the READY_FOR_REVOKE listener; progress of the two listeners of `onStartCompleted` |
| `device`, `sysConfig`, `rebootPending`, `rebootIssued`, `diskCommand`, `servicesBounce` | the running and the saved configuration, the REBOOT REQUIRED prompt, `bigIp.reboot()` called, the un-awaited resize, the restart a revoke causes |
| `response`, `webhooks` | what each client was told: the status of its task, or that its body could not be read |
| `revokes`, `found`, `faults` | history: calls of `revokeLicense`, the configuration a POST met, restarts so far |

A declaration is five flags: async, webhook, dryRun, revoke (`revokeCurrent`, or a
reachable `revokeFrom`), disk (resizes /appdata). The device's configuration is three
sections, each a value naming *whose* declaration it follows: what the system
handler writes before licensing, the size of /appdata, and the rest. Two owners
per section are enough to tell "applied", "rolled back" and "overwritten by
another task" apart, which is all the properties ask.

| Actions | Code |
|---|---|
| `PostUnreadable` | `onPost` 199-210: a body that is not JSON |
| `Post` .. `InitBigIpFails` (`Accept`) | `onPost` 187-365, with its two outer catches |
| `GetConfig` .. `FailOnboard` (`Onboard`) | `onboard` 476-523 with `DeclarationHandler.process`, `handleLicense`, `handleDisk` |
| `RollbackGet` .. `FailRollback` (`Rollback`) | the catches of `onboard` 509-557 |
| `FinalSave` .. `PostWebhook` (`Finish`) | `onPost` 366-408, `setPostOnboardStatus`, `rebootIfRequired`, `postWebhook` |
| `PrepSave` .. `PrepFails` (`Listener`) | the listeners of `onStartCompleted`, `prepForRebootResumeOrRevoke` |
| `Startup` | `load`, `handleStartupState`, `updateStateAfterReboot` |
| `ServiceRestart`, `DeviceReboot`, `DiskCommandEnds` | environment |

A body that is not JSON, under a content type that does not say it is, is the one POST that
is answered without a save (`PostUnreadable`). Its task is in the table in memory, as the
most recent one, with the status ERROR. Storage learns of it only if another
chain saves the table before a restart forgets it; a restart of the worker then finds a most
recent task that is settled, and resumes nothing. `response` has a value of its own for its
client, "unreadable", because what may be said of it differs: it need not be on record.

`Faults` chooses what may go wrong: `step` (any awaited call, or handler, rejects),
`save` (rest storage refuses a save even after `tryUntil`), `timeout` (the 30
seconds of `waitForRevokeReady`), `crash` (restnoded restarts), `power` (the
device restarts unasked). Restarts that a revoke or a reboot causes need no fault.

### 2.2 TaskPromise

Two variables, `phase` and `answer`. A task on record moves from *absent* to
*working* to *ok* or *failed*, never back; a client is answered at most once, and
never with more than is recorded. A request may also be *refused* (unreadable): nothing is on record then,
and all that may ever be recorded of it is that it failed. `RestWorker` implements it with the phase read
from rest storage: restarts, failed saves and everything the device does are
stuttering steps.

### 2.3 ConfigEngine

`RestWorker` follows the promise chain and has a configuration that only says whose
it is. `ConfigEngine` is the other half: the chain is reduced to its stages, and the
configuration has content. A *section* maps items to values: the named objects of a
class such as VLAN, the properties of a nameless class such as NTP, or database
variables. One module (gtm, say) can be provisioned, and the classes in `NeedsModule`
exist only with it.

| Variables | Code |
|---|---|
| `device` | what iControl REST reads and writes |
| `original` | `doState.originalConfig[machineId]` |
| `cur`, `taskOrig` | `currentConfig` and `originalConfig` of each task |
| `target` | the parsed declaration after `applyDefaults` |
| `stage`, `rolling`, `result` | the handler whose turn it is, in which of the two `process` calls; the outcome |
| `found`, `alone`, `prev`, `last`, `raced`, and the field `base` of `original` | history |

The four kinds of classes differ in the code. `named`: the diff updates single objects
and `deleteClass` removes single objects or all. `gslb`: deleted by
`getGSLBClassTransaction`, which does not understand "all". `nameless`: written as a
whole when anything differs, never deleted. `db`: like `nameless`, and read only where
`dbVarsOfInterest` says so.

| Actions | Code |
|---|---|
| `Post` | `onPost`, up to the call of `onboard` |
| `Read` | `getAndSaveCurrentConfig` and `process` up to the handlers |
| `Handle`, `HandlerFails` | one handler of `makeUpdates`; a rejection after the writes of some classes |
| `RollbackRead`, `Verify`, `ReadFails` | the catches of `onboard` |
| `Finish` | `setPostOnboardStatus` |
| `Delete` | `onDelete` |
| `Restart` | `load`, `handleStartupState`: the most recent task is taken up again |

The get at the beginning of a task and the diff are one action: the diff looks only at
what the task itself has read. The original configuration is shared: every get reads
and writes it in one synchronous piece of code. On its first get a task has one object
for `currentConfig` and `originalConfig`, and `removeEmptyObjects` on the former takes
the empty classes out of the latter (`Unaliased`); the table has a copy.

Two facts about the device are assumed, and marked external: it refuses objects of a
module that is not provisioned, and deprovisioning removes the objects of a module.
Properties and variables always have a value, and a declaration sets only those that
exist. There is a class, so that handlers are called at all, and the classes deleted in
the manner of GSLB are among those that need a module, as in `lib/configItems.json`.

### 2.4 Network

A handler is a *plan*: steps in a fixed order, each of which starts chains of calls that
run at once. A call is a transaction of commands on objects; it is accepted when no
object is left without another it refers to, is not created twice, and so on (`Accepted`,
the device, external). `Promise.all` waits for all chains or for the first that rejects;
the others go on (`loose`), and so does what is not awaited at all. The same plan is run
for the declaration and, after a rejection, for the configuration that was read.

| Variables | Code |
|---|---|
| `device` | the objects on the device |
| `want`, `cur`, `doomed` | the declaration after the fixes, `state.currentConfig` (which the handlers change), what the diff deletes |
| `phase`, `pc`, `mem` | which `process`, which step of the plan, the local variables of `handleSelfIp` |
| `group`, `loose` | chains of calls that are, and are not, waited for |
| `before`, `declared`, `faults`, `late` | history |

`Apply` and `RollBack` are `declarationHandler.process`; `Begin` is the synchronous code of
the next step that has work; `Perform`, `Reject`, `PerformLoose` are calls that return. An
object has what can be modified in place, what cannot, a subnet and its references.
Left out: GSLB and authentication (in `Reposts`), members of route domains
(in `RouteDomains`), the partition of a route. A retry is a call that takes longer.

### 2.5 SystemHandler

The device certificate is four files (certificate, key, two lists of trusted
certificates), each with an original and a backup copy. `handleDeviceCertificate` runs
the copying of originals and the chains of certificate and key at the same time; each
shell command is one action. The license may be revoked, which restarts the worker; the
passwords it needs afterwards are encrypted under two fixed names, saved, decrypted
and deleted.

| Variables | Code |
|---|---|
| `pc`, `rolling`, `dropped` | the await of `onboard`; the rollback; `revokeFrom` taken out of the resumed declaration |
| `state`, `saved` | the entry of the task in memory and in rest storage |
| `file`, `orig`, `bak`, `served` | the files, their copies, what httpd has loaded |
| `store`, `crt`, `key`, `writing` | the promises of `handleDeviceCertificate` |
| `wrote`, `info` | `this.rebootRequired`, `this.rollbackInfo` |
| `secret`, `savedSecret`, `listener`, `creating`, `deleting` | encrypted values in the running and the saved configuration; the calls about them |
| `revoked`, `resized` | the services will restart; the disk has its size |

The other handlers are the steps `earlier` and `later`, which may fail. Assumed: DO runs on
the BIG-IP, one task at a time, and what a failing handler has under way ends before
the rollback comes to that handler.

### 2.6 Cluster

Every device of `case.active` runs `DscHandler.process` with the same declaration. `pc`
names its await, `turn` the group it is about, `converted` the result of
`convertToHostnames` and `seen` the list it read last: both are old when they are used.
`trust`, `groups`, `config` are what the devices know of each other; that devices which
trust each other share groups, and what `joinCluster` does, is external. Addresses are
hostnames, management or config sync addresses of a device.

Left out: failover unicast and multicast, mirror addresses, MAC masquerade, and the
rollback. `waitForDeviceGroup` (`lib/dscHandler.js:432-447`) retries only when the group is not
there; a rejection of the call leaves its promise unsettled, which is the state `hung` of
`Fails`. (So does an answer that is no list in `isRemoteHost`, 449-469, not modelled.) A device that joins after the traffic group is written is not in the
failover order of the others (581-618), hence "its own" in `DoneIsMember`.

### 2.7 Reposts

A behaviour picks a *kind* of classes and posts declarations of it, one after another,
each of which may succeed, fail later or fail in the rollback. The actions are `onboard`:
`Post` (the first get), `Fix` (parse, defaults, fixes), `Update` (diff and handlers),
`RollbackRead`, `Rollback`. What the kinds do is in their modules:

| Kind | Module | Code |
|---|---|---|
| network | `RouteDomains` | defaults, the fixes of route domains and their VLANs, the handlers of both |
| access, bgp, firewall, waf | `PolicyFixes` | `applyRoutingAccessListFixes`, `applyRoutingBgpFixes`, `applyFirewallRuleFixes`, `applySecurityWafFixes`, `handleSecurityWaf` |
| gslb | `GslbFixes` | fixes, handlers and readings of GSLB globals, servers, virtual servers, pools |
| management | `ManagementFixes` | DHCP, address, routes and host name of the management interface |
| auth | `AuthFixes` | RADIUS and LDAP, with the delete handler and the certificate file |

`shared` says that the task's original configuration is the object it has read, which is
so for the first one only; a fix that writes into one then changes the other. What the
device makes of what it is sent (the VLANs of the default route domain, masks, `none`) is
external.

### 2.8 BigIqTask

The outer task is the chain of `onPost` behind `passToTcw`; `pollTcw` is `tryUntil` with
`MaxRetries`. The inner task is a second chain of the same worker, here in three steps,
which leaves its device under the identifier of the outer one (`hasBigIp`). The TCW is
external: it starts the inner task, takes over its outcome, may give up by itself or hang.
Replies and polls may be lost. What is saved and restarts are in `RestWorker`.

## 3. What is checked

| Run | Instance | Shows |
|---|---|---|
| `worker_one` | one task, every declaration, all faults but the timeout, two restarts | types; OK is applied and saved; answers are durable, but for the refusal of an unreadable body, whose task is never more than an error; the revoke happens at most once and is prepared; a rollback restores; the refinement of `TaskPromise` |
| `worker_two` | two tasks, sync or async, one crash, failing saves | the refinement when the chains of two tasks save over each other |
| `worker_revoke` | two tasks that both revoke, timeout | restarts in the middle of a revoke and waits that time out: nobody revokes twice (that one chain is released by the other's event is in section 5) |
| `worker_live` | one task, crashes and power losses, fairness | every accepted task is reported OK or ERROR |
| `engine` | three declarations of five, one after the other, two faults, one DELETE | what is mentioned is applied, what is omitted goes back to its original value, rollbacks restore, repetitions change nothing, the original configuration is the device's own and kept |
| `network` | pairs of configurations of four families, one failing call | everything is applied or undone; the device refuses nothing |
| `cluster` | three devices, seven families of declarations, one failure | nobody is thrown out of a group; groups, owner's configuration and failover order are as declared; everybody finishes |
| `system` | ten sequences of one or two declarations, two failures or restarts | certificate and key stay a pair, are loaded or restored; passwords are there while needed and gone afterwards |
| `reposts` | every sequence of declarations of each kind | declarations are met, repeated ones are quiet, failed ones undone |
| `bigiq` | one client, four failures | the TCW's verdict is what the client is told, and it is told |
| `error_overwritten`, `dhcp_turns_off` | findings | see section 5 |

### 3.1 Bounds

*REST worker.* One task reaches every await, and every pair of an await with a
restart; the second restart is needed because a resumed chain can be interrupted
again. A third restart adds nothing that storage does not already hold after the
second. Two tasks suffice for the properties about one task disturbed by others:
the other one stands for any interference, and every shared variable
(`mostRecent`, `waiter`, the table) holds one task. `MaxFaults` bounds only
restarts nobody asked for; those the program causes are not bounded.

*Engine.* Three tasks are needed: one that comes before a variable is first mentioned, one
that sets it and one that leaves it out (with two, a get that never completes the original
configuration is not caught). Two faults are a failure and a failing rollback, or a
failure and an interruption of the next task. Its five declarations create, change,
keep and delete an object of each class and provision, keep and drop the module; each
combination of "before" and "after" of one item occurs with two items and two values.
`MaxActive` is 1 because its properties speak of tasks that ran alone: what two tasks at
once do to the device is not specified by anything in the repository. What they do to
the original configuration (`lib/configManager.js:525`) is in no run; it is a theorem (`RecordIsKept`,
`RecordIsFaithful`, section 4), for any number at once, and so is what a
task that runs alone does after them; except for `RollbackRestores`, which fails with two: they can
leave a class empty that the original configuration has objects of, and when a later task that
runs alone is rolled back, `applyDefaults` takes the empty class for one left out and
brings those objects back.

*Network.* The device before and the declaration are members of one family: self IPs on
two subnets with a route and the config sync address; tunnels with both sorts of
profiles, a self IP on one, a resolver in a route domain; a BGP on a map on a list;
lists with a policy, a trunk with a VLAN. All pairs of a family occur, so each object
comes, goes, changes in place and changes so that it must be replaced, in all
combinations with what it depends on. One failing call reaches every prefix of the handlers;
a second one only interrupts the rollback, of which nothing is promised.

*Cluster.* Three devices are two that may agree or not and a third that joins, leaves or
is replaced; two groups show which group a step is about. One failure is enough to leave
a device where it is while the others go on.

*System.* Two tasks, because the copies of originals and the fixed names of the passwords
matter to the second; two faults, a failure and one in the rollback, or a restart during
the resumption of another.

*Reposts.* The number of declarations is not bounded; the sets of names and values are,
with two of everything that is compared and three route domains (one is the default).

*BIG-IQ.* 384 and 360 polls are 5 and 3: the polling outlasts the TCW by two, so that two
lost polls are survived and three are not; `BigIqTaskProofs` has all numbers.

Deadlock is not checked (`CHECK_DEADLOCK FALSE`): when all tasks are done and
nothing restarts, the system rightly stops. For `cluster` and `bigiq`, where waiting for
one another is the question, the liveness properties ask it.

### 3.2 What the properties except

Each exception is a behaviour TLC found in the code; it has a name in the model, and a
hazard with its line.

*REST worker.* The invariants about the device hold for one task only: two concurrent
tasks overwrite each other's configuration, and nothing in the code prevents it.
`RevokeIsPrepared` is checked without the timeout for one task; with it a
listener of the *first* attempt may still be running, and with two revoking tasks it is false
without any fault: the most recent one is the only one a restart looks at, and one is released by the
other's event (section 5). `AnswerIsDurable` excepts the client whose body could not be
read (section 2.1).

*Engine.* `RollbackRestores`: variables the failed declaration does not mention (the
rollback may not have read them), and a GSLB class that had no objects before.
`OmittedIsOriginal` and `OriginalIsNotOurs`: classes that need a module, whose
original value is taken after the handlers ran, and histories with a DELETE during a task.

*Network.* `RollbackRestores` and `NothingIsRefused` except lists that are declared under
both of their names, or deleted: the task takes them out of what it will roll back to
(`LosesList`). `NothingIsRefused` also excepts self IPs whose traffic group or subnet
changes together with others (`KeepsSelfIps`), and tunnels that are replaced under a self
IP (`KeepsTunnels`): there the device does refuse, and the declaration fails.

*Cluster.* Members given by an address that was not trusted before are lost from the list
by which a device prunes (`KnownMembers`; `docs/clustering.rst:163` allows addresses). `MembersStay` also excepts the one step in which
a device itself joins another domain, and gives up its groups for those it finds there. An
owner given by an address, with members given by hostnames, does not recognise itself, and
all wait for it (`Recognisable`; `lib/dscHandler.js:518-561`, `docs/clustering.rst:194`).
Without a DeviceTrust all groups get the members and owner of the last (`SameForAll`;
lines 214-235).

*System.* The originals are copied while the new files are written
(`lib/systemHandler.js:1395-1421`), so that a copy may be of the new file
(`OriginalsAreIntact`; against `docs/declarations/auth.rst:103`). A handler that
fails takes the rollback information with it, and the device gets its first certificate
rather than the last. `PairMatches` takes a task that leaves the files alone (`Skips`), or is
rolled back, to leave a pair only if it found one and was not resumed: the proof showed that
a rollback also brings back a mismatch that an earlier failure left, and that a worker that
restarts amid a rollback may leave one to a resumed task that skips the certificate. A task resumed after it wrote the files does not reboot, nor write the
trusted lists (against `auth.rst:101` and `106`). A resumed task with a license
pool and a disk always fails: it decrypts what was never encrypted
(`nodejs/restWorker.js:1355-1364`, `1405-1432`).

*Reposts.* `Noisy` names declarations that differ from their own effect at every POST:
route domains read otherwise than declared, masks under a bare `::`, destinations without a
prefix, WAF declarations with one of two properties, virtual servers without translation,
`preserveOrigDhcpRoutes` alone, RADIUS servers that stay. `Stuck` and `Rewritten` name
VLANs that stay in, or go to, the default route domain; `LeaseReturns` and `LeaseGivenUp`
declarations in which DHCP is asked for and refused by another class
(`examples/managementIp.json` is of this sort). The first WAF declaration writes the
original configuration it works on (`shared`). `ManagementRestored` and `AuthRestored` say what a
rollback leaves. Clients are taken not to list a VLAN of another partition in two domains.

*BIG-IQ.* `VerdictIsReported` speaks of the first outcome that is recorded. When the
configuration cannot be read afterwards the outcome is overwritten and the response sent a
second time (`ReadFails`).

### 3.3 Fairness

`worker_live`: weak fairness of each chain and each listener is node's
event loop together with calls that return or reject; `Startup` is the REST
framework calling `onStartCompleted`; a reboot that was asked for comes. Nothing is
assumed of POSTs, crashes or the end of a resize. The run leaves out `step` faults
and resizes, because there the property fails: a task that is interrupted while
ROLLING_BACK is never taken up again, and a reboot that always beats the un-awaited
resize starts the next resize. Both are listed as hazards.

`cluster`: weak fairness of each device's handler, for the same reason. Nothing is assumed
of failures; after one the property asks nothing, since others may wait for the device.

`bigiq`: weak fairness of both chains and of the TCW, which loses it when it hangs
(`TcwHangs` disables its steps). The answer comes all the same: the polling ends.

Every property has a mutant in `PROJECT.json`: a plausible bug in a mapped
definition (a save before the update, a revoke that does not wait, ...) which the
same run must catch. The mutants are the operators marked `Mutant` in the modules.

## 4. What is proved

`RestWorkerProofs` proves, for every set of tasks and declarations, every choice of
faults and any number of restarts, from `ConstantsAssumption` alone:

* `TypeCorrect`: `Spec => []TypeOK`.
* `RevokeInvariant`: `Spec => []RevokeInv`.
* `AtMostOneRevoke`: `Spec => []RevokeAtMostOnce`.

`RevokeAtMostOnce` is not inductive: nothing in it stops a chain that has revoked
from being started again. `RevokeInv` adds why that is harmless. A task that has
revoked is on record in memory *and* in storage, so no POST takes its identifier
again and no restart forgets it; the only way back to an await before the license
step is a startup, which removes the revoke from the declaration; and a chain waits
to revoke only if its declaration says so. While restnoded is down the memory that
startup will see equals the storage. The proof has a step for every action; most
follow from two lemmas, one for chains that move past the license step
(`ChainMoves`) and one for listeners (`ListenerMoves`), given that the action takes no
task out of the table and touches no declaration (`Kept`).

`ConfigEngineProofs` proves, for every set of tasks, classes, items, values, devices and
declarations and without any bound on tasks at once, failures, restarts and DELETEs, from
`EngineAssumption` alone:

* `TypesHold`: `Spec => []TypeOK`. The types are inductive together with `Shape`: a task is
  past its reading only with a configuration, and in a handler only with a target.
* `RecordIsKept`: `Spec => OriginalIsKept`. This follows from one step of `get`
  (`KeptByGet`): a value on record is kept, what is missing is filled in.
* `RecordIsFaithful`: `Spec => []OriginalIsNotOurs`.

The last needs an inductive invariant, `RecordInv`. A get may add a database variable to the
record long after the first declaration; it would add a value of DO's own making if an earlier
handler had set that variable. `RecordInv` says that this cannot be: the variables in
every target are on record (`TaskOnRecord`) because the get before it read them, so that
a variable that is *not* on record has not been written since (`Faithful`), even by another
task. That get finds every variable a declaration sets because the device has them all
(`HasVariables`, the assumption about properties and variables of section 2.3). After a DELETE
in the middle of a task the record is gone while a target lives on; hence `raced`.

`ConfigEngineDeviceProofs` proves what this comes to on the device, from `EngineAssumption`:

* `DeclaredIsApplied`, `OmittedIsReset`: `Spec => []MentionedIsApplied`,
  `Spec => []OmittedIsOriginal`; `RepeatIsQuiet`: `Spec => SecondPostIsQuiet`. They hold for
  any number of tasks at once; the properties are about the tasks that ran alone.
* `RollbackIsExact`: `Spec => []RollbackRestores`, if `OneTask` and `NamedModules`: tasks run one
  at a time (section 3.1 has what happens otherwise), and the classes that come with a module
  have named objects. The values of a nameless one (Analytics, with avr) go when the module
  does, and are not among what the rollback of a declaration that provisions it has read.

The invariant of the first three, `AppliedInv`, follows a value from the record to the device and
back. No step adds or drops a property or variable, on the device, on record or in a
target (`ItemsStay`); the record has what was there when it was made (`RecordIsWhole`); a task that
has not failed aims at its declaration, filled in from its copy of the record (`Aims`); class after
class, in the order of the handlers, the device comes to what the diff says (`Follows`), so that
at the end the target is in force, and stays so until the same declaration is read
again (`Settled`); its handlers then have nothing to do (`Quiet`). `RestoredInv` adds that a task that
runs alone has read what was there (`ReadsFound`), that what it rolls back to is that and nothing more
(`RollsTo`), and why the defaults do no harm: a class that a task found empty is empty on record
(`EmptyAtFirst`), because no declaration empties a class of named objects that had some
at first (`DeviceKeepsSome`, `TargetKeepsSome`).

`BigIqTaskProofs` proves, for any `MaxRetries`, any `TcwTimeout` up to it and any number of
failures, from `BigIqAssumption` alone:

* `ReportsTheVerdict`: `Spec => []VerdictIsReported`.

The property is not inductive: it does not say why the polling may give up. `VerdictInv` adds
that every try either came before the TCW's time was over or was lost (`Counted`), so that
giving up after `MaxRetries` tries means a TCW that hangs or more than
`MaxRetries - TcwTimeout` lost polls; that an error which was recorded has one of five
reasons, each of which lasts (`ErrorHasReason`); and that a TCW task is finished only when
the inner task has ended well (`Sources`).

`RestWorkerProofs` also proves, for every set of tasks and any number of restarts:

* `AnswersAreDurable`: `Spec => []AnswerIsDurable`. Whoever was told a status is on record; a task
  whose body could not be read is absent from storage, or an error.
* `PromiseKept`: `Spec => KeepsPromise`, the refinement of `TaskPromise`.

Both have the hypothesis `RevokesAlone`: no declaration revokes, or there is one task and the
30 seconds of `waitForRevokeReady` are not among the faults. It is needed: with two tasks
that revoke, or one and the timeout, a listener writes REVOKING over a status that was
final, and TLC shows `KeepsPromise` violated. The invariant (`PromiseInv`) compares memory and
storage: since any chain saves the whole table, a step may replace the record of *any* task
by its status in memory, so that status must always be one the record may go on to
(`StoredIsEarlier`), while the await of each chain fixes what its status can be (`StatusAtAwait`).
Of a refused client it says (`Answered`) that its task is an error in memory, until a restart
forgets it, and absent or an error in storage, so that no save of another chain can make it more.
Every action is shown to be a `PromiseStep` (each record stays or becomes the memory's, at most one
client is answered, with what storage says (`Answers`) or, before anything is on record, that its body
cannot be read (`Refuses`)), and a `PromiseStep` to be a step of `TaskPromise`.

Its second half proves, for one task and no timeout (`OneTask`), whatever the
declaration, the failures and the restarts:

* `AppliedWhenOk`: `Spec => []OkIsApplied`.
* `RestoredWhenRolledBack`: `Spec => []RolledBackRestores`.
* `PreparedWhenRevoking`: `Spec => []RevokeIsPrepared`.

Two tasks overwrite each other's configuration, and after a timeout the chain and its listener
save side by side; TLC has counterexamples for both. `DeviceInv` says at each await whose
sections the running and the saved configuration have (`Writes` on the way to success, `Reads`
and `RollsBack` on the way back), what a task found that was not resumed (`Finds`), and
what the listener has saved by the time it answers (`Prepares`). A restart of the device puts the
saved configuration in force, so most of the work is to show the two agree, or that the
chain will write again.

`SystemHandlerProofs` proves, for every sequence of declarations, every interleaving of the
shell commands and any number of failures and restarts, from `SystemAssumption` alone:

* `TypeCorrect`, `RevokingResumes`, `SecretsAreGone`: `Spec => []TypeOK`,
  `[]RevokingIsResumable`, `[]SecretsAreRemoved`.
* `PairsMatch`, `RollbackRestores`, `WrittenGetsLoaded`, `TrustIsUpdated`:
  `Spec => []PairMatches`, `[]RollbackRestoresFiles`, `[]WrittenIsLoaded`, `[]TrustFollows`.

`TypeInv` adds to the types that certificate promises are under way only in that handler and
that what can be rolled back has a backup. `TaskInv` is about the entry and the passwords: which
status goes with which await, when the listener is late (`ListenerIsLate`), that only a task
that is revoking has passwords (`OnlyRevoking`), both of them by the time storage says so (`Prepared`). `FileInv` is
about the files. A task that has not been restarted has in `rollbackInfo` exactly the files it has
changed, with what they were in the backups (`Recorded`), and a file whose promise has not come
to its copy is not among them yet (`NotYet`); one resumed after a revocation before it wrote
anything else finds everything done (`Again`); one that is past the certificate has what it
declares (`HasMet`), and the services have loaded it or will (`HasLoaded`); a rollback has what it
needs (`CanUndo`) until it has done its work (`RollsBack`).

`ClusterProofs` proves, for every number of devices and groups, any number of failures and
every interleaving of the handlers:

* `TypeCorrect`: `Spec => []TypeOK`, with which awaits a handler can be at with which
  declaration.
* `MembersAreKept`: `Spec => MembersStay`, if `Orderly`.
* `DoneAreMembers`: `Spec => []DoneIsMember`, if `Orderly` and `Rooted`.
* `GroupsEndAsDeclared`: `Spec => []GroupsAsDeclared`, if also `Owned`.
* `OwnersAreCopied`: `Spec => []OwnerIsCopied`, if also `Led`.

`Orderly` says that a declared remote host, when some devices trust each other already, is one of
them. Without it a member that is declared by its management address is known to the devices of
its old domain and not to those of the remote host's, and is thrown out; TLC has this with three devices.
A device prunes by two lists, both old: what `convertToHostnames` gave, and the members it listed.
`KeepInv` says that nobody is missing from the first whom all handlers know (`Knows`), because
trust among those who were there before only grows (`Inside`), and a device outside of it is
alone in its groups (`Outside`); and that the devices of a domain share trust and groups
(`OneDomain`). That the names of groups differ (`ClusterAssumption`) is due to groups being
properties of an object.

The other hypotheses are about what a declaration must say to mean anything; every case of
`MCCluster` meets all four. TLC finds each property violated without the hypothesis that it adds:

* `Rooted`: the first group is owned by the remote host or a device that trusts it; without a
  remote host the devices trust each other. Otherwise the owner makes the first group in a domain
  of its own, and leaves it when it joins the remote host for the second: its handler resolves
  without it. (The half without a remote host is for the proof only: nothing was found without it.)
* `Owned`: whoever was trusted before is given the declaration, or the owner of the group is,
  and recognises itself. Otherwise nobody adds a device that does nothing itself.
* `Led`: a single group declared with a trust is owned by the remote host. Otherwise a device that
  joins after the owner has synced has the configuration of the remote host.

`EndInv` says of a handler that has *passed* a group (`Passed`: pruned it) that the group exists,
has whom it is to add (`Due`: itself, and for the owner those who were there before) and has lost
whom nobody else will take out (`Gone`: itself, and devices that run no handler). `Enters` carries
this from `areInTrust` and `convertToHostnames` to the prune, over what others do in between
(`OthersKeepEntry`); `Home` says that a handler is in the domain of the remote host before it deals
with a group, so that all who are done see the same groups (`DoneTogether`); `Leads` that the owner
finds itself, and so never waits for the group it is to create. `CopyInv` adds whose configuration
a device has: nobody's but its own or the remote host's (`StepConfig`).

`RepostsProofs` proves, for every kind of class, every device, any declarations in any number
and any failures:

* `TypeCorrect`: `Spec => []TypeOK`.
* `RollbacksRestore`: `Spec => []RollbackRestores`.
* `DeclarationsAreMet`: `Spec => []DeclaredIsMet`, if `AuthIsPlain`.
* `RepostsAreQuiet`: `Spec => RepostIsQuiet`, if `AuthIsPlain`.

`AuthIsPlain` says that before the first declaration LDAP has no certificate, and no servers of
RADIUS are there without its configuration. The first is read as a checksum, from which the file
cannot be written again; the second are read as a configuration, which a declaration that
leaves RADIUS out then creates. With either, TLC finds both properties violated.

The invariant, `Inv`, says what a task knows, wants and leaves in terms of four things: what it
found on the device, what it declares, what was there at first, and whether the last two are one
object. `DeviceInv` adds that what was there at first can go on being replaced (`Retained`);
`TaskInv` that at each await the variables are what the operators `Known`, `Wanted`,
`Outcome` and `Restored` say; `LastInv` that the last declaration would change nothing if it came
now (`Quiet`). The actions then have short proofs. The work is in the lemmas about the operators of
the five modules, a pair for each kind: what a task leaves (`NetworkOutcome`, `GslbOutcome`, ...)
is a device, meets the declaration and is quiet; what a rollback leaves (`NetworkRestored`, ...) is
what was there. Each goes back and forth between the three forms of a configuration. That the form
which is read, declared again and stored gives the same device (`NetworkStays`, `ServerStays`,
`AccessIsStored`, ...) is where the fixes must agree with what the device does: route domains
that take a VLAN from one another (`FirstClaim`, `PlacedOnce`), families that are sorted, the
members of a pool by their orders, a lease that comes or goes. What can be on the device at
all is part of this (`AccessDevice`, `GslbDevice`, ...): masks are set, the
members of a pool are counted from 0.

`NetworkProofs` proves, for every declaration, every order of the chains of calls under way and any
failures:

* `TypeCorrect`: `Spec => []TypeOK`, from `NetworkAssumption` alone.
* `HandlersApply`: `Spec => []Applied`, and
* `HandlersRestore`: `Spec => []RollbackRestores`, from `CasesAssumption` too.

`NetworkAssumption` says what the types need: finitely many items, and values that are
closed under `Profile` and `Outline`, the parts of a tunnel and of a list that are sent on
their own. `CasesAssumption` says which devices and declarations there are (`CaseFits`):

* on the device nothing refers to what is not there (`Sound`); objects without names (DAG
  globals, the management firewall and so on) are always there or never, so that a declaration and a
  device agree on them; the traffic control is there, and neither it nor DAG globals refer to
  anything;
* with AFM a list is there under both of its classes, and declared alike if it is declared in both;
  without, the first class of the two does not exist;
* only the tunnel of its name refers to a vxlan profile, and a profile is there when such a
  tunnel is;
* what the delete handler never deletes (`Retained`: route domain 0, the tunnels and the resolver
  a device comes with) is there from the start, and these tunnels have no profile;
* a self IP is local or floating, and at most one BGP is declared.

Most of these say what a BIG-IP is like. Two are about declarations: a second BGP is refused, so
that a declaration with two never gets to its end; of a list declared unlike under
its two classes the later one wins, and `Applied` does not hold. TLC evaluates `CasesAssumption` on
every case of the run.

The invariant, `HandledInv`, follows the plan of 55 steps. It has three parts for step n, given the
device as it *was* and the configuration it is taken *to*. `Is` says what each object is
before step n: what it was, nothing, or what is wanted, and where two are possible, which. `Remembers`
and `Reads` say the same of the variables of `handleSelfIp` and of `currentConfig`, which
`deleteClass` changes. `Owes` ties this to the calls under way: an object that is not what it
is to be is written by exactly one chain, whose last command on it makes it so. So the order in
which the calls of a step are answered does not matter, and neither does an answer that is late:
a chain goes on by one call and owes less (`Performed`, which rests on `OutcomeIs`: a transaction leaves an
object as its last command on it says, or alone); when no chain is left, each object is
what it is to be, and the next step finds it so (`Found`). `EveryStep` says of each of the 55
steps that the chains it starts owe what is to be before the next one; it is most of the proof,
since a step knows of the device only what the ones before have left: self IPs that go and
come back with their routes, lists under two names, tunnels around
their profiles. Steps with nothing to do are passed over as in `Begin` (`Skipped`). A chain that nobody
waits for (DAG globals, and the profile of a deleted tunnel) may be answered any time later, and the
device never refuses it (`LooseAccepted`), which nobody would notice. After the last step the
device shows the configuration (`FinalShown`). A rollback is one more pass from whatever the
first had come to; what it is given is what was read, but for the lists of `LosesList`
(`Restored`). The invariant is stronger than both properties because each speaks only of
the end, when it is too late to say which call is to blame.

What a transaction makes of the device, `Outcome`, is defined by recursion over its commands. For every
length of a transaction there is to be a function that satisfies
the equation (`OutcomeSteps`): a shortest one without would be that of the shorter one
with one command more (`Smallest`, the least element of a set of numbers), so there is none.

Only model-checked: liveness (`AcceptedSettles` and its like are outside the prover's reach), and
`NothingIsRefused` of `Network`. The invariant says what becomes of the calls that are accepted, not that
each is: for that every object's references would have to be followed through every step.

## 5. Findings

Two disagreements between the code and what the repository says of it have a run:

* `error_overwritten` (`nodejs/restWorker.js:575`): the revoke listener is not told
  that `waitForRevokeReady` timed out. If its `bigIp.save` ends after the rollback it
  writes REVOKING over the error, and the task is then reported OK although it was
  rolled back, against the comment "Don't overwrite the error state if it's there".
* `dhcp_turns_off` (`lib/systemHandler.js:215`): a declaration with `mgmtDhcpEnabled: true`
  (`examples/mgmtDhcpEnabled.json`) turns DHCP on; posted again it turns DHCP off.
  The second time the declared setting equals the device's, is not in the diff and is
  not looked at; what decides then is the management address and the routes as they were before
  the first declaration (`lib/declarationHandler.js:195-217`). Against
  `docs/declarations/network-objects.rst:406`.

One more has no run of its own; TLC finds it in `RestWorker` with two tasks that revoke and no
fault, when `RevokeIsPrepared` is reduced to `stored[t].status = "REVOKING"`. `waitForRevokeReady` (`lib/systemHandler.js:1517`) removes the
listeners of other tasks, and READY_FOR_REVOKE names no task: the one that waits last is
released by what was saved for the first, and revokes while storage has it as RUNNING and
its own configuration is not saved; against "services will restart and we need to know that's
what happened when this worker is restarted" (`nodejs/restWorker.js:105-106`).

Others are exceptions of the properties and hazards with their lines: a dry run on a device that
has a reboot pending reboots it; a resumed task posts no webhook; a database variable left out
while others are set keeps its value; the last GSLB servers stay when a declaration drops
them; a failed declaration may leave lists deleted; a certificate that a resumed task finds
written is not loaded; and those of section 3.2.

## 6. Not modelled, and the plan

Next, in this order:

1. `NothingIsRefused` of `Network` as a theorem: `HandledInv`, with the references of each object.
2. The fixes of HTTPD, DNS resolvers, failover unicast and prefix lists, in the manner of
   `PolicyFixes`.

Left out, and why:

* **Inspect** changes nothing and keeps nothing; its timeout and its chain resolve one
  promise, and the response is made in the same turn of the event loop. Its translation of a
  configuration to a declaration is formatting.
* **Responses, logging, tracing, schemas**: formatting, I/O and data whose content no
  property depends on. A fetch that fails is a failing step of `RestWorker`.
* **Retention by age** of the task table: it compares a clock with a week, longer than any
  behaviour here; the hazards name what is wrong with it. The upgrade of tables of older
  versions renames properties.
* **Users, SSH keys, DNS, NTP, SNMP, analytics, TACACS, remote roles, password policy**: each is
  one or a few calls in a fixed order that succeed or reject; `RestWorker` and
  `ConfigEngine` have them as failing handlers.
* **Initial account setup** beyond "it succeeds or rejects"; a failing `loadState`, after which
  the framework reports the worker as failed and nothing runs.
