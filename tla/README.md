# Verification of the branch onboarding

The repository automates a small WAN: it onboards branches (a FortiGate at the
site, two IPsec tunnels to a Palo Alto in the data centre, the addressing in
Nautobot) and operates Cisco switches. This directory holds TLA+ modules of it,
TLC configurations that check them, and theorems checked by TLAPS. Paths are
relative to `src/`, the root of the repository.

## 1. The system

| Component | State | Operations | Modelled in |
|---|---|---|---|
| Branch addressing (`src/branch/addressing.py`, `next_id.py`, `paloalto_contract.py`, `configuration.py`) | the ids a search has read and the one it has reached | plan, next free id, tunnel units | `BranchAddressing` |
| Nautobot reservation (`src/branch/provisioning.py`) | prefixes, addresses, VPNs, endpoints, tunnels, policies in Nautobot | reserve, release, ensure_reserved, enrich_reservation | `BranchInventory`, `BranchDeployment` |
| Branch deployment (`src/branch/deployment.py`, handlers in `src/web/app.py`) | candidates in memory, `generated/`, the progress of each request | plan a candidate, deploy_candidate, rollback | `BranchDeployment`, `BranchLease` |
| Palo Alto session (`src/devices/paloalto_manager.py`) | candidate and running configuration of one shared firewall | apply_configuration, destroy_configuration | `BranchDeployment`, `BranchLifecycle` |
| FortiGate session (`src/devices/fortigate.py`) | configuration of the site's firewall | apply, validate, validate_operational_state | `BranchDeployment` |
| Branch destroy (`src/branch/deployment_cleanup.py`) | progress of each request | destroy_branch_deployment, cleanup_nautobot_branch | `BranchLifecycle` |
| FortiGate registry (`src/devices/fortigate_manager.py`) | dictionary under a lock, SQLite rows | upsert, save, get, remove, load | `FortiGateRegistry`, `DeviceInventory` |
| Switch registry (`src/switch/devices.py`) | dictionary under a lock, SQLite rows written outside of it | upsert, remove, discover, discover_many | `SwitchRegistry`, `DeviceInventory` |
| Switch provisioning (`src/switch/provisioning/`) | candidates in memory | inventory, generate, adjust, deploy block by block | `SwitchCandidate`, `SwitchSessions` |
| Switch operations (`src/switch/cisco.py`, `service.py`, `batch.py`) | running and startup configuration of each switch | bounce, default, configuration of ports and host name, save; ping, health | `SwitchSessions`, `SwitchDiagnostics` |
| Backup and comparison (`src/switch/backup.py`, `configuration.py`) | files, local and remote | local, FTP, SFTP, TFTP backups; comparison | `ConfigurationDiff`; backups only as the step of a session that may fail |
| VPN allocation (`src/vpn/`, `src/ipam/nautobot.py`) | prefixes in Nautobot | allocate, allocate_with_rollback, topology | not modelled: no handler calls them |
| Golden compliance, IOS parsers, templates, pages | none | text in, text out | not modelled |

How they interact. The Flask server answers requests in threads. A candidate
(`POST /api/firewalls/provision/candidates`) asks Nautobot for the first branch
id no prefix carries, computes its plan and stays in a dictionary; it reserves
nothing. Its deployment makes the reservation (or accepts a complete one),
writes the artifacts under `generated/`, sends the Palo Alto its commands and a
commit, configures the FortiGate, and checks both. A destroy deletes the branch
from the Palo Alto, cleans Nautobot by name and address, and removes the
artifacts, which are what the deployments page lists.

The switches are a system of their own in the same server. A request names
devices of the registry; the handler takes their Python objects, which all requests
share, and a pool of threads opens one SSH session per switch. Nothing keeps two
sessions on a switch apart: each sees the running configuration the others leave.
Candidates of provisioning stay in a dictionary until the server restarts, and an
operator may adjust one while another request deploys it.

What is hard. There is no transaction: about forty calls to four systems can
fail one by one, the answer of one that worked can be lost, the process can be
restarted between any two, requests overlap, and the Palo Alto has one candidate
configuration that all sessions share and every commit activates as a whole. The
rollback must undo exactly what its own attempt did, and must not run once a
firewall was changed. On a switch a session sends its commands one after the other
and a refusal is a line of text among others: a bounce that breaks off leaves ports
shut, a deployment that stops leaves a half candidate, and a save may store what
another session was about to undo. The registry of switches writes its rows after
it released the lock, so that two writes of one device may pass each other.

What makes it correct.

* Addressing: two branches never share an overlay or a tunnel unit, save the
  golden branch and branch 2, which are one; an onboarding is refused for want of an
  id only when all are in use.
* Reservation: what the Palo Alto runs is reserved in full; nothing of another
  deployment is released; references inside Nautobot stay whole.
* Deployment: one site per branch; a success means reserved, listed, run by the
  Palo Alto, and held by the FortiGate as far as the validations look; every
  deployment ends; a deployment that meets no failure
  succeeds, also as a retry.
* Destroy: one that reports no warning has freed the branch; one that stops
  half-way leaves it listed, so that it can be repeated.
* Registries: dictionary and table agree unless a write failed or two requests
  had one switch in hand; a host has one device; a removal that was reported is
  final unless a request still held the switch.
* Switch sessions: a port that is down was ordered to be, or a failure was
  reported, or a bounce is about to open it, or the switch refused to open it in
  words the code does not look for; no block of a candidate is sent after one that
  was seen to fail; a session that had the switch to itself reports success only if
  what it was asked is there, as far as its search for refusals can tell.
* Texts: a candidate configures each port in the section of its class and none
  twice, its blocks are sent in order; a comparison loses no line; the ping in lots
  reports every target; the health of an interface does not hide its errors.

`PROJECT.json` lists the hazards at their lines, with the properties that cover
each, and those no property covers yet.

## 2. The modules

`BranchAddressing` &mdash; the arithmetic of a plan. An address is its distance from
the start of its pool. The behaviour is that of `get_next_branch_id`, step by step:
`SkipUsedId` is its `while` loop, which nothing bounds, so that with 2 to 254 in use
it reaches 255; `PlanNextBranch` is the plan that raises for that id, or the
reservation of the one found. Branches are released at any moment, also during a
search, which goes on with the ids it read.

`BranchInventory` &mdash; the objects of one reservation and the loops over them. A
resource is `<<kind, number>>`; an object adds a stamp, the deployment that
created it (or `Foreign`: entered by hand). The stamp stands for the id Nautobot
gives a new object, so that references, which hold ids, join objects of one
stamp. The orders of the loops are data (`CreateOrder`, `ReleaseOrder`, ...) and
`NextTo...` picks what a loop visits next.

`BranchDeployment` &mdash; one action per call of `deploy_candidate` and of what it
calls; `pc` names the stage.

| Actions | Code |
|---|---|
| `Plan`, `DeployAgain`, `Preflight` | candidate handler; deploy handler; `deployment.py:71-88` |
| `LookUp`, `Decide`, `ListEndpoints` | `_load_existing_reservation` |
| `Create`, `Reserved`, `Undo` | `reserve` and its `except` clause |
| `FindPolicy`, `CreatePolicy`, `RecordPolicies`, `Patch` | `enrich_reservation` |
| `WriteArtifacts` | `deployment.py:164-175` |
| `PaSet`, `PaCommit` | `PaloAltoManager.apply_configuration` |
| `FgApply`, `Validate`, `Operate` | `FortiGateDriver` |
| `SaveDevice` | the handler, after `deploy_candidate` returned |
| `Fail`, `Release`, `Released` | `deployment.py:233-246`, `release` |
| `Crash` | a restart: candidates are in memory, requests end where they are |

Variables: `nautobot`, the two configurations of the Palo Alto, the configuration
of each FortiGate and `artifacts` are shared; `cand`, `todo`, `held`, `own` and
`changed` belong to a deployment (`held` is the dictionary `reservation["objects"]`,
`own` its `created`, `changed` is `device_changed`). Failures are disjuncts of the
action that meets them, guarded by `Fault(kind)`; the head of the module says
what each kind means.

The FortiGate takes a configuration whole or in part: a rejected command is a warning
in the code, and a session may break half-way. What a FortiGate holds of a branch is
therefore a level, told apart by what the code looks for afterwards: `Marked` if
`validate_configuration` finds the host name and its list of markers
(`fortigate.py:331-392`), `Operational` if moreover all is there that
`validate_operational_state` needs (addresses, DHCP, tunnels, neighbours, routes),
`Entire` if nothing is missing; at 0 a marker is. A configuration taken in part may
end at any level from the one it had: a command that was rejected may have been
redundant. `Validate` asks for `Marked`, `Operate` for `Operational` and a Palo Alto
that runs the branch for that FortiGate; nothing in the code asks for `Entire`.

`BranchLease` &mdash; what provisioning promises about a branch, abstractly: its
resources are leased as a whole, it is served to one site while leased, the
lease of a served branch is not given up. `BranchDeployment` instantiates it with
the refinement mapping *leased* = the branches whose reservation is complete,
*site* = the FortiGate a branch is configured for on the Palo Alto.

`BranchLifecycle` &mdash; composes `BranchDeployment` with the destroy requests.
Its actions follow `cleanup_nautobot_branch` in order: addresses are looked up
first, then tunnels, endpoints, VPNs, policies, addresses and prefixes go.

`FortiGateRegistry` &mdash; `FortiGateManager` and the requests that use it. A
Python object lives as long as a request holds it, so `object` keeps every device
ever made and `devices` says which are in the dictionary; `rows` is the SQLite
table. `Upsert`, `Save`, `GetForDeploy` and `Remove` are the methods, each one step
because each holds the lock from its first line to its last, the write to SQLite
included. `Discover` and `Deployed` are what the handlers do to the object they were
given, without the lock, after their session with the firewall. A write fails by a
fault, or because the `host` column is unique. `Restart` is `_load_database`.

`DeviceInventory` &mdash; what a persistent registry promises: ids with a host each,
registered once, retired for good. `FortiGateRegistry` implements it by its table.

`SwitchRegistry` &mdash; `DeviceManager` and the requests that use it. Here only the
dictionary changes under the lock, so a write is two steps: the values are taken
from the shared object, and written later.

| Actions | Code |
|---|---|
| `Upsert` | `upsert` under the lock |
| `StartDiscovery`, `Outcome` | `discover_many`: all devices are looked up first; the outcomes of the threads are taken one by one and put on the objects |
| `Evaluate`, `Write`, `WriteFails` | `_save_device` without the lock: *take*/*store* in `upsert`, *read*/*write* in a discovery, *reread*/*rewrite* in its `except` clause |
| `StartConfigure`, `Configured` | a configuration that sets the host name on the object and saves nothing |
| `Pop`, `Delete` | `remove`: out of the dictionary under the lock, the row later |
| `Restart` | `_load_database` |

Two history variables say which guarantee still holds: `retired` has the ids removed
while no other request held them, `upset` the hosts with a failed write or with two
requests at once. Its table implements `LooseInventorySpec` of `DeviceInventory`,
the promise that is left without the lock: a row may also vanish without its removal
being final, but a host never has two ids and a retired id stays away.

`SwitchSessions` &mdash; the sessions on switches. `running` and `startup` are the two
configurations of each switch, `candidate` the text in memory, `job` what a request
was asked, `session` where its session with a switch is. A configuration keeps what
the operations tell apart: a value per port and one for the switch as a whole, the
ports that are shut, and of each block that was sent its fate: taken *whole*; *partly*,
before a refusal the code looks for or a break; or *unread*, refused in other words.

| Actions | Code |
|---|---|
| `Send`, `Connect` | the handler groups the selection by switch; a thread of the pool connects |
| `ShutPort`, `OpenPort` | the two loops of `bounce_interfaces` |
| `SendSettings`, `Show`, `Keep` | `configure_*` and `default_interfaces`: one set of lines, the state read back, the backup |
| `SendBlock` | `deploy_config`: it stops at the first block with one of seven error texts; after a refusal in other words it sends the next block |
| `Copy` | `save_config` |
| `Check` | the output searched for refusals |
| `Adjust` | an operator changes a candidate |
| `Reload`, `Crash` | a switch reloads; the server restarts |

A session breaks before or after the command it is at took effect. A refusal is
either in words the code searches for or not: bounce, default and save look for
three texts, a deployment for seven, and what they do not recognise counts as done.
`excused` and the field `clean` of a session are history. `excused` names for a port
that is down the cause: the request that fails with it, an order, a reload, or an
opening refused in words the code does not look for (`unread`), which is the one way
a bounce that reports success leaves a port down.

`SwitchCandidate`, `ConfigurationDiff`, `SwitchDiagnostics` &mdash; the algorithms on
texts, without state: the inventory and the classes of its ports, ranges, sections and
blocks of a candidate; the tree of a configuration and the comparison of two; ping in
lots, expansion of targets and the health of an interface. `Listing` has what the
first two share: numbers in ascending order, and the elements of a sequence at some of
its places. `SwitchText` runs them on bounded inputs: a state is one input, the
invariants say what is true of the results.

`MCBranchDeployment`, `MCBranchLifecycle`, `MCFortiGateRegistry`, `MCSwitchRegistry`,
`MCSwitchSessions` &mdash; the instances for TLC. `BranchAddressingProofs`,
`BranchDeploymentProofs` (types, ownership, what is listed, what is served, rollback and
references, sites and the lease), `BranchLifecycleProofs`,
`FortiGateRegistryProofs`, `SwitchRegistryProofs`, `SwitchSessionsProofs`,
`SwitchTextProofs`, `ConfigurationDiffProofs` &mdash; the theorems.

Operators marked *(Mutated form)* are not used by the specifications: each is the
body a plausible bug would give to the definition that follows it, and
`PROJECT.json` pairs it with the property that then fails.

### What is abstracted

* Nautobot refuses a second object with a key in use. So the lookup before a POST
  and the POST are one step in `reserve`: if the object appears in between, the
  POST fails instead of the lookup and the code goes the same way. The policies
  keep both steps, because there the two outcomes differ.
* Nautobot is not assumed to refuse the deletion of an object others refer to;
  `NoDanglingReference` has to hold without that.
* The PATCHes of `enrich_reservation` change attributes nothing here depends on;
  they remain as a step that fails when an object is gone.
* The commands for one branch on the Palo Alto, or on a FortiGate, are one step
  whose result is the whole configuration or a part of it (a level, on the FortiGate).
* Names, descriptions, keys and the text of configurations are left out; a prefix
  entered by hand is one whose description does not name the branch.
* Pages of results: the `limit` of most lookups is not reached. The endpoint list
  of the destroy has none, and an endpoint missing from its first page is a fault.
* In the registry, user name and password are one value, and the host name a
  discovery adds goes with the status. Encryption is left out: the key outlives the
  rows.
* A device that is not connected fails the preflight as a fault, `connect`.
* In the registry of switches a read of an object's fields is one step, although no
  lock covers it: user name and password, which an `upsert` changes one after the
  other, are never read half-changed.
* A session reads the state of all settings at one instant, and one set of lines is
  one step, whose effect is all or any part of them. The general configuration is
  not deduplicated by switch: two sessions of one request on a switch are two
  requests here.
* What the switch shows is compared with what was asked by substring; `Prefixes`
  holds the pairs of values that the comparison takes for each other (a VLAN 10 in
  the line of VLAN 100).
* A save while a bounce has ports shut stores them shut; after a reload they are
  excused, since the save was ordered. A bounce also opens a port that was
  administratively down before it.
* The lines of a candidate are records (section, what they open, kind of line); a
  line of a configuration is a head or a member with the identity of its command.
  `difflib`'s matching is external to the code and modelled by its documented
  algorithm.
* The inventory of a candidate is given; the preflight that asks a switch which
  spelling of a command it takes, and the values of the profile, are left out.

## 3. The runs

| Run | Question | Bounds | Result |
|---|---|---|---|
| `addressing` | Do the formulas keep branches apart, and is an id given back found again? | all 254 ids and the one after; branches 2 and 254 may be released | holds, 66 thousand states |
| `deploy_serial` | Requests one at a time: is a served branch reserved, with one site; is the lease implemented? | 2 tunnels, 2 branches, 3 deployments, 2 sites, 1 fault, 1 restart | holds, 358 thousand states |
| `deploy_concurrent` | Free interleaving: what holds whatever happens? | 1 tunnel, 2 branches, 2 deployments, 2 faults, 1 restart, a prefix entered by hand | holds, 1.7 million states |
| `lifecycle` | With destroys | 1 tunnel, 2 branches, 2 deployments, 2 destroys, 1 fault, 1 restart | holds, 1.3 million states |
| `lifecycle_live` | Does every request end, does an undisturbed one succeed? | 1 tunnel, 1 branch, 2 deployments, 1 destroy, the golden device, 1 fault, 1 restart | holds, 211 thousand states |
| `fortigate_registry` | Do dictionary and table stay one registry? | 3 ids, 2 hosts, 2 logins, 4 requests, 1 failed write, 1 restart | holds, 36 thousand states |
| `switch_registry` | What does the registry keep that writes outside its lock? | 2 ids, 2 hosts, 2 logins, 4 requests, 1 failed write, 1 restart | holds, 476 thousand states |
| `switch_sessions` | Do sessions on one switch leave it as they report? | 2 switches, 2 ports, 2 requests, 9 operations, 1 thread, 2 blocks, 2 texts, 1 failure, 1 reload | holds, 1.7 million states |
| `switch_text` | Do the algorithms on texts lose nothing and mix nothing? | 157 thousand inputs: inventories of 5 or 6 interfaces, texts of 4 and 3 lines, 3 entries of targets, 4 workers, all error counters | holds |
| `deploy_leak` | Does a failure leave nothing? | one refused write | violated |
| `deploy_lost_commit` | Does a changed firewall keep its reservation? | one commit read as an error | violated |
| `lifecycle_gone` | Does a destroy remove what the page says? | no fault | violated |

The `violation` runs are disagreements between the code and its own documents;
`PROJECT.json` quotes the line each contradicts. In short: objects of a half
created overlay are leaked; a commit that worked but reads as an error leads to a
served branch without a reservation; the VPN profile survives a destroy.

Why the bounds are enough. In `addressing` two branches that come and go, the first
and the last, let a search meet a hole behind it, ahead of it and at the end.
The code treats the two tunnels of a branch alike, one
after the other; one tunnel has every kind of object and reference, and the runs
that depend on what happens between two overlays (`deploy_serial`, `deploy_leak`)
have two. Two branches are needed for the shared commit and the next id; a third
adds no interaction. With three deployments one may fail, one repeat it and one
follow for another site. One fault reaches every error path, one restart every
point of interruption; `deploy_concurrent` has two faults so that a failure may
meet another deployment's failure. In the registry,
four requests allow two that hold one device, its removal and its return under a
new id. In the registry of switches the four requests allow two that overlap on
a switch, its removal and what follows. Two requests and one thread suffice for the
sessions: a second thread only lets the two switches of a request proceed together,
and switches share nothing but the pool. Two ports tell a bounce that opens one from
one that opens both; two blocks make a half candidate; of three values one is the
text of another's beginning. The inputs of `switch_text` have each class of
interface, a gap in the numbers, two slots, a channel; the texts are the shortest in
which a line moves between two blocks. Symmetric deployments, destroys and sites are
permuted in runs without liveness. `CHECK_DEADLOCK` is off because the instances
have a fixed number of requests and stop when all have ended, and an input of
`switch_text` has no successor but itself.

What the passing runs leave out on purpose, each shown by a `violation` run or
named here:

* `deploy_serial` and `lifecycle` let the Palo Alto fail only before it changed
  anything, before a destroy committed, or unseen by the deployment. Otherwise a
  failed deployment releases a served branch (`deploy_lost_commit`).
* `lifecycle` has no failing lookup in a destroy and no endpoint beyond the first
  page: such an object is taken for absent and the destroy reports no warning. It
  also leaves out a destroy whose commit fails after its output was last read;
  Nautobot is then cleaned while the Palo Alto goes on running the branch.
* `DestroyedIsFree` says nothing of endpoints: once a cleaning that could not
  delete one has deleted its address, no later one finds it.
* A branch destroyed while a deployment of it is under way is not checked: the
  cleaning deletes by name, whoever created the object.
* `deploy_serial` plans a candidate only when no deployment has gone on since. A
  candidate reserves nothing, so that two candidates planned early have one branch
  id, and the second deployment accepts the reservation of the first.
* Two deployments of one branch at a time share the reservation the first makes: when
  the first fails, it releases what the second accepted. `deploy_concurrent`
  therefore checks what holds in spite of that.
* `SuccessMeansServed` stops at `Operational`. A command the FortiGate rejects outside
  of what both validations look for goes unnoticed: the run has such successes, and the
  property allows them.
* `RecordedIsReleased` speaks of what a deployment created and recorded for a
  reservation of its own, the policies included. A deployment that reuses a
  reservation releases nothing when it fails, so the policies it added to it stay.
* `switch_sessions` checks the outcome only of sessions that had the switch to
  themselves and, bounces, defaults and saves, met no refusal in words the code does
  not search for (`clean`); otherwise a success may be reported for what another
  session undid or what the switch refused. A deployment may meet such refusals: then
  `OkMeansDone` and `DeployInOrder` only promise that every block before went by
  without a refusal the code recognises, and its lines may be missing on the switch.
* `switch_registry` promises the agreement of dictionary and table, and the finality of
  a removal, only for a host that one request at a time had in hand: a discovery saves a switch
  that was removed meanwhile.

Fairness. `FairSpec` and `FairLifecycleSpec` assume weak fairness of the steps of
each request thread: a thread that can go on does, because every call it makes
has a time limit (10 to 30 seconds for Nautobot, 180 and 300 for the firewalls)
after which it raises. Nothing is assumed of users, who may never send a request,
nor of faults and restarts. The modules of the switches state no fairness and no
liveness property.

## 4. The proofs

`BranchAddressingProofs` proves, for every `MaxBranch` up to 254 and every set of
branches that may be released, every property of its run. `RefusalsAreJustified`
(`RefusedOnlyWhenFull`) rests on `SearchInvariant`: every id a search has passed is
among those it read, so that one that goes past the last id has read them all.
`OnlyGoldenIsAlias`, `VpnBlocksAreDisjoint`, `VpnBlocksStayInPool` and
`TunnelUnitsAreDistinct` rest on the injectivity of `SubnetIndex` on onboarded branches
and on blocks of equal size with distinct indices not meeting.

`BranchDeploymentProofs` proves about `Spec`, for every number of tunnels,
branches, FortiGates and deployments, every set and number of faults and of
restarts:

* `TypeCorrect` (`TypeOK`). The inductive invariant `TypeInv` adds that a
  deployment under way has a candidate and that `reserve` visits only what it
  creates.
* `OnlyOwnIsReleased` (`OnlyOwnReleased`), under free interleaving. The invariant
  `OwnInv` says that the dictionary of a deployment that may still be undone holds
  its own objects only, and that an undone deployment has changed no firewall;
  `OnlyReleaseRemoves` shows that no other action removes an object.
* `ConfiguredIsListed` (`ConfiguredMeansListed`), under free interleaving. The
  invariant adds that every deployment past `WriteArtifacts` has its directory.
* `ServedIsReserved` (`ServedMeansReserved`), assuming `Serial` (requests one at a
  time) and `CleanPaloAlto` (no `partial`, `commit` or `commitlost` fault). The
  invariant `SafeInv` adds that at most one deployment works at a time; that a branch
  on either configuration of the Palo Alto is completely reserved; what the lookups
  have seen, what `reserve` has created and from where on the reservation is complete;
  and that the branch of a deployment that may still release is on neither
  configuration. Both assumptions are needed: without the first, one deployment
  releases what another accepted; without the second, `deploy_lost_commit` violates
  the property.

A second part of `BranchDeploymentProofs` takes deployments that interleave freely and
any faults except a DELETE that fails during a rollback
(`CompleteRelease`: the loop of `release` goes on after a failed DELETE, and then
neither property holds):

* `RecordedIsReleasedAlways` (`RecordedIsReleased`, of all that was recorded) and `ReferencesStayWhole`
  (`NoDanglingReference`). The invariant `ReleaseInv` adds that a deployment without
  a reservation of its own has created nothing but policies; that the dictionary has
  all objects of an overlay or none (`reserve` records an overlay after its tunnel);
  that what `reserve` has passed is there; and that what `release` has passed is gone.
  `CreatedAfterReferences` and `ReleasedBeforeReferences` are the two facts about the
  orders: when an endpoint or a tunnel is created, what it names is no longer to do,
  and when something is released, all that may name it was released before.

The last part of `BranchDeploymentProofs` proves about the same `Spec`, assuming
`Serial` and `CleanPaloAlto` and, for the first two, that candidates are not outdated
(`~StaleCandidates`):

* `OneSiteAlways` (`OneSitePerBranch`). The invariant `SiteInv` says that one
  candidate at a time is planned or deployed, that whatever is configured for a
  branch on either firewall is for one FortiGate, that a deployment under way is for
  the same one, and that a configured branch has no candidate left in memory or one
  for its FortiGate: this last part makes a repeated deployment safe, and survives a
  restart because the candidates do not.
* `LeaseImplemented` (`ImplementsLease`): the initial states are those of the lease,
  and each step acquires a branch, gives one up, serves, or stutters. A commit is the
  step that serves: `RunningKept` shows that it moves no branch to another site.
* `SuccessMeansServedAlways` (`SuccessMeansServed`): what was validated still holds when
  the success is reported, since nobody else works in between; whatever was rejected,
  the FortiGate has reached `Operational`.

`BranchLifecycleProofs` proves about `LifecycleSpec`, for all constants:

* `LifecycleTypeCorrect` (`LifecycleTypeOK`).
* `LifecycleConfiguredIsListed` (`ConfiguredMeansListed`), assuming `Serial` and that
  no failed commit of a destroy goes unseen (`SeenDestroy`). The invariant says that
  requests take turns and that a destroy has left nothing of its branch on either
  configuration of the Palo Alto before it removes the directory.
* `DestroyedIsFreed` (`DestroyedIsFree`), assuming also that no lookup of a destroy
  fails or misses an object (`CleanLookup`). The invariant carries through the phases
  of the cleaning what each has found and what it has removed.
* `LifecycleServedIsReserved` (`ServedMeansReserved`), assuming `Serial`,
  `CleanPaloAlto` and `SeenDestroy`. `SafeInv` survives a destroy: it finds no
  deployment under way, puts nothing new on the Palo Alto, and takes objects only from
  a branch that is on neither configuration any more.

`FortiGateRegistryProofs` proves about `FortiGateRegistry`, for all ids, hosts,
credentials and requests and any number of failed writes and restarts, every
property its run checks: `RegistryTypeOK`, `RegistryOneDevicePerHost`,
`RegistryPersistedUnlessFault`, `RegistryRemovedStaysRemoved` and the refinement
`RegistryImplementsInventory`. The invariant `RegistryInv` adds to the properties
that an id in use always has its object (so that a new device never takes the id
of a removed one), that a row has the host of its object, and that no two rows
have one host. The last is what a restart needs; the agreement of table and
dictionary is what shows that without faults no write is ever refused. For the
refinement, a written row registers its id or, when the id had a row, changes
nothing the inventory sees.

`SwitchRegistryProofs` proves about `SwitchRegistry`, for all constants,
every property of its run: `RegistryTypeOK`, `OneDevicePerHostHolds`,
`RetiredStaysRetiredHolds`, `QuietHostsAgreeHolds` and the refinement
`RegistryImplementsLooseInventory`. `RegistryInv` says that an id in use
has its object, that a row has the host of its object, that neither dictionary nor
table has a host twice, that a retired id is in neither and in nobody's hands, and
that the values a request is about to write have the host of the device it holds.
The last two are what the missing lock makes necessary: a row is written from values
taken earlier, and a retired id stays away because no hand is left to write it.
For `QuietHostsAgree`, `QuietInv` says of every host that is not upset that one
request at most holds a device of it; that a device which waits for its outcome, or is
being configured, agrees with its row; that one about to be saved is in the dictionary,
that no other row has its host, and that what will be written is the object as it is;
and that one about to be deleted has left the dictionary. `OneHostStep` shows once
that a step on a device of one host keeps all this of the others.

`SwitchSessionsProofs` proves about `SwitchSessions`, for all constants, every
property of its run: `SessionsTypeOK`, `NoPortLeftDownHolds`, `DeployInOrderHolds` and
`OkMeansDoneHolds`. `SessionsInv` adds to `TypeOK`, `NoPortLeftDown` and
`DeployInOrder` that a session belongs to a request that was asked something, that its
place fits what it was asked, that the blocks it has behind it went by, that every port that is down has a bounce about to open it or a cause
named for it (`Accounted`), and that a request named as a cause has failed or noted
that it will (`Blamed`). `HonestInv`, for `OkMeansDone`, adds that a session that is
still clean is alone on its switch and that, at each place, what it has done so far is
there.

`SwitchTextProofs` proves about the algorithms on texts, for inputs without a bound.
They are folds over sequences, so it starts from induction over the natural numbers
in the form the prover can use, `NatSetInduction` for a set of numbers, which follows
from the well-foundedness of their order. From it follows, for each fold, that the
function it is defined by exists and what it does at each step; then

* `PingAnswersAsAsked`, `HealthyMeansNoErrors`: ping and health, for every list of
  ranges and every set of counters;
* `GroupsCoverNames`: ranges have exactly the ports named, each once, whatever their
  order, types, slots and gaps. Invariant: the ranges made of the first *n* ports
  are ascending and apart, and reach the port last seen;
* `BlocksSentAreRendered`: the text of a candidate is cut back into the blocks that were
  rendered, followed by those of the operator. Invariant: the blocks flushed so far
  and the current one are the first blocks rendered and the begun one;
* `SectionsStayInOrder`: blocks keep the order of the sections, none mixes two, and
  none of the enabled sections is missing (but the ports of users and the
  transceivers, which a switch may lack);
* `EachPortIsSetOnce`: a candidate sets the uplink once, each port of a user once and a
  port that is left alone never.

The last three hold for every selection of sections and all lines of an operator. The
last one assumes of the inventory that no two interfaces have one name and that none
is a Vlan (the section `management` opens one of its own, whatever the inventory
has), and of the operator's lines that they open no interface. The invariants
`PortsAsClassified`, `BlocksInOrder`, `PingKeepsTargets` and `HealthSeesErrors` of
`SwitchText` follow for all values of its constants.

`ConfigurationDiffProofs` goes on with the comparison of two configurations, of any
length and whatever their lines:

* `DiffKeepsLines`: of every line but the separator, what the left configuration has
  and what is shown as added are together as many as what the right one has and what is
  shown as removed; and rows have each removed line once on the old side, each added
  line once on the new one. It assumes that `NoLine`, the `None` of an empty side of
  a row, is no line of a configuration. `DiffLosesNothing` follows for the inputs of the
  run.

The argument has three parts. The blocks of a configuration, one after the other, have
its lines in order. The search for the lines two blocks have in common is a recursive
function over four bounds: that it exists at all is proved by building it up over the
width of the spans (`NatSetInduction` again), and what it finds is a matching, each pair
of equal lines and no line in two pairs, so that the lines outside of it are equally
many of each kind on both sides. Rows are then made of the lines outside, in steps
that take each once.

Model-checked only: all liveness (`lifecycle_live`; temporal proofs under fairness
are out of the prover's reach), and the three violations, each of which is one
counterexample. The inductive invariants were model-checked on small instances before
they were proved.

## 5. Not modelled

* Golden compliance (`src/branch/golden_compliance.py`), the parsers of IOS output,
  templates and pages turn text into text; nothing else decides on their results but
  pages.
* The allocation library of `src/vpn/`: no handler calls its allocation or its
  topology loop. The server uses `intersect_capabilities` only, an intersection.
* What a backup holds, its name and the transports. Names carry a time in seconds,
  and two backups within one second, or of two switches without a host name,
  overwrite each other; the hazard is listed without a property.
* The preflight of provisioning, the selection of interfaces by range, the check of a
  port's mode before a change, traceroute.
* The paths the set commands create and the delete commands remove on the Palo Alto:
  a destroy deletes all or a part of a branch in one step.
* A destroy and a deployment of one branch that overlap, and pages of results beyond
  the first in the search for the next id.
