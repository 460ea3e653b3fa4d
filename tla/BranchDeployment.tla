--------------------------- MODULE BranchDeployment ---------------------------
(***************************************************************************)
(* Provisioning a branch: a candidate is planned for a FortiGate, and a     *)
(* deployment of it reserves the branch in Nautobot, writes the artifacts,  *)
(* configures and commits the Palo Alto, configures the FortiGate and       *)
(* validates it.  Every call to Nautobot, to a firewall or to the disk is a *)
(* step of its own and may fail; the server handles requests in threads, so *)
(* deployments interleave; the server may be restarted at any moment.       *)
(*                                                                          *)
(* Faults names the ways a call may fail:                                   *)
(*   "read"       a lookup in Nautobot fails                                *)
(*   "refused"    a write to Nautobot, or to the disk, fails without effect *)
(*   "lost"       a write to Nautobot takes effect, its answer is lost      *)
(*   "undeleted"  a DELETE sent by a release fails without effect           *)
(*   "connect"    a firewall session fails before it changes anything       *)
(*   "partial"    the Palo Alto takes some commands, then reports an error  *)
(*   "rejected"   the FortiGate rejects some of the commands                *)
(*   "cutoff"     the FortiGate session breaks after some of the commands   *)
(*   "commit"     the Palo Alto refuses the commit                          *)
(*   "commitlost" the commit takes effect, but its output reads as an error *)
(*   "unseen"     the commit fails after its output was last read           *)
(*   "link"       the tunnels never come up                                 *)
(*   "removed"    the FortiGate was removed from the device list meanwhile  *)
(***************************************************************************)
EXTENDS BranchInventory

CONSTANTS
    FortiGates,      \* the firewalls of the sites
    Golden,          \* the FortiGate whose hostname is FW-BRANCH-1
    ForeignObjects,  \* <<branch, resource>> that may be in Nautobot already,
                     \* entered by hand
    Serial,          \* requests are sent one at a time
    StaleCandidates, \* candidates may be planned ahead and deployed again
                     \* after their id was offered to another FortiGate
    Faults,          \* the faults that may happen
    MaxFaults,       \* bound: how many of them happen
    MaxCrashes       \* bound: how many restarts of the server happen

ASSUME DeploymentAssumption ==
    /\ Serial \in BOOLEAN
    /\ StaleCandidates \in BOOLEAN
    /\ MaxFaults \in Nat
    /\ MaxCrashes \in Nat
    /\ ForeignObjects \subseteq Branches \X (Prefixes \cup IPs)

VARIABLES
    nautobot,     \* the objects of each branch
    paCandidate,  \* Palo Alto: uncommitted configuration of each branch
    paRunning,    \* Palo Alto: committed configuration of each branch
    fgConfig,     \* the branch configuration each FortiGate holds
    artifacts,    \* branches with a directory under generated/
    pc,           \* where each deployment is
    cand,         \* its candidate, <<branch, FortiGate>>
    todo,         \* the resources its current loop still has to visit
    held,         \* the objects its reservation dictionary lists
    own,          \* "created": this deployment made the reservation
    changed,      \* device_changed
    faults,       \* faults so far
    crashes       \* restarts so far

firewalls == <<paCandidate, paRunning, fgConfig>>
history   == <<faults, crashes>>
vars == <<nautobot, firewalls, artifacts, pc, cand, todo, held, own, changed,
          history>>

NoCandidate == <<>>
Nothing     == <<>>

\* What a FortiGate holds of the configuration of a branch, as far as the two
\* validations tell: at 0 a marker of validate_configuration is missing.
Marked      == 1    \* all validate_configuration looks for is there ...
Operational == 2    \* ... and all validate_operational_state looks for ...
Entire      == 3    \* ... and whatever else the configuration holds

\* On the Palo Alto: all the tunnels of the branch need is there, or not.
PaConfigs == {Nothing} \cup (FortiGates \X BOOLEAN)
FgConfigs == {Nothing} \cup (Branches \X (0..Entire))

\* The configurations that may result when only some of the commands of a
\* candidate are taken: nothing it had is lost, and the commands left out may
\* be ones that nothing looks for, or that were not needed any more.
PaTakenInPart(config, d) ==
    IF config = <<d, TRUE>> THEN {config} ELSE {d} \X BOOLEAN

FgTakenInPart(config, b) ==
    LET kept == IF config # Nothing /\ config[1] = b THEN config[2] ELSE 0
    IN  {b} \X (kept..Entire)

Working == {"lookup", "endpoints", "create", "policy", "post", "patch",
            "artifacts", "paset", "pacommit", "fgapply", "validate",
            "operate", "save", "undo"}
Ended   == {"ok", "failed", "unsaved"}
States  == {"idle", "planned", "dead"} \cup Working \cup Ended

TypeOK ==
    /\ nautobot \in [Branches -> SUBSET Objects]
    /\ paCandidate \in [Branches -> PaConfigs]
    /\ paRunning \in [Branches -> PaConfigs]
    /\ fgConfig \in [FortiGates -> FgConfigs]
    /\ artifacts \subseteq Branches
    /\ pc \in [Attempts -> States]
    /\ cand \in [Attempts -> {NoCandidate} \cup (Branches \X FortiGates)]
    /\ todo \in [Attempts -> SUBSET Resources]
    /\ held \in [Attempts -> SUBSET Objects]
    /\ own \in [Attempts -> BOOLEAN]
    /\ changed \in [Attempts -> BOOLEAN]
    /\ faults \in 0..MaxFaults
    /\ crashes \in 0..MaxCrashes

EnteredByHand(entered) ==
    [b \in Branches |-> {<<f[2], Foreign>> : f \in {g \in entered : g[1] = b}}]

Init ==
    /\ \E entered \in SUBSET ForeignObjects : nautobot = EnteredByHand(entered)
    /\ paCandidate = [b \in Branches |-> Nothing]
    /\ paRunning = [b \in Branches |-> Nothing]
    /\ fgConfig = [d \in FortiGates |-> Nothing]
    /\ artifacts = {}
    /\ pc = [a \in Attempts |-> "idle"]
    /\ cand = [a \in Attempts |-> NoCandidate]
    /\ todo = [a \in Attempts |-> {}]
    /\ held = [a \in Attempts |-> {}]
    /\ own = [a \in Attempts |-> FALSE]
    /\ changed = [a \in Attempts |-> FALSE]
    /\ faults = 0
    /\ crashes = 0

Branch(a) == cand[a][1]
Device(a) == cand[a][2]
Inventory(a) == nautobot[Branch(a)]

Fault(kind) == /\ kind \in Faults
               /\ faults < MaxFaults
               /\ faults' = faults + 1
               /\ UNCHANGED crashes

Fine == UNCHANGED history

GoTo(a, state) == pc' = [pc EXCEPT ![a] = state]

Post(a, o) == nautobot' = [nautobot EXCEPT ![Branch(a)] = @ \cup {<<o, a>>}]

-----------------------------------------------------------------------------
(* Candidates: POST /api/firewalls/provision/candidates.  A candidate names *)
(* the first branch id no prefix carries; nothing is reserved for it.       *)

Busy == \E a \in Attempts : pc[a] \in Working

\* (Mutated form: an id in use is offered.)
LowestId(b) == \A c \in Branches : c < b => Taken(nautobot[c])

NextId(b) == /\ ~Taken(nautobot[b])
             /\ \A c \in Branches : c < b => Taken(nautobot[c])

Plan(a) ==
    /\ pc[a] = "idle"
    /\ StaleCandidates \/ (~Busy /\ \A c \in Attempts : pc[c] # "planned")
    /\ \E b \in Branches, d \in FortiGates :
        /\ NextId(b)
        /\ cand' = [cand EXCEPT ![a] = <<b, d>>]
    /\ GoTo(a, "planned")
    /\ UNCHANGED <<nautobot, firewalls, artifacts, todo, held, own, changed,
                   history>>

\* A candidate stays in memory after its deployment and can be deployed again.
DeployAgain(a, c) ==
    /\ pc[a] = "idle"
    /\ cand[c] # NoCandidate
    /\ StaleCandidates \/ /\ ~Busy
                          /\ \A e \in Attempts :
                               /\ pc[e] # "planned"
                               /\ cand[e] # NoCandidate /\ Branch(e) = Branch(c)
                                    => cand[e] = cand[c]
    /\ cand' = [cand EXCEPT ![a] = cand[c]]
    /\ GoTo(a, "planned")
    /\ UNCHANGED <<nautobot, firewalls, artifacts, todo, held, own, changed,
                   history>>

-----------------------------------------------------------------------------
(* deploy_candidate                                                         *)

Preflight(a) ==
    /\ pc[a] = "planned"
    /\ ~(Serial /\ Busy)
    /\ \/ /\ Device(a) # Golden
          /\ GoTo(a, "lookup")
          /\ todo' = [todo EXCEPT ![a] = LookedUp]
          /\ Fine
       \/ /\ Device(a) = Golden
          /\ GoTo(a, "failed")
          /\ Fine /\ UNCHANGED todo
       \/ /\ Fault("connect")      \* the device is not listed as connected
          /\ GoTo(a, "failed")
          /\ UNCHANGED todo
    /\ UNCHANGED <<nautobot, firewalls, artifacts, cand, held, own, changed>>

\* (Mutated forms: one half of the condition is forgotten.)
ReleaseReused(a) == ~changed[a]
ReleaseAlways(a) == own[a]

\* Only a reservation this deployment created, and only while no firewall was
\* changed, is released.
MayRelease(a) == own[a] /\ ~changed[a]

\* (Mutated forms: objects for resources, policies forgotten.)
RecordedObjects(a)   == held[a]
RecordedBasics(a)    == {q[1] : q \in held[a]} \ Policies

RecordedResources(a) == {q[1] : q \in held[a]}

\* The except clause of reserve, and through MayRelease that of
\* deploy_candidate.
Undo(a) == /\ GoTo(a, "undo")
           /\ todo' = [todo EXCEPT ![a] = RecordedResources(a)]

Fail(a) == IF MayRelease(a)
           THEN Undo(a)
           ELSE GoTo(a, "failed") /\ UNCHANGED todo

-----------------------------------------------------------------------------
(* ensure_reserved                                                          *)

\* (Mutated form: the loop does not advance.)
SameAgain(a, o) == UNCHANGED todo

\* The loop of deployment a goes on to the resource after o.
Visited(a, o) == todo' = [todo EXCEPT ![a] = @ \ {o}]

\* One lookup of _load_existing_reservation.  Nothing is reserved yet, so an
\* error has nothing to release.
LookUp(a) ==
    /\ pc[a] = "lookup"
    /\ \E o \in NextToLookUp(todo[a]) :
        \/ /\ held' = [held EXCEPT ![a] = @ \cup ({o} \X Ids(Inventory(a), o))]
           /\ Visited(a, o)
           /\ Fine /\ UNCHANGED pc
        \/ /\ Fault("read")
           /\ GoTo(a, "failed")
           /\ UNCHANGED <<held, todo>>
    /\ UNCHANGED <<nautobot, firewalls, artifacts, cand, own, changed>>

\* Nothing found: reserve.  Everything found: go on to the endpoints.
\* Anything else: a partial or foreign reservation blocks the deployment.
Decide(a) ==
    /\ pc[a] = "lookup"
    /\ todo[a] = {}
    /\ \/ /\ held[a] = {}
          /\ GoTo(a, "create")
          /\ todo' = [todo EXCEPT ![a] = Basic]
       \/ /\ held[a] # {} /\ NothingMissing(held[a])
          /\ GoTo(a, "endpoints")
          /\ UNCHANGED todo
       \/ /\ held[a] # {} /\ ~NothingMissing(held[a])
          /\ GoTo(a, "failed")
          /\ UNCHANGED todo
    /\ Fine
    /\ UNCHANGED <<nautobot, firewalls, artifacts, cand, held, own, changed>>

\* The list of endpoints completes a reservation that is reused.
ListEndpoints(a) ==
    LET matched == MatchedEndpoints(Inventory(a), held[a]) IN
    /\ pc[a] = "endpoints"
    /\ \/ /\ EndpointsAgree(matched, held[a])
          /\ held' = [held EXCEPT ![a] = @ \cup matched]
          /\ GoTo(a, "policy")
          /\ todo' = [todo EXCEPT ![a] = Policies]
          /\ Fine
       \/ /\ ~EndpointsAgree(matched, held[a])
          /\ GoTo(a, "failed")
          /\ Fine /\ UNCHANGED <<held, todo>>
       \/ /\ Fault("read")
          /\ GoTo(a, "failed")
          /\ UNCHANGED <<held, todo>>
    /\ UNCHANGED <<nautobot, firewalls, artifacts, cand, own, changed>>

\* One object of reserve.  The lookup before the POST and the POST itself are
\* one step: Nautobot refuses a duplicate key, so that an object which appears
\* in between ends in the same error.
Create(a) ==
    /\ pc[a] = "create"
    /\ \E o \in NextToCreate(todo[a]) :
        \/ /\ o \in Endpoints \/ ~Exists(Inventory(a), o)
           /\ Post(a, o)
           /\ held' = [held EXCEPT ![a] = @ \cup (RecordedWith(o) \X {a})]
           /\ Visited(a, o)
           /\ Fine /\ UNCHANGED pc
        \/ /\ o \notin Endpoints /\ Exists(Inventory(a), o)
           /\ Undo(a)
           /\ Fine /\ UNCHANGED <<nautobot, held>>
        \/ /\ Fault("refused")
           /\ Undo(a)
           /\ UNCHANGED <<nautobot, held>>
        \/ /\ o \in Endpoints \/ ~Exists(Inventory(a), o)
           /\ Fault("lost")
           /\ Post(a, o)
           /\ Undo(a)
           /\ UNCHANGED held
    /\ UNCHANGED <<firewalls, artifacts, cand, own, changed>>

Reserved(a) ==
    /\ pc[a] = "create"
    /\ todo[a] = {}
    /\ own' = [own EXCEPT ![a] = TRUE]
    /\ GoTo(a, "policy")
    /\ todo' = [todo EXCEPT ![a] = Policies]
    /\ Fine
    /\ UNCHANGED <<nautobot, firewalls, artifacts, cand, held, changed>>

-----------------------------------------------------------------------------
(* enrich_reservation                                                       *)

\* _get_or_create_named: the lookup ...
FindPolicy(a) ==
    /\ pc[a] = "policy"
    /\ \E o \in NextPolicy(todo[a]) :
        \/ /\ Exists(Inventory(a), o)
           /\ Visited(a, o)
           /\ Fine /\ UNCHANGED pc
        \/ /\ ~Exists(Inventory(a), o)
           /\ GoTo(a, "post")
           /\ Fine /\ UNCHANGED todo
        \/ /\ Fault("read")
           /\ Fail(a)
    /\ UNCHANGED <<nautobot, firewalls, artifacts, cand, held, own, changed>>

\* ... and, when it found nothing, the POST; another deployment may have
\* created the object meanwhile.
CreatePolicy(a) ==
    /\ pc[a] = "post"
    /\ \E o \in NextPolicy(todo[a]) :
        \/ /\ ~Exists(Inventory(a), o)
           /\ Post(a, o)
           /\ GoTo(a, "policy")
           /\ Visited(a, o)
           /\ Fine
        \/ /\ Exists(Inventory(a), o)
           /\ Fail(a)
           /\ Fine /\ UNCHANGED nautobot
        \/ /\ Fault("refused")
           /\ Fail(a)
           /\ UNCHANGED nautobot
        \/ /\ ~Exists(Inventory(a), o)
           /\ Fault("lost")
           /\ Post(a, o)
           /\ Fail(a)
    /\ UNCHANGED <<firewalls, artifacts, cand, held, own, changed>>

CreatedPolicies(a) == {q \in Inventory(a) : q[1] \in Policies /\ q[2] = a}

\* All three are there: those this deployment created join its reservation.
RecordPolicies(a) ==
    /\ pc[a] = "policy"
    /\ todo[a] = {}
    /\ held' = [held EXCEPT ![a] = @ \cup CreatedPolicies(a)]
    /\ GoTo(a, "patch")
    /\ Fine
    /\ UNCHANGED <<nautobot, firewalls, artifacts, cand, todo, own, changed>>

\* The PATCHes of VPNs, endpoints and tunnels only change attributes that are
\* not modelled; each needs its object to be there still.
Patch(a) ==
    /\ pc[a] = "patch"
    /\ \/ /\ \A q \in held[a] :
               q[1] \in Vpns \cup Endpoints \cup TunnelObjs => q \in Inventory(a)
          /\ GoTo(a, "artifacts")
          /\ Fine /\ UNCHANGED todo
       \/ /\ \E q \in held[a] : /\ q[1] \in Vpns \cup Endpoints \cup TunnelObjs
                                /\ q \notin Inventory(a)
          /\ Fail(a)
          /\ Fine
       \/ /\ Fault("refused")
          /\ Fail(a)
    /\ UNCHANGED <<nautobot, firewalls, artifacts, cand, held, own, changed>>

-----------------------------------------------------------------------------
(* Artifacts and firewalls                                                  *)

\* (Mutated form: the firewalls are configured without artifacts.)
WithoutArtifacts(a) == GoTo(a, "paset") /\ UNCHANGED todo

ArtifactsFailed(a) == Fail(a)

WriteArtifacts(a) ==
    /\ pc[a] = "artifacts"
    /\ \/ /\ artifacts' = artifacts \cup {Branch(a)}
          /\ GoTo(a, "paset")
          /\ Fine /\ UNCHANGED todo
       \/ /\ Fault("refused")      \* before or after the directory was made
          /\ ArtifactsFailed(a)
          /\ artifacts' \in {artifacts, artifacts \cup {Branch(a)}}
    /\ UNCHANGED <<nautobot, firewalls, cand, held, own, changed>>

\* PaloAltoManager.apply_configuration: the set commands go to the candidate
\* configuration all sessions share, and stay there when the session ends.
PaSet(a) ==
    /\ pc[a] = "paset"
    /\ \/ /\ paCandidate' = [paCandidate EXCEPT ![Branch(a)] = <<Device(a), TRUE>>]
          /\ GoTo(a, "pacommit")
          /\ Fine /\ UNCHANGED todo
       \/ /\ Fault("connect")
          /\ Fail(a)
          /\ UNCHANGED paCandidate
       \/ /\ Fault("partial")
          /\ \E config \in PaTakenInPart(paCandidate[Branch(a)], Device(a)) :
                paCandidate' = [paCandidate EXCEPT ![Branch(a)] = config]
          /\ Fail(a)
    /\ UNCHANGED <<nautobot, paRunning, fgConfig, artifacts, cand, held, own,
                   changed>>

\* The commit activates the whole candidate configuration.  Its output is read
\* until nothing comes for ten seconds.  device_changed is set once
\* apply_configuration has returned.
PaCommit(a) ==
    /\ pc[a] = "pacommit"
    /\ \/ /\ paRunning' = paCandidate
          /\ changed' = [changed EXCEPT ![a] = TRUE]
          /\ GoTo(a, "fgapply")
          /\ Fine /\ UNCHANGED todo
       \/ /\ Fault("commit")
          /\ Fail(a)
          /\ UNCHANGED <<paRunning, changed>>
       \/ /\ Fault("commitlost")
          /\ paRunning' = paCandidate
          /\ Fail(a)
          /\ UNCHANGED changed
       \/ /\ Fault("unseen")
          /\ changed' = [changed EXCEPT ![a] = TRUE]
          /\ GoTo(a, "fgapply")
          /\ UNCHANGED <<paRunning, todo>>
    /\ UNCHANGED <<nautobot, paCandidate, fgConfig, artifacts, cand, held, own>>

TakeInPart(a) == \E config \in FgTakenInPart(fgConfig[Device(a)], Branch(a)) :
                    fgConfig' = [fgConfig EXCEPT ![Device(a)] = config]

\* FortiGateDriver.apply_configuration: command errors are only warnings, so a
\* configuration that was taken in part goes on to the validation.
FgApply(a) ==
    /\ pc[a] = "fgapply"
    /\ \/ /\ fgConfig' = [fgConfig EXCEPT ![Device(a)] = <<Branch(a), Entire>>]
          /\ GoTo(a, "validate")
          /\ Fine /\ UNCHANGED todo
       \/ /\ Fault("connect")
          /\ Fail(a)
          /\ UNCHANGED fgConfig
       \/ /\ Fault("rejected")
          /\ TakeInPart(a)
          /\ GoTo(a, "validate")
          /\ UNCHANGED todo
       \/ /\ Fault("cutoff")
          /\ TakeInPart(a)
          /\ Fail(a)
    /\ UNCHANGED <<nautobot, paCandidate, paRunning, artifacts, cand, held, own,
                   changed>>

FgHolds(a, level) == fgConfig[Device(a)] \in {Branch(a)} \X (level..Entire)
PaConfigured(a)   == paRunning[Branch(a)] = <<Device(a), TRUE>>

\* validate_configuration: the hostname of the branch and a list of markers.
Validate(a) ==
    /\ pc[a] = "validate"
    /\ \/ FgHolds(a, Marked) /\ GoTo(a, "operate") /\ Fine /\ UNCHANGED todo
       \/ ~FgHolds(a, Marked) /\ Fail(a) /\ Fine
       \/ Fault("connect") /\ Fail(a)
    /\ UNCHANGED <<nautobot, firewalls, artifacts, cand, held, own, changed>>

\* (Mutated form: the markers found before are taken for the tunnels.)
ConvergesOnceMarked(a) == FgHolds(a, Marked) /\ PaConfigured(a)

\* The tunnels come up, the neighbours are established and the routes arrive
\* only between a FortiGate and a Palo Alto that hold what these need.
Converges(a) == FgHolds(a, Operational) /\ PaConfigured(a)

\* validate_operational_state.
Operate(a) ==
    /\ pc[a] = "operate"
    /\ \/ Converges(a) /\ GoTo(a, "save") /\ Fine /\ UNCHANGED todo
       \/ ~Converges(a) /\ Fail(a) /\ Fine
       \/ Fault("link") /\ Fail(a)
    /\ UNCHANGED <<nautobot, firewalls, artifacts, cand, held, own, changed>>

\* Back in the request handler: the device is saved under its new hostname.
\* When it was removed meanwhile the request fails although the branch is up.
SaveDevice(a) ==
    /\ pc[a] = "save"
    /\ \/ GoTo(a, "ok") /\ Fine
       \/ Fault("removed") /\ GoTo(a, "unsaved")
    /\ UNCHANGED <<nautobot, firewalls, artifacts, cand, todo, held, own, changed>>

-----------------------------------------------------------------------------
(* release                                                                  *)

\* One DELETE; an error is noted and the loop goes on.
Release(a) ==
    /\ pc[a] = "undo"
    /\ \E o \in NextToRelease(todo[a]) :
        /\ Visited(a, o)
        /\ \/ /\ nautobot' = [nautobot EXCEPT ![Branch(a)] =
                                @ \ {q \in held[a] : q[1] = o}]
              /\ Fine
           \/ Fault("undeleted") /\ UNCHANGED nautobot
    /\ UNCHANGED <<firewalls, artifacts, pc, cand, held, own, changed>>

Released(a) ==
    /\ pc[a] = "undo"
    /\ todo[a] = {}
    /\ GoTo(a, "failed")
    /\ Fine
    /\ UNCHANGED <<nautobot, firewalls, artifacts, cand, todo, held, own, changed>>

-----------------------------------------------------------------------------

\* The server is restarted: the deployments under way end where they are and
\* the candidates, kept in memory only, are gone.
Crash ==
    /\ crashes < MaxCrashes
    /\ crashes' = crashes + 1
    /\ pc' = [a \in Attempts |-> IF pc[a] \in Working \cup {"planned"}
                                 THEN "dead" ELSE pc[a]]
    /\ cand' = [a \in Attempts |-> NoCandidate]
    /\ UNCHANGED <<nautobot, firewalls, artifacts, todo, held, own, changed,
                   faults>>

\* The steps of the thread that runs deployment a.
Step(a) ==
    \/ LookUp(a) \/ Decide(a) \/ ListEndpoints(a) \/ Create(a) \/ Reserved(a)
    \/ FindPolicy(a) \/ CreatePolicy(a) \/ RecordPolicies(a) \/ Patch(a)
    \/ WriteArtifacts(a) \/ PaSet(a) \/ PaCommit(a) \/ FgApply(a)
    \/ Validate(a) \/ Operate(a) \/ SaveDevice(a)
    \/ Release(a) \/ Released(a)

Request(a) == Plan(a) \/ Preflight(a) \/ \E c \in Attempts : DeployAgain(a, c)

Next == Crash \/ \E a \in Attempts : Request(a) \/ Step(a)

Spec == Init /\ [][Next]_vars

\* A thread that is under way goes on: every call it makes has a time limit.
FairSpec == Spec /\ \A a \in Attempts : WF_vars(Step(a))

-----------------------------------------------------------------------------
(* Properties *)

\* The Palo Alto runs a branch only while its whole reservation is in
\* Nautobot: once a firewall was changed the resources stay reserved
\* (deploy_candidate), so no other site is ever given them.
ServedMeansReserved ==
    \A b \in Branches : paRunning[b] # Nothing => Complete(nautobot[b])

\* Two FortiGates never hold the addressing of one branch: resources in use
\* are not offered to another site.
OneSitePerBranch ==
    \A d, e \in FortiGates :
        fgConfig[d] # Nothing /\ fgConfig[e] # Nothing /\ d # e
            => fgConfig[d][1] # fgConfig[e][1]

\* Whatever the Palo Alto runs, or would run after the next commit, belongs to
\* a branch the deployments page lists, from where it can be destroyed.
ConfiguredMeansListed ==
    \A b \in Branches :
        paRunning[b] # Nothing \/ paCandidate[b] # Nothing => b \in artifacts

\* The rollback of a failed deployment removes, when no DELETE fails, every
\* object the deployment created and recorded: those of the reservation itself,
\* and the three policies as well when the reservation is its own.  (The
\* policies a deployment adds to a reservation it reuses are not rolled back:
\* deploy_candidate releases only what it reserved.)
RecordedIsReleased ==
    \A a \in Attempts :
        pc[a] = "failed" /\ ~changed[a] /\ cand[a] # NoCandidate
            => \A q \in held[a] :
                  q[2] = a /\ (own[a] \/ q[1] \in Basic) => q \notin Inventory(a)

\* A deployment that fails before any firewall was changed leaves none of the
\* objects it created in Nautobot.
FailureLeavesNothing ==
    \A a \in Attempts :
        pc[a] = "failed" /\ ~changed[a] /\ cand[a] # NoCandidate
            => \A q \in Inventory(a) : q[2] # a

\* No endpoint outlives its address, no tunnel its endpoints or its VPN:
\* creation and release respect the dependencies, whatever interleaves.
NoDanglingReference ==
    \A b \in Branches : \A q \in nautobot[b] :
        /\ q[1] \in Endpoints => <<AddressOf(q[1]), q[2]>> \in nautobot[b]
        /\ q[1] \in TunnelObjs =>
              (EndpointsOf(q[1]) \cup {VpnOf(q[1])}) \X {q[2]} \subseteq nautobot[b]

\* An object leaves Nautobot only while the deployment that created it is
\* being undone, and never once that deployment has changed a firewall: a
\* reservation made by another deployment, or by hand, is never released.
OnlyOwnReleased ==
    [][\A b \in Branches : \A q \in nautobot[b] \ nautobot'[b] :
          q[2] \in Attempts /\ pc[q[2]] = "undo" /\ ~changed[q[2]]]_vars

\* A success is reported only for a branch that is reserved, listed, run by the
\* Palo Alto, and held by its FortiGate with all that the two validations look
\* for, although each of these was checked at another moment and the FortiGate
\* may have rejected commands.  (A rejected command that neither validation
\* looks for is not noticed by the code: the level may be short of Entire.)
SuccessMeansServed ==
    [][\A a \in Attempts :
          pc[a] = "save" /\ pc'[a] = "ok"
              => /\ Complete(Inventory(a))
                 /\ Branch(a) \in artifacts
                 /\ paRunning[Branch(a)] = <<Device(a), TRUE>>
                 /\ fgConfig[Device(a)] \in {Branch(a)} \X (Operational..Entire)]_vars

\* Seen from a branch, provisioning is a lease: BranchLease, with the branches
\* whose reservation is complete as the leased ones, and the FortiGate a branch
\* is configured for on the Palo Alto as its site.
Lease == INSTANCE BranchLease WITH
             LeaseBranches <- Branches,
             LeaseSites    <- FortiGates,
             NoSite        <- Nothing,
             leased        <- {b \in Branches : Complete(nautobot[b])},
             site          <- [b \in Branches |->
                                 IF paRunning[b] = Nothing THEN Nothing
                                                           ELSE paRunning[b][1]]

\* Deployments sent one at a time, when only clean faults happen, implement
\* the lease: a branch in service keeps its reservation and its site.
ImplementsLease == Lease!LeaseSpec

\* Every deployment that starts comes to an end.
EveryDeploymentEnds ==
    \A a \in Attempts : pc[a] = "lookup" ~> pc[a] \in Ended \cup {"dead"}

\* With nothing going wrong, every deployment that starts succeeds, also when
\* it finds the reservation an earlier one made.
NothingWrongThenDeployed ==
    \A a \in Attempts :
        pc[a] = "lookup" ~> pc[a] = "ok" \/ faults > 0 \/ crashes > 0
=============================================================================
