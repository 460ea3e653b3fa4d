--------------------------- MODULE BranchLifecycle ---------------------------
(***************************************************************************)
(* Deployments together with their counterpart, destroy_branch_deployment: *)
(* the branch is deleted from the Palo Alto, then cleaned from Nautobot,    *)
(* and its artifacts are removed when the cleaning met no error.  The       *)
(* FortiGate is left as it is.                                              *)
(*                                                                          *)
(* The cleaning finds objects by the addresses and names of the branch's    *)
(* plan, whoever created them.  A lookup that fails counts as "not there";  *)
(* a DELETE that fails is a warning.                                        *)
(*                                                                          *)
(* Faults, beside those of BranchDeployment:                                *)
(*   "delpartial"    the Palo Alto takes some deletions, then reports an    *)
(*                   error                                                  *)
(*   "delcommit"     it refuses to commit the deletions                     *)
(*   "delcommitlost" it commits them, but the output reads as an error      *)
(*   "delunseen"     the commit fails after its output was last read        *)
(*   "unlisted"      an endpoint is not on the first page of the list       *)
(***************************************************************************)
EXTENDS BranchDeployment

CONSTANT Removals     \* the destroy requests

VARIABLES
    rpc,        \* where each destroy request is
    target,     \* its branch
    rtodo,      \* the resources its current loop still has to visit
    found,      \* the addresses and endpoints it found
    warned      \* it met an error in Nautobot

removal == <<rpc, target, rtodo, found, warned>>
allVars == <<vars, removal>>

Removing == {"delete", "commit", "addresses", "tunnels", "list", "clean"}
RemovalStates == {"idle", "done", "partly", "failed", "dead"} \cup Removing

\* What the cleaning visits by name or prefix once the endpoints are known;
\* the VPN profile is not among it.
NamedResources == Vpns \cup {<<"phase1", 1>>, <<"phase2", 1>>}
CleanedLast    == NamedResources \cup Prefixes

CleanupOrder == <<"tunnel", "endpoint", "vpn", "phase2", "phase1", "ip", "prefix">>
NextToClean(S) == {o \in S : \A p \in S : Ascending(CleanupOrder, o, p)}

RemovalTypeOK ==
    /\ rpc \in [Removals -> RemovalStates]
    /\ target \in [Removals -> Branches \cup {0}]
    /\ rtodo \in [Removals -> SUBSET Resources]
    /\ found \in [Removals -> SUBSET Objects]
    /\ warned \in [Removals -> BOOLEAN]

LifecycleInit ==
    /\ Init
    /\ rpc = [r \in Removals |-> "idle"]
    /\ target = [r \in Removals |-> 0]
    /\ rtodo = [r \in Removals |-> {}]
    /\ found = [r \in Removals |-> {}]
    /\ warned = [r \in Removals |-> FALSE]

DestroyBusy == \E r \in Removals : rpc[r] \in Removing

RemovalTo(r, state) == rpc' = [rpc EXCEPT ![r] = state]
Visit(r, S) == rtodo' = [rtodo EXCEPT ![r] = S]

\* (Mutated form: a DELETE that met an error is tried again.)
UntilGone(r, o) == IF warned'[r] THEN UNCHANGED rtodo ELSE Visit(r, rtodo[r] \ {o})

\* The loop goes on to the resource after o, whatever came of o.
VisitNext(r, o) == Visit(r, rtodo[r] \ {o})
Warn(r) == warned' = [warned EXCEPT ![r] = TRUE]

-----------------------------------------------------------------------------
(* destroy_branch_deployment: the Palo Alto                                 *)

Destroy(r) ==
    /\ rpc[r] = "idle"
    /\ ~(Serial /\ (Busy \/ DestroyBusy))
    /\ \E b \in Branches \ {1} : target' = [target EXCEPT ![r] = b]
    /\ RemovalTo(r, "delete")
    /\ UNCHANGED <<vars, rtodo, found, warned>>

PaDelete(r) ==
    LET b == target[r] IN
    /\ rpc[r] = "delete"
    /\ \/ /\ paCandidate' = [paCandidate EXCEPT ![b] = Nothing]
          /\ RemovalTo(r, "commit")
          /\ Fine
       \/ /\ Fault("connect")
          /\ RemovalTo(r, "failed")
          /\ UNCHANGED paCandidate
       \/ /\ Fault("delpartial")
          /\ paCandidate' = [paCandidate EXCEPT ![b] =
                               IF @ = Nothing THEN Nothing ELSE <<@[1], FALSE>>]
          /\ RemovalTo(r, "failed")
    /\ UNCHANGED <<nautobot, paRunning, fgConfig, artifacts, pc, cand, todo, held,
                   own, changed, target, rtodo, found, warned>>

\* (Mutated form: the error is overlooked and the cleaning goes on.)
CommitIgnored(r) == RemovalTo(r, "addresses") /\ Visit(r, IPs)

CommitRefused(r) == RemovalTo(r, "failed") /\ UNCHANGED rtodo

PaDeleteCommit(r) ==
    /\ rpc[r] = "commit"
    /\ \/ /\ paRunning' = paCandidate
          /\ RemovalTo(r, "addresses") /\ Visit(r, IPs)
          /\ Fine
       \/ /\ Fault("delcommit")
          /\ CommitRefused(r)
          /\ UNCHANGED paRunning
       \/ /\ Fault("delcommitlost")
          /\ paRunning' = paCandidate
          /\ CommitRefused(r)
       \/ /\ Fault("delunseen")
          /\ RemovalTo(r, "addresses") /\ Visit(r, IPs)
          /\ UNCHANGED paRunning
    /\ UNCHANGED <<nautobot, paCandidate, fgConfig, artifacts, pc, cand, todo, held,
                   own, changed, target, found, warned>>

-----------------------------------------------------------------------------
(* cleanup_nautobot_branch                                                  *)

\* The addresses are looked up before anything that names them is removed.
FindAddress(r) ==
    /\ rpc[r] = "addresses"
    /\ \/ \E o \in NextToLookUp(rtodo[r]) :
            /\ Visit(r, rtodo[r] \ {o})
            /\ \/ /\ found' = [found EXCEPT ![r] =
                                 @ \cup ({o} \X Ids(nautobot[target[r]], o))]
                  /\ Fine
               \/ Fault("read") /\ UNCHANGED found
            /\ UNCHANGED rpc
       \/ /\ rtodo[r] = {}
          /\ RemovalTo(r, "tunnels") /\ Visit(r, TunnelObjs)
          /\ Fine /\ UNCHANGED found
    /\ UNCHANGED <<nautobot, firewalls, artifacts, pc, cand, todo, held, own,
                   changed, target, warned>>

\* The objects a visit of o would delete: addresses and endpoints are those
\* found before, the others are looked up now.
Known(r, o) == IF o \in IPs \cup Endpoints
               THEN {q \in found[r] : q[1] = o}
               ELSE {o} \X Ids(nautobot[target[r]], o)

\* One turn of a loop: look the resource up, delete what is there.
Remove(r, o) ==
    LET objects == Known(r, o) IN
    /\ \/ /\ objects \subseteq nautobot[target[r]]
          /\ nautobot' = [nautobot EXCEPT ![target[r]] = @ \ objects]
          /\ Fine /\ UNCHANGED warned
       \/ /\ ~(objects \subseteq nautobot[target[r]])     \* gone meanwhile
          /\ Warn(r)
          /\ Fine /\ UNCHANGED nautobot
       \/ /\ o \notin IPs \cup Endpoints
          /\ Fault("read")
          /\ UNCHANGED <<nautobot, warned>>
       \/ /\ objects # {}
          /\ Fault("undeleted")
          /\ Warn(r)
          /\ UNCHANGED nautobot
       \/ /\ objects # {}
          /\ Fault("lost")
          /\ nautobot' = [nautobot EXCEPT ![target[r]] = @ \ objects]
          /\ Warn(r)
    /\ VisitNext(r, o)

DropTunnel(r) ==
    /\ rpc[r] = "tunnels"
    /\ \/ /\ \E o \in NextToClean(rtodo[r]) : Remove(r, o)
          /\ UNCHANGED rpc
       \/ /\ rtodo[r] = {}
          /\ RemovalTo(r, "list")
          /\ Fine /\ UNCHANGED <<nautobot, rtodo, warned>>
    /\ UNCHANGED <<firewalls, artifacts, pc, cand, todo, held, own, changed, target,
                   found>>

\* The endpoints that name one of the addresses found, on the first page of
\* the list.
ListBranchEndpoints(r) ==
    LET matched == MatchedEndpoints(nautobot[target[r]], found[r])
        CleanAll(listed) ==
            /\ found' = [found EXCEPT ![r] = @ \cup listed]
            /\ Visit(r, CleanedLast \cup {q[1] : q \in found[r] \cup listed})
    IN
    /\ rpc[r] = "list"
    /\ \/ CleanAll(matched) /\ Fine /\ UNCHANGED warned
       \/ /\ Fault("unlisted")
          /\ \E q \in matched : CleanAll(matched \ {q})
          /\ UNCHANGED warned
       \/ Fault("read") /\ CleanAll({}) /\ Warn(r)
    /\ RemovalTo(r, "clean")
    /\ UNCHANGED <<nautobot, firewalls, artifacts, pc, cand, todo, held, own,
                   changed, target>>

Clean(r) ==
    /\ rpc[r] = "clean"
    /\ \E o \in NextToClean(rtodo[r]) : Remove(r, o)
    /\ UNCHANGED <<firewalls, artifacts, pc, cand, todo, held, own, changed, rpc,
                   target, found>>

\* (Mutated form: the warnings are not looked at.)
RemovesRegardless(r) == TRUE

RemovesArtifacts(r) == ~warned[r]

FinishDestroy(r) ==
    /\ rpc[r] = "clean"
    /\ rtodo[r] = {}
    /\ \/ /\ RemovesArtifacts(r)
          /\ artifacts' = artifacts \ {target[r]}
          /\ RemovalTo(r, "done")
          /\ Fine
       \/ /\ RemovesArtifacts(r)
          /\ Fault("refused")
          /\ RemovalTo(r, "failed")
          /\ UNCHANGED artifacts
       \/ /\ ~RemovesArtifacts(r)
          /\ RemovalTo(r, "partly")
          /\ Fine /\ UNCHANGED artifacts
    /\ UNCHANGED <<nautobot, firewalls, pc, cand, todo, held, own, changed, target,
                   rtodo, found, warned>>

-----------------------------------------------------------------------------

RemovalStep(r) ==
    \/ PaDelete(r) \/ PaDeleteCommit(r) \/ FindAddress(r) \/ DropTunnel(r)
    \/ ListBranchEndpoints(r) \/ Clean(r) \/ FinishDestroy(r)

\* A restart ends the destroy requests as well.
Restart ==
    /\ Crash
    /\ rpc' = [r \in Removals |-> IF rpc[r] \in Removing THEN "dead" ELSE rpc[r]]
    /\ UNCHANGED <<target, rtodo, found, warned>>

Deploying(a) ==
    /\ Request(a) \/ Step(a)
    /\ pc[a] = "planned" => ~(Serial /\ DestroyBusy)
    /\ UNCHANGED removal

LifecycleNext ==
    \/ Restart
    \/ \E a \in Attempts : Deploying(a)
    \/ \E r \in Removals : Destroy(r) \/ RemovalStep(r)

LifecycleSpec == LifecycleInit /\ [][LifecycleNext]_allVars

FairLifecycleSpec ==
    /\ LifecycleSpec
    /\ \A a \in Attempts : WF_allVars(Step(a) /\ UNCHANGED removal)
    /\ \A r \in Removals : WF_allVars(RemovalStep(r))

-----------------------------------------------------------------------------
(* Properties *)

LifecycleTypeOK == TypeOK /\ RemovalTypeOK

\* A destroy reported without warnings has freed the branch, also when it
\* retries one that stopped half-way: no prefix, address, VPN, tunnel or policy
\* of it is left in Nautobot, the Palo Alto neither runs it nor would run it
\* after the next commit.  (An endpoint can be left: once a cleaning that could
\* not delete it has deleted its address, no later one finds it.)
DestroyedIsFree ==
    [][\A r \in Removals : rpc[r] = "clean" /\ rpc'[r] = "done" =>
          LET b == target[r] IN
          /\ \A q \in nautobot[b] : q[1] \in Endpoints \cup {<<"profile", 1>>}
          /\ paRunning[b] = Nothing /\ paCandidate[b] = Nothing]_allVars

\* A destroy reported without warnings leaves nothing of the branch in Nautobot
\* ("Nautobot: remove recursos da branch").
DestroyedMeansGone ==
    [][\A r \in Removals : rpc[r] = "clean" /\ rpc'[r] = "done" =>
          nautobot[target[r]] = {}]_allVars

\* Every destroy that starts comes to an end.
EveryDestroyEnds ==
    \A r \in Removals : rpc[r] = "delete" ~> rpc[r] \notin Removing
=============================================================================
