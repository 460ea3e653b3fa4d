------------------------- MODULE BranchLifecycleProofs -------------------------
(***************************************************************************)
(* Proofs about BranchLifecycle: deployments and destroys together, for     *)
(* every number of tunnels, branches, FortiGates, deployments and destroys. *)
(***************************************************************************)
EXTENDS BranchLifecycle, BranchDeploymentProofs

-----------------------------------------------------------------------------
(* Type correctness.  A destroy under way has a branch.                     *)

LifecycleTypeInv ==
    /\ TypeInv
    /\ RemovalTypeOK
    /\ \A r \in Removals : rpc[r] \in Removing => target[r] \in Branches

\* What the step of a destroy must still show.
LEMMA RemovalTypeStep ==
    ASSUME LifecycleTypeInv, RemovalTypeOK',
           UNCHANGED <<fgConfig, pc, cand, todo, held, own, changed>>,
           \A r \in Removals : rpc'[r] \in Removing => target'[r] \in Branches,
           nautobot' \in [Branches -> SUBSET Objects],
           paCandidate' \in [Branches -> PaConfigs],
           paRunning' \in [Branches -> PaConfigs],
           artifacts' \subseteq Branches,
           Fine \/ \E kind : Fault(kind)
    PROVE  LifecycleTypeInv'
<1>1. faults' \in 0..MaxFaults /\ crashes' \in 0..MaxCrashes
  BY DeploymentAssumption DEF LifecycleTypeInv, TypeInv, TypeOK, Fine, Fault, history
<1> QED
  BY <1>1 DEF LifecycleTypeInv, TypeInv, TypeOK, ControlOK

\* The objects a destroy takes away, and those it leaves.
LEMMA RemoveTypes ==
    ASSUME LifecycleTypeInv, NEW r \in Removals, NEW o \in Resources,
           rpc[r] \in Removing, Remove(r, o)
    PROVE  /\ nautobot' \in [Branches -> SUBSET Objects]
           /\ rtodo' \in [Removals -> SUBSET Resources]
           /\ warned' \in [Removals -> BOOLEAN]
           /\ Fine \/ \E kind : Fault(kind)
<1>1. target[r] \in Branches
  BY DEF LifecycleTypeInv
<1>2. PICK objects : nautobot' \in {nautobot, [nautobot EXCEPT ![target[r]] = @ \ objects]}
  BY DEF Remove
<1>3. nautobot' \in [Branches -> SUBSET Objects]
  BY <1>1, <1>2 DEF LifecycleTypeInv, TypeInv, TypeOK
<1>4. rtodo' = [rtodo EXCEPT ![r] = rtodo[r] \ {o}]
  BY DEF Remove, VisitNext, Visit
<1>5. warned' \in {warned, [warned EXCEPT ![r] = TRUE]} /\ (Fine \/ \E kind : Fault(kind))
  BY DEF Remove, Warn
<1> QED
  BY <1>3, <1>4, <1>5 DEF LifecycleTypeInv, RemovalTypeOK

LEMMA DestroyTypes ==
    ASSUME LifecycleTypeInv, NEW r \in Removals, Destroy(r) \/ RemovalStep(r)
    PROVE  LifecycleTypeInv'
<1> USE DEF RemovalStates, Removing
<1>0. /\ RemovalTypeOK
      /\ nautobot \in [Branches -> SUBSET Objects]
      /\ paCandidate \in [Branches -> PaConfigs]
      /\ paRunning \in [Branches -> PaConfigs]
      /\ artifacts \subseteq Branches
  BY DEF LifecycleTypeInv, TypeInv, TypeOK
<1>1. CASE Destroy(r)
  BY <1>0, <1>1, RemovalTypeStep
     DEF Destroy, RemovalTo, vars, firewalls, history, Fine, LifecycleTypeInv, RemovalTypeOK
<1>2. CASE PaDelete(r)
  <2>1. target[r] \in Branches
    BY <1>2 DEF PaDelete, LifecycleTypeInv
  <2>2. /\ Nothing \in PaConfigs
        /\ \A config \in PaConfigs \ {Nothing} : <<config[1], FALSE>> \in PaConfigs
    BY DEF PaConfigs
  <2>3. PICK new \in PaConfigs :
            paCandidate' \in {paCandidate, [paCandidate EXCEPT ![target[r]] = new]}
    <3> DEFINE config == paCandidate[target[r]]
               cut == IF config = Nothing THEN Nothing ELSE <<config[1], FALSE>>
    <3>1. cut \in PaConfigs
      BY <1>0, <2>1, <2>2
    <3>2. \/ paCandidate' = paCandidate
          \/ paCandidate' = [paCandidate EXCEPT ![target[r]] = Nothing]
          \/ paCandidate' = [paCandidate EXCEPT ![target[r]] = cut]
      BY <1>2 DEF PaDelete
    <3> QED
      BY <2>2, <3>1, <3>2
  <2>4. paCandidate' \in [Branches -> PaConfigs]
    BY <1>0, <2>1, <2>3
  <2>5. RemovalTypeOK' /\ \A s \in Removals : rpc'[s] \in Removing => target'[s] \in Branches
    BY <1>2 DEF PaDelete, RemovalTo, LifecycleTypeInv, RemovalTypeOK
  <2> QED
    BY <1>0, <1>2, <2>4, <2>5, RemovalTypeStep DEF PaDelete
<1>3. CASE PaDeleteCommit(r)
  <2>1. RemovalTypeOK' /\ \A s \in Removals : rpc'[s] \in Removing => target'[s] \in Branches
    BY <1>3, ResourceSubsets
       DEF PaDeleteCommit, CommitRefused, RemovalTo, Visit, LifecycleTypeInv, RemovalTypeOK
  <2> QED
    BY <1>0, <1>3, <2>1, RemovalTypeStep DEF PaDeleteCommit
<1>4. CASE FindAddress(r)
  <2>1. \A o : {o} \X Ids(nautobot[target[r]], o) \subseteq nautobot[target[r]]
    BY DEF Ids
  <2>2. nautobot[target[r]] \subseteq Objects
    BY <1>0, <1>4 DEF FindAddress, LifecycleTypeInv
  <2>3. found' \in [Removals -> SUBSET Objects]
    BY <1>0, <1>4, <2>1, <2>2 DEF FindAddress, RemovalTypeOK
  <2>4. rtodo' \in [Removals -> SUBSET Resources]
    BY <1>0, <1>4, ResourceSubsets DEF FindAddress, Visit, RemovalTypeOK, Resources, Basic
  <2>5. RemovalTypeOK' /\ \A s \in Removals : rpc'[s] \in Removing => target'[s] \in Branches
    BY <1>4, <2>3, <2>4 DEF FindAddress, RemovalTo, LifecycleTypeInv, RemovalTypeOK
  <2> QED
    BY <1>0, <1>4, <2>5, RemovalTypeStep DEF FindAddress, firewalls
<1>5. CASE DropTunnel(r)
  <2>1. CASE \E o \in NextToClean(rtodo[r]) : Remove(r, o) /\ UNCHANGED rpc
    <3>1. PICK o \in Resources : Remove(r, o)
      BY <1>0, <2>1 DEF NextToClean, RemovalTypeOK
    <3>2. /\ nautobot' \in [Branches -> SUBSET Objects]
          /\ rtodo' \in [Removals -> SUBSET Resources]
          /\ warned' \in [Removals -> BOOLEAN]
          /\ Fine \/ \E kind : Fault(kind)
      BY <1>5, <3>1, RemoveTypes DEF DropTunnel
    <3>3. RemovalTypeOK' /\ \A s \in Removals : rpc'[s] \in Removing => target'[s] \in Branches
      BY <1>5, <2>1, <3>2 DEF DropTunnel, LifecycleTypeInv, RemovalTypeOK
    <3> QED
      BY <1>0, <1>5, <3>2, <3>3, RemovalTypeStep DEF DropTunnel, firewalls
  <2>2. CASE RemovalTo(r, "list") /\ Fine /\ UNCHANGED <<nautobot, rtodo, warned>>
    <3>1. RemovalTypeOK' /\ \A s \in Removals : rpc'[s] \in Removing => target'[s] \in Branches
      BY <1>5, <2>2 DEF DropTunnel, RemovalTo, LifecycleTypeInv, RemovalTypeOK
    <3> QED
      BY <1>0, <1>5, <2>2, <3>1, RemovalTypeStep DEF DropTunnel, firewalls
  <2> QED
    BY <1>5, <2>1, <2>2 DEF DropTunnel
<1>6. CASE ListBranchEndpoints(r)
  <2>1. MatchedEndpoints(nautobot[target[r]], found[r]) \subseteq Objects
    BY <1>0, <1>6 DEF ListBranchEndpoints, LifecycleTypeInv, MatchedEndpoints
  <2>2. PICK listed \in SUBSET MatchedEndpoints(nautobot[target[r]], found[r]) :
            /\ found' = [found EXCEPT ![r] = @ \cup listed]
            /\ Visit(r, CleanedLast \cup {q[1] : q \in found[r] \cup listed})
            /\ warned' \in {warned, [warned EXCEPT ![r] = TRUE]}
            /\ Fine \/ \E kind : Fault(kind)
    BY <1>6 DEF ListBranchEndpoints, Warn
  <2>3. CleanedLast \cup {q[1] : q \in found[r] \cup listed} \subseteq Resources
    BY <1>0, <2>1, <2>2 DEF CleanedLast, NamedResources, Resources, Basic, Policies, Objects,
                            RemovalTypeOK
  <2>4. found' \in [Removals -> SUBSET Objects] /\ rtodo' \in [Removals -> SUBSET Resources]
    BY <1>0, <2>1, <2>2, <2>3 DEF Visit, RemovalTypeOK
  <2>5. RemovalTypeOK' /\ \A s \in Removals : rpc'[s] \in Removing => target'[s] \in Branches
    BY <1>6, <2>2, <2>4 DEF ListBranchEndpoints, RemovalTo, LifecycleTypeInv, RemovalTypeOK
  <2> QED
    BY <1>0, <1>6, <2>2, <2>5, RemovalTypeStep DEF ListBranchEndpoints, firewalls
<1>7. CASE Clean(r)
  <2>1. PICK o \in Resources : Remove(r, o)
    BY <1>0, <1>7 DEF Clean, NextToClean, RemovalTypeOK
  <2>2. /\ nautobot' \in [Branches -> SUBSET Objects]
        /\ rtodo' \in [Removals -> SUBSET Resources]
        /\ warned' \in [Removals -> BOOLEAN]
        /\ Fine \/ \E kind : Fault(kind)
    BY <1>7, <2>1, RemoveTypes DEF Clean
  <2>3. RemovalTypeOK' /\ \A s \in Removals : rpc'[s] \in Removing => target'[s] \in Branches
    BY <1>7, <2>2 DEF Clean, LifecycleTypeInv, RemovalTypeOK
  <2> QED
    BY <1>0, <1>7, <2>2, <2>3, RemovalTypeStep DEF Clean, firewalls
<1>8. CASE FinishDestroy(r)
  <2>1. RemovalTypeOK' /\ \A s \in Removals : rpc'[s] \in Removing => target'[s] \in Branches
    BY <1>8 DEF FinishDestroy, RemovalTo, LifecycleTypeInv, RemovalTypeOK
  <2>2. artifacts' \subseteq Branches
    BY <1>0, <1>8 DEF FinishDestroy
  <2> QED
    BY <1>0, <1>8, <2>1, <2>2, RemovalTypeStep DEF FinishDestroy, firewalls
<1> QED
  BY <1>1, <1>2, <1>3, <1>4, <1>5, <1>6, <1>7, <1>8 DEF RemovalStep

THEOREM LifecycleTypeInvariance == LifecycleSpec => []LifecycleTypeInv
<1>1. LifecycleInit => LifecycleTypeInv
  BY TypeStarts DEF LifecycleInit, LifecycleTypeInv, RemovalTypeOK, RemovalStates, Removing
<1>2. ASSUME LifecycleTypeInv, [LifecycleNext]_allVars
      PROVE  LifecycleTypeInv'
  <2>1. CASE UNCHANGED allVars
    <3>1. TypeInv'
      BY <1>2, <2>1, TypeKept DEF allVars, LifecycleTypeInv
    <3> QED
      BY <1>2, <2>1, <3>1 DEF allVars, removal, LifecycleTypeInv, RemovalTypeOK
  <2>2. CASE Restart
    <3>1. TypeInv'
      BY <1>2, <2>2, TypeKept DEF Restart, Next, LifecycleTypeInv
    <3> QED
      BY <1>2, <2>2, <3>1 DEF Restart, LifecycleTypeInv, RemovalTypeOK, RemovalStates, Removing
  <2>3. ASSUME NEW a \in Attempts, Deploying(a)
        PROVE  LifecycleTypeInv'
    <3>1. TypeInv'
      BY <1>2, <2>3, TypeKept DEF Deploying, Next, LifecycleTypeInv
    <3> QED
      BY <1>2, <2>3, <3>1 DEF Deploying, removal, LifecycleTypeInv, RemovalTypeOK
  <2> QED
    BY <1>2, <2>1, <2>2, <2>3, DestroyTypes DEF LifecycleNext
<1> QED
  BY <1>1, <1>2, PTL DEF LifecycleSpec

\* Deployments and destroys keep the types of all variables, whatever fails
\* and however they interleave.
THEOREM LifecycleTypeCorrect == LifecycleSpec => []LifecycleTypeOK
  BY LifecycleTypeInvariance, PTL DEF LifecycleTypeInv, TypeInv, LifecycleTypeOK

-----------------------------------------------------------------------------
(* With requests sent one at a time, a destroy has the branch to itself.    *)
(* The commit of the deletions must not fail unseen, and the lookups of the *)
(* cleaning must not fail: each is taken for an absent object.              *)

SeenDestroy == Faults \cap {"delunseen"} = {}
CleanLookup == Faults \cap {"delunseen", "read", "unlisted"} = {}

TurnInv ==
    /\ \A r, s \in Removals : rpc[r] \in Removing /\ rpc[s] \in Removing => r = s
    /\ DestroyBusy => ~Busy

\* The Palo Alto has no configuration of the branch any more.
Cleaning == {"addresses", "tunnels", "list", "clean"}

ForgottenInv ==
    \A r \in Removals :
        /\ rpc[r] \in {"commit"} \cup Cleaning => paCandidate[target[r]] = Nothing
        /\ rpc[r] \in Cleaning => paRunning[target[r]] = Nothing

LEMMA WorkersStep ==
    ASSUME NEW a \in Attempts, Step(a)
    PROVE  pc[a] \in Working
  BY DEF Step, LookUp, Decide, ListEndpoints, Create, Reserved, FindPolicy, CreatePolicy,
         RecordPolicies, Patch, WriteArtifacts, PaSet, PaCommit, FgApply, Validate, Operate,
         SaveDevice, Release, Released, Working

\* While a destroy is under way no deployment changes anything but its candidate.
LEMMA DeploymentsWait ==
    ASSUME Serial, LifecycleTypeInv, TurnInv, DestroyBusy,
           NEW a \in Attempts, Deploying(a)
    PROVE  /\ UNCHANGED <<nautobot, firewalls, artifacts>>
           /\ \A c \in Attempts : pc'[c] \in Working => pc[c] \in Working
<1>1. ~Step(a) /\ ~Preflight(a)
  BY WorkersStep DEF TurnInv, Busy, Deploying, Preflight
<1>2. Plan(a) \/ \E c \in Attempts : DeployAgain(a, c)
  BY <1>1 DEF Deploying, Request
<1> QED
  BY <1>2 DEF Plan, DeployAgain, GoTo, Working, LifecycleTypeInv, TypeInv, TypeOK

\* A destroy begins when nothing is under way, and goes on alone.
LEMMA DestroyAlone ==
    ASSUME Serial, LifecycleTypeInv, TurnInv, NEW r \in Removals,
           Destroy(r) \/ RemovalStep(r)
    PROVE  /\ \A s \in Removals \ {r} : rpc[s] \notin Removing
           /\ UNCHANGED <<pc, cand>> /\ ~Busy
           /\ \A s \in Removals \ {r} : rpc'[s] = rpc[s]
<1>1. \/ ~Busy /\ ~DestroyBusy
      \/ rpc[r] \in Removing
  BY DEF Destroy, RemovalStep, PaDelete, PaDeleteCommit, FindAddress, DropTunnel,
         ListBranchEndpoints, Clean, FinishDestroy, Removing
<1>2. UNCHANGED <<pc, cand>>
  BY DEF Destroy, RemovalStep, PaDelete, PaDeleteCommit, FindAddress, DropTunnel,
         ListBranchEndpoints, Clean, FinishDestroy, vars
<1>3. rpc' = rpc \/ \E state : RemovalTo(r, state)
  BY DEF Destroy, RemovalStep, PaDelete, PaDeleteCommit, FindAddress, DropTunnel,
         ListBranchEndpoints, Clean, FinishDestroy, CommitRefused
<1>4. \A s \in Removals \ {r} : rpc'[s] = rpc[s]
  BY <1>3 DEF RemovalTo, LifecycleTypeInv, RemovalTypeOK
<1> QED
  BY <1>1, <1>2, <1>4 DEF TurnInv, DestroyBusy

LEMMA TurnStep ==
    ASSUME Serial, LifecycleTypeInv, TurnInv, [LifecycleNext]_allVars
    PROVE  TurnInv'
<1>1. CASE UNCHANGED allVars
  BY <1>1 DEF allVars, vars, removal, TurnInv, DestroyBusy, Busy
<1>2. CASE Restart
  BY <1>2 DEF Restart, TurnInv, DestroyBusy, Removing, LifecycleTypeInv, RemovalTypeOK
<1>3. ASSUME NEW a \in Attempts, Deploying(a)
      PROVE  TurnInv'
  <2>1. UNCHANGED rpc
    BY <1>3 DEF Deploying, removal
  <2>2. DestroyBusy => ~Busy'
    BY <1>3, DeploymentsWait DEF TurnInv, Busy
  <2> QED
    BY <2>1, <2>2 DEF TurnInv, DestroyBusy
<1>4. ASSUME NEW r \in Removals, Destroy(r) \/ RemovalStep(r)
      PROVE  TurnInv'
  <2>1. ~Busy'
    BY <1>4, DestroyAlone DEF Busy
  <2> QED
    BY <1>4, <2>1, DestroyAlone DEF TurnInv
<1> QED
  BY <1>1, <1>2, <1>3, <1>4 DEF LifecycleNext

LEMMA ForgottenStep ==
    ASSUME Serial, SeenDestroy, LifecycleTypeInv, TurnInv, ForgottenInv,
           [LifecycleNext]_allVars
    PROVE  ForgottenInv'
<1> USE DEF ForgottenInv, Cleaning, Removing
<1>1. CASE UNCHANGED allVars
  BY <1>1 DEF allVars, vars, removal, firewalls
<1>2. CASE Restart
  BY <1>2 DEF Restart, Crash, firewalls, LifecycleTypeInv, RemovalTypeOK
<1>3. ASSUME NEW a \in Attempts, Deploying(a)
      PROVE  ForgottenInv'
  <2>1. UNCHANGED <<rpc, target>>
    BY <1>3 DEF Deploying, removal
  <2>2. DestroyBusy => UNCHANGED firewalls
    BY <1>3, DeploymentsWait
  <2> QED
    BY <2>1, <2>2 DEF DestroyBusy, firewalls
<1>4. ASSUME NEW r \in Removals, Destroy(r) \/ RemovalStep(r)
      PROVE  ForgottenInv'
  <2>1. \A s \in Removals \ {r} : rpc'[s] \notin Removing
    BY <1>4, DestroyAlone
  <2>2. SUFFICES /\ rpc'[r] \in {"commit"} \cup Cleaning => paCandidate'[target'[r]] = Nothing
                 /\ rpc'[r] \in Cleaning => paRunning'[target'[r]] = Nothing
    BY <2>1
  <2>3. CASE Destroy(r)
    BY <2>3 DEF Destroy, RemovalTo, LifecycleTypeInv, RemovalTypeOK
  <2>4. CASE PaDelete(r)
    <3>1. target' = target /\ target[r] \in Branches
      BY <2>4 DEF PaDelete, LifecycleTypeInv
    <3>2. \/ rpc'[r] = "failed"
          \/ rpc'[r] = "commit" /\ paCandidate' = [paCandidate EXCEPT ![target[r]] = Nothing]
      BY <2>4 DEF PaDelete, RemovalTo, LifecycleTypeInv, RemovalTypeOK
    <3> QED
      BY <3>1, <3>2 DEF LifecycleTypeInv, TypeInv, TypeOK
  <2>5. CASE PaDeleteCommit(r)
    BY <2>5 DEF PaDeleteCommit, RemovalTo, CommitRefused, SeenDestroy, Fault, LifecycleTypeInv,
                RemovalTypeOK
  <2>6. CASE \/ FindAddress(r) \/ DropTunnel(r) \/ ListBranchEndpoints(r)
             \/ Clean(r) \/ FinishDestroy(r)
    <3>1. UNCHANGED <<firewalls, target>> /\ rpc[r] \in Cleaning
      BY <2>6 DEF FindAddress, DropTunnel, ListBranchEndpoints, Clean, FinishDestroy
    <3> QED
      BY <3>1 DEF firewalls
  <2> QED
    BY <1>4, <2>3, <2>4, <2>5, <2>6 DEF RemovalStep
<1> QED
  BY <1>1, <1>2, <1>3, <1>4 DEF LifecycleNext

THEOREM ForgottenInvariance ==
    ASSUME Serial, SeenDestroy
    PROVE  LifecycleSpec => [](TurnInv /\ ForgottenInv)
<1>1. LifecycleInit => TurnInv /\ ForgottenInv
  BY DEF LifecycleInit, TurnInv, ForgottenInv, DestroyBusy, Removing, Cleaning
<1> QED
  BY <1>1, TurnStep, ForgottenStep, LifecycleTypeInvariance, PTL DEF LifecycleSpec

-----------------------------------------------------------------------------
(* What a destroy leaves on the Palo Alto is still listed.                  *)

LEMMA LifecycleListStep ==
    ASSUME Serial, SeenDestroy, LifecycleTypeInv, TurnInv, ForgottenInv, ListInv,
           [LifecycleNext]_allVars
    PROVE  ListInv'
<1>1. CASE UNCHANGED allVars \/ Restart \/ \E a \in Attempts : Deploying(a)
  <2>1. [Next]_vars
    BY <1>1 DEF allVars, Restart, Deploying, Next
  <2> QED
    BY <2>1, ListStep DEF LifecycleTypeInv
<1>2. ASSUME NEW r \in Removals, Destroy(r) \/ RemovalStep(r)
      PROVE  ListInv'
  <2>1. UNCHANGED <<pc, cand>> /\ \A a \in Attempts : pc[a] \notin Working
    BY <1>2, DestroyAlone DEF Busy
  <2>2. \A a \in Attempts : pc'[a] \notin {"paset", "pacommit"}
    BY <2>1 DEF Working
  <2>3. SUFFICES ConfiguredMeansListed'
    BY <2>2 DEF ListInv
  <2> USE DEF ListInv, ConfiguredMeansListed
  <2>4. CASE \/ Destroy(r) \/ FindAddress(r) \/ DropTunnel(r) \/ ListBranchEndpoints(r)
             \/ Clean(r)
    BY <2>4 DEF Destroy, FindAddress, DropTunnel, ListBranchEndpoints, Clean, firewalls, vars
  <2>5. CASE PaDelete(r)
    <3>1. UNCHANGED <<paRunning, artifacts>>
      BY <2>5 DEF PaDelete
    <3>2. \A b \in Branches : paCandidate'[b] # Nothing => paCandidate[b] # Nothing
      <4>1. target[r] \in Branches
        BY <2>5 DEF PaDelete, LifecycleTypeInv, Removing
      <4>2. PICK new : /\ paCandidate' = paCandidate \/ paCandidate' = [paCandidate EXCEPT ![target[r]] = new]
                       /\ paCandidate[target[r]] = Nothing => new = Nothing
        <5> DEFINE config == paCandidate[target[r]]
                   cut == IF config = Nothing THEN Nothing ELSE <<config[1], FALSE>>
        <5>1. \/ paCandidate' = paCandidate
              \/ paCandidate' = [paCandidate EXCEPT ![target[r]] = Nothing]
              \/ paCandidate' = [paCandidate EXCEPT ![target[r]] = cut]
          BY <2>5 DEF PaDelete
        <5> QED
          BY <5>1
      <4> QED
        BY <4>1, <4>2 DEF LifecycleTypeInv, TypeInv, TypeOK
    <3> QED
      BY <3>1, <3>2
  <2>6. CASE PaDeleteCommit(r)
    <3>1. UNCHANGED <<paCandidate, artifacts>> /\ paRunning' \in {paRunning, paCandidate}
      BY <2>6 DEF PaDeleteCommit
    <3> QED
      BY <3>1
  <2>7. CASE FinishDestroy(r)
    <3>1. /\ UNCHANGED <<paCandidate, paRunning>>
          /\ artifacts' \in {artifacts, artifacts \ {target[r]}}
          /\ rpc[r] = "clean"
      BY <2>7 DEF FinishDestroy, firewalls
    <3>2. paCandidate[target[r]] = Nothing /\ paRunning[target[r]] = Nothing
      BY <3>1 DEF ForgottenInv, Cleaning
    <3> QED
      BY <3>1, <3>2
  <2> QED
    BY <1>2, <2>4, <2>5, <2>6, <2>7 DEF RemovalStep
<1> QED
  BY <1>1, <1>2 DEF LifecycleNext

\* A branch of which anything is left on the Palo Alto stays on the page from
\* which it can be destroyed, also after destroys that stopped half-way.
THEOREM LifecycleConfiguredIsListed ==
    ASSUME Serial, SeenDestroy
    PROVE  LifecycleSpec => []ConfiguredMeansListed
<1>1. LifecycleInit => ListInv
  BY DEF LifecycleInit, Init, ListInv, ConfiguredMeansListed
<1> QED
  BY <1>1, LifecycleListStep, LifecycleTypeInvariance, ForgottenInvariance, PTL
     DEF LifecycleSpec, ListInv

-----------------------------------------------------------------------------
(* What is served stays reserved.  A destroy finds no deployment under way, *)
(* so that of SafeInv only KeptInv is at stake: it adds nothing to the      *)
(* Palo Alto, and cleans only what the Palo Alto has forgotten.             *)

\* The steps on the Palo Alto leave a branch it does not know unknown.
LEMMA DestroyAddsNothing ==
    ASSUME LifecycleTypeInv, NEW r \in Removals, Destroy(r) \/ RemovalStep(r),
           NEW b \in Branches, Untouched(b)
    PROVE  Untouched(b)'
<1>1. CASE PaDelete(r)
  <2>1. target[r] \in Branches /\ paRunning' = paRunning
    BY <1>1 DEF PaDelete, LifecycleTypeInv, Removing
  <2> DEFINE config == paCandidate[target[r]]
             cut == IF config = Nothing THEN Nothing ELSE <<config[1], FALSE>>
  <2>2. \/ paCandidate' = paCandidate
        \/ paCandidate' = [paCandidate EXCEPT ![target[r]] = Nothing]
        \/ paCandidate' = [paCandidate EXCEPT ![target[r]] = cut]
    BY <1>1 DEF PaDelete
  <2>3. config = Nothing => cut = Nothing
    OBVIOUS
  <2> HIDE DEF cut
  <2> QED
    BY <2>1, <2>2, <2>3 DEF Untouched, LifecycleTypeInv, TypeInv, TypeOK
<1>2. CASE PaDeleteCommit(r)
  BY <1>2 DEF PaDeleteCommit, Untouched
<1>3. CASE \/ Destroy(r) \/ FindAddress(r) \/ DropTunnel(r) \/ ListBranchEndpoints(r)
           \/ Clean(r) \/ FinishDestroy(r)
  BY <1>3
     DEF Destroy, FindAddress, DropTunnel, ListBranchEndpoints, Clean, FinishDestroy,
         firewalls, vars, Untouched
<1> QED
  BY <1>1, <1>2, <1>3 DEF RemovalStep

\* Objects are only taken from a branch the Palo Alto has forgotten.
LEMMA OnlyForgottenIsCleaned ==
    ASSUME LifecycleTypeInv, ForgottenInv, NEW r \in Removals,
           Destroy(r) \/ RemovalStep(r), NEW b \in Branches
    PROVE  nautobot'[b] = nautobot[b] \/ Untouched(b)
<1>1. CASE DropTunnel(r) \/ Clean(r)
  <2>1. rpc[r] \in Cleaning
    BY <1>1 DEF DropTunnel, Clean, Cleaning
  <2>2. target[r] \in Branches /\ Untouched(target[r])
    BY <2>1 DEF ForgottenInv, Untouched, LifecycleTypeInv, Removing, Cleaning
  <2>3. PICK objects :
            nautobot' \in {nautobot, [nautobot EXCEPT ![target[r]] = @ \ objects]}
    BY <1>1 DEF DropTunnel, Clean, Remove
  <2> QED
    BY <2>2, <2>3 DEF LifecycleTypeInv, TypeInv, TypeOK
<1>2. CASE \/ Destroy(r) \/ PaDelete(r) \/ PaDeleteCommit(r) \/ FindAddress(r)
           \/ ListBranchEndpoints(r) \/ FinishDestroy(r)
  BY <1>2
     DEF Destroy, PaDelete, PaDeleteCommit, FindAddress, ListBranchEndpoints,
         FinishDestroy, vars
<1> QED
  BY <1>1, <1>2 DEF RemovalStep

LEMMA LifecycleSafeStep ==
    ASSUME Serial, CleanPaloAlto, LifecycleTypeInv, TurnInv, ForgottenInv,
           OwnInv, SafeInv, [LifecycleNext]_allVars
    PROVE  OwnInv' /\ SafeInv'
<1>1. CASE UNCHANGED allVars \/ Restart \/ \E a \in Attempts : Deploying(a)
  <2>1. [Next]_vars
    BY <1>1 DEF allVars, Restart, Deploying, Next
  <2> QED
    BY <2>1, OwnStep, SafeStep DEF LifecycleTypeInv
<1>2. ASSUME NEW r \in Removals, Destroy(r) \/ RemovalStep(r)
      PROVE  OwnInv' /\ SafeInv'
  <2>1. UNCHANGED <<held, own, changed>>
    BY <1>2
       DEF Destroy, RemovalStep, PaDelete, PaDeleteCommit, FindAddress, DropTunnel,
           ListBranchEndpoints, Clean, FinishDestroy, vars
  <2>2. UNCHANGED pc /\ \A a \in Attempts : pc[a] \notin Working
    BY <1>2, DestroyAlone DEF Busy
  <2>3. OwnInv'
    BY <2>1, <2>2 DEF OwnInv, OwnObjects
  <2>4. KeptInv'
    BY <1>2, DestroyAddsNothing, OnlyForgottenIsCleaned DEF SafeInv, KeptInv
  <2> QED
    BY <2>2, <2>3, <2>4, AtRest DEF SafeInv, AloneInv
<1> QED
  BY <1>1, <1>2 DEF LifecycleNext

\* Whatever is deployed and destroyed, one request at a time, the Palo Alto
\* runs a branch only while its whole reservation is in Nautobot: a destroy
\* takes the reservation away only after the firewall
\* (destroy_branch_deployment), however often it stops half-way.
THEOREM LifecycleServedIsReserved ==
    ASSUME Serial, CleanPaloAlto, SeenDestroy
    PROVE  LifecycleSpec => []ServedMeansReserved
<1>1. LifecycleInit => OwnInv /\ SafeInv
  BY OwnStarts, SafeStarts DEF LifecycleInit
<1>2. SafeInv => ServedMeansReserved
  BY DEF SafeInv, KeptInv, Untouched, ServedMeansReserved
<1> QED
  BY <1>1, <1>2, LifecycleSafeStep, LifecycleTypeInvariance, ForgottenInvariance, PTL
     DEF LifecycleSpec

-----------------------------------------------------------------------------
(* What a destroy without a warning has cleaned.  All addresses were seen   *)
(* before anything was deleted; from then on what is left of the branch is  *)
(* still to be visited.                                                     *)

Remains(r) == nautobot[target[r]]

AddressesSeen(r) == \A q \in Remains(r) : q[1] \in IPs => q \in found[r]

CleanedOK(r) ==
    /\ rpc[r] = "addresses" =>
           \A q \in Remains(r) : q[1] \in IPs \ rtodo[r] => q \in found[r]
    /\ rpc[r] \in {"tunnels", "list", "clean"} => AddressesSeen(r)
    /\ rpc[r] = "tunnels" /\ ~warned[r] =>
           \A q \in Remains(r) : q[1] \in TunnelObjs => q[1] \in rtodo[r]
    /\ rpc[r] = "list" /\ ~warned[r] => \A q \in Remains(r) : q[1] \notin TunnelObjs
    /\ rpc[r] = "clean" /\ ~warned[r] =>
           \A q \in Remains(r) : q[1] \in rtodo[r] \cup Endpoints \cup {<<"profile", 1>>}

CleanedInv == \A r \in Removals : CleanedOK(r)

LEMMA KindsApart ==
    /\ IPs \cap (Endpoints \cup TunnelObjs) = {}
    /\ TunnelObjs \cap Endpoints = {}
  BY DEF IPs, Endpoints, TunnelObjs, Numbered

\* One turn of a cleaning loop takes every object of the resource away, or warns.
LEMMA RemoveCleans ==
    ASSUME CleanLookup, LifecycleTypeInv, NEW r \in Removals, NEW o \in Resources,
           rpc[r] \in Removing, Remove(r, o), target' = target,
           AddressesSeen(r), o \notin Endpoints
    PROVE  /\ Remains(r)' \subseteq Remains(r)
           /\ rtodo'[r] = rtodo[r] \ {o}
           /\ warned[r] => warned'[r]
           /\ ~warned'[r] => \A q \in Remains(r)' : q[1] # o
<1>1. target[r] \in Branches /\ Remains(r) \subseteq Objects
  BY DEF LifecycleTypeInv, TypeInv, TypeOK, Remains
<1>2. rtodo'[r] = rtodo[r] \ {o}
  BY DEF Remove, VisitNext, Visit, LifecycleTypeInv, RemovalTypeOK
<1> DEFINE objects == Known(r, o)
<1>3. \A q \in Remains(r) : q[1] = o => q \in objects
  BY <1>1 DEF Known, AddressesSeen, Ids, Remains, Objects
<1>4. \/ nautobot' = [nautobot EXCEPT ![target[r]] = @ \ objects]
      \/ nautobot' = nautobot /\ Warn(r)
  BY DEF Remove, CleanLookup, Fault
<1>5. warned' = warned \/ Warn(r)
  BY DEF Remove
<1>6. (warned[r] => warned'[r]) /\ (Warn(r) => warned'[r])
  BY <1>5 DEF Warn, LifecycleTypeInv, RemovalTypeOK
<1>7. CASE nautobot' = [nautobot EXCEPT ![target[r]] = @ \ objects]
  <2>1. Remains(r)' = Remains(r) \ objects
    BY <1>1, <1>7 DEF Remains, LifecycleTypeInv, TypeInv, TypeOK
  <2> QED
    BY <1>2, <1>3, <1>6, <2>1
<1>8. CASE nautobot' = nautobot /\ Warn(r)
  BY <1>2, <1>6, <1>8 DEF Remains
<1> QED
  BY <1>4, <1>7, <1>8

\* While an object of a branch may be cleaned, nothing is created in it.
LEMMA CleanedElsewhere ==
    ASSUME CleanedInv, NEW r \in Removals,
           UNCHANGED <<nautobot, target, found, rtodo, warned>>, rpc'[r] = rpc[r]
    PROVE  CleanedOK(r)'
  BY DEF CleanedInv, CleanedOK, AddressesSeen, Remains

LEMMA CleanedAddresses ==
    ASSUME CleanLookup, LifecycleTypeInv, CleanedInv, NEW r \in Removals, FindAddress(r)
    PROVE  CleanedOK(r)'
<1>1. /\ UNCHANGED <<nautobot, target, warned>> /\ rpc[r] = "addresses"
      /\ Remains(r)' = Remains(r) /\ Remains(r) \subseteq Objects
  BY DEF FindAddress, Remains, LifecycleTypeInv, TypeInv, TypeOK, Removing
<1>2. CASE rpc' = rpc
  <2>1. PICK o : /\ rtodo'[r] = rtodo[r] \ {o}
                 /\ found'[r] = found[r] \cup ({o} \X Ids(Remains(r), o))
    BY <1>1, <1>2
       DEF FindAddress, CleanLookup, Fault, Visit, RemovalTo, Remains, LifecycleTypeInv,
           RemovalTypeOK
  <2>2. \A q \in Remains(r) : q[1] = o => q \in found'[r]
    BY <1>1, <2>1 DEF Ids, Objects
  <2> QED
    BY <1>1, <1>2, <2>1, <2>2 DEF CleanedInv, CleanedOK
<1>3. CASE rpc' # rpc
  <2>1. rpc'[r] = "tunnels" /\ rtodo[r] = {} /\ rtodo'[r] = TunnelObjs /\ found' = found
    BY <1>1, <1>3 DEF FindAddress, RemovalTo, Visit, LifecycleTypeInv, RemovalTypeOK
  <2>2. AddressesSeen(r)'
    BY <1>1, <2>1 DEF CleanedInv, CleanedOK, AddressesSeen
  <2> QED
    BY <2>1, <2>2 DEF CleanedOK
<1> QED
  BY <1>2, <1>3

LEMMA CleanedTunnels ==
    ASSUME CleanLookup, LifecycleTypeInv, CleanedInv, NEW r \in Removals, DropTunnel(r)
    PROVE  CleanedOK(r)'
<1>1. UNCHANGED <<target, found>> /\ rpc[r] = "tunnels" /\ AddressesSeen(r)
  BY DEF DropTunnel, CleanedInv, CleanedOK
<1>2. CASE \E o \in NextToClean(rtodo[r]) : Remove(r, o) /\ UNCHANGED rpc
  <2>1. PICK o \in rtodo[r] : Remove(r, o) /\ UNCHANGED rpc
    BY <1>2 DEF NextToClean
  <2>2. o \in Resources
    BY <2>1 DEF LifecycleTypeInv, RemovalTypeOK
  <2>3. CASE o \notin Endpoints
    <3>1. /\ Remains(r)' \subseteq Remains(r)
          /\ rtodo'[r] = rtodo[r] \ {o}
          /\ warned[r] => warned'[r]
          /\ ~warned'[r] => \A q \in Remains(r)' : q[1] # o
      BY <1>1, <2>1, <2>2, <2>3, RemoveCleans DEF Removing
    <3>2. AddressesSeen(r)'
      BY <1>1, <3>1 DEF AddressesSeen
    <3> QED
      BY <1>1, <2>1, <3>1, <3>2 DEF CleanedInv, CleanedOK
  <2>4. CASE o \in Endpoints
    <3>1. nautobot' \in {nautobot, [nautobot EXCEPT ![target[r]] = @ \ Known(r, o)]}
      BY <2>1 DEF Remove
    <3>2. Remains(r)' \subseteq Remains(r)
      BY <1>1, <3>1 DEF Remains, LifecycleTypeInv, TypeInv, TypeOK, Removing
    <3>3. rtodo'[r] = rtodo[r] \ {o} /\ (warned[r] => warned'[r])
      BY <2>1 DEF Remove, VisitNext, Visit, Warn, LifecycleTypeInv, RemovalTypeOK
    <3>4. AddressesSeen(r)'
      BY <1>1, <3>2 DEF AddressesSeen
    <3>5. o \notin TunnelObjs
      BY <2>4, KindsApart
    <3> QED
      BY <1>1, <2>1, <3>2, <3>3, <3>4, <3>5 DEF CleanedInv, CleanedOK
  <2> QED
    BY <2>3, <2>4
<1>3. CASE rtodo[r] = {} /\ RemovalTo(r, "list") /\ UNCHANGED <<nautobot, rtodo, warned>>
  <2>1. rpc'[r] = "list" /\ Remains(r)' = Remains(r)
    BY <1>1, <1>3 DEF RemovalTo, Remains, LifecycleTypeInv, RemovalTypeOK
  <2> QED
    BY <1>1, <1>3, <2>1 DEF CleanedInv, CleanedOK, AddressesSeen
<1> QED
  BY <1>2, <1>3 DEF DropTunnel

LEMMA CleanedList ==
    ASSUME CleanLookup, LifecycleTypeInv, CleanedInv, NEW r \in Removals,
           ListBranchEndpoints(r)
    PROVE  CleanedOK(r)'
<1>1. /\ UNCHANGED <<nautobot, target>> /\ rpc[r] = "list" /\ AddressesSeen(r)
      /\ rpc'[r] = "clean"
  BY DEF ListBranchEndpoints, CleanedInv, CleanedOK, RemovalTo, LifecycleTypeInv, RemovalTypeOK
<1>2. Remains(r)' = Remains(r) /\ Remains(r) \subseteq Objects
  BY <1>1 DEF Remains, LifecycleTypeInv, TypeInv, TypeOK, Removing
<1> DEFINE matched == MatchedEndpoints(nautobot[target[r]], found[r])
<1>3. /\ found' = [found EXCEPT ![r] = @ \cup matched]
      /\ Visit(r, CleanedLast \cup {q[1] : q \in found[r] \cup matched})
      /\ UNCHANGED warned
  BY DEF ListBranchEndpoints, CleanLookup, Fault
<1>4. AddressesSeen(r)'
  BY <1>1, <1>2, <1>3 DEF AddressesSeen, LifecycleTypeInv, RemovalTypeOK
<1>5. rtodo'[r] = CleanedLast \cup {q[1] : q \in found[r] \cup matched}
  BY <1>3 DEF Visit, LifecycleTypeInv, RemovalTypeOK
<1>6. ASSUME ~warned'[r], NEW q \in Remains(r)
      PROVE  q[1] \in rtodo'[r] \cup Endpoints \cup {<<"profile", 1>>}
  <2>1. q[1] \in Resources /\ q[1] \notin TunnelObjs
    BY <1>1, <1>2, <1>3, <1>6 DEF CleanedInv, CleanedOK, Objects
  <2>2. CASE q[1] \in IPs
    BY <1>1, <1>5, <2>2 DEF AddressesSeen
  <2>3. CASE q[1] \notin IPs
    BY <1>5, <2>1, <2>3 DEF Resources, Basic, Policies, CleanedLast, NamedResources
  <2> QED
    BY <2>2, <2>3
<1> QED
  BY <1>1, <1>2, <1>4, <1>6 DEF CleanedOK

LEMMA CleanedClean ==
    ASSUME CleanLookup, LifecycleTypeInv, CleanedInv, NEW r \in Removals, Clean(r)
    PROVE  CleanedOK(r)'
<1>1. UNCHANGED <<target, found, rpc>> /\ rpc[r] = "clean" /\ AddressesSeen(r)
  BY DEF Clean, CleanedInv, CleanedOK
<1>2. PICK o \in rtodo[r] : Remove(r, o)
  BY DEF Clean, NextToClean
<1>3. o \in Resources
  BY DEF LifecycleTypeInv, RemovalTypeOK
<1>4. CASE o \notin Endpoints
  <2>1. /\ Remains(r)' \subseteq Remains(r)
        /\ rtodo'[r] = rtodo[r] \ {o}
        /\ warned[r] => warned'[r]
        /\ ~warned'[r] => \A q \in Remains(r)' : q[1] # o
    BY <1>1, <1>2, <1>3, <1>4, RemoveCleans DEF Removing
  <2>2. AddressesSeen(r)'
    BY <1>1, <2>1 DEF AddressesSeen
  <2> QED
    BY <1>1, <2>1, <2>2 DEF CleanedInv, CleanedOK
<1>5. CASE o \in Endpoints
  <2>1. nautobot' \in {nautobot, [nautobot EXCEPT ![target[r]] = @ \ Known(r, o)]}
    BY <1>2 DEF Remove
  <2>2. Remains(r)' \subseteq Remains(r)
    BY <1>1, <2>1 DEF Remains, LifecycleTypeInv, TypeInv, TypeOK, Removing
  <2>3. rtodo'[r] = rtodo[r] \ {o} /\ (warned[r] => warned'[r])
    BY <1>2 DEF Remove, VisitNext, Visit, Warn, LifecycleTypeInv, RemovalTypeOK
  <2>4. AddressesSeen(r)'
    BY <1>1, <2>2 DEF AddressesSeen
  <2> QED
    BY <1>1, <1>5, <2>2, <2>3, <2>4 DEF CleanedInv, CleanedOK
<1> QED
  BY <1>4, <1>5

LEMMA CleanedStep ==
    ASSUME Serial, CleanLookup, LifecycleTypeInv, TurnInv, CleanedInv,
           [LifecycleNext]_allVars
    PROVE  CleanedInv'
<1>1. ASSUME NEW r \in Removals, rpc'[r] \notin Cleaning
      PROVE  CleanedOK(r)'
  BY <1>1 DEF CleanedOK, Cleaning
<1>2. CASE UNCHANGED allVars
  BY <1>2, CleanedElsewhere DEF allVars, vars, removal, CleanedInv
<1>3. CASE Restart
  BY <1>1, <1>3 DEF Restart, Removing, Cleaning, CleanedInv, LifecycleTypeInv, RemovalTypeOK
<1>4. ASSUME NEW a \in Attempts, Deploying(a)
      PROVE  CleanedInv'
  <2>1. CASE DestroyBusy
    BY <1>4, <2>1, DeploymentsWait, CleanedElsewhere DEF Deploying, removal, CleanedInv
  <2>2. CASE ~DestroyBusy
    BY <1>1, <1>4, <2>2 DEF Deploying, removal, CleanedInv, DestroyBusy, Removing, Cleaning
  <2> QED
    BY <2>1, <2>2
<1>5. ASSUME NEW r \in Removals, Destroy(r) \/ RemovalStep(r)
      PROVE  CleanedInv'
  <2>1. \A s \in Removals \ {r} : CleanedOK(s)'
    BY <1>1, <1>5, DestroyAlone DEF Removing, Cleaning
  <2>2. CASE Destroy(r) \/ PaDelete(r)
    <3>1. rpc'[r] \notin Cleaning
      BY <2>2 DEF Destroy, PaDelete, RemovalTo, Cleaning, LifecycleTypeInv, RemovalTypeOK
    <3> QED
      BY <1>1, <2>1, <3>1 DEF CleanedInv
  <2>3. CASE PaDeleteCommit(r)
    <3>1. \/ rpc'[r] = "failed"
          \/ rpc'[r] = "addresses" /\ rtodo'[r] = IPs
      BY <2>3 DEF PaDeleteCommit, CommitRefused, RemovalTo, Visit, LifecycleTypeInv,
                  RemovalTypeOK
    <3>2. CleanedOK(r)'
      BY <3>1 DEF CleanedOK
    <3> QED
      BY <2>1, <3>2 DEF CleanedInv
  <2>4. CASE FinishDestroy(r)
    <3>1. rpc'[r] \notin Cleaning
      BY <2>4 DEF FinishDestroy, RemovalTo, Cleaning, LifecycleTypeInv, RemovalTypeOK
    <3> QED
      BY <1>1, <2>1, <3>1 DEF CleanedInv
  <2> QED
    BY <1>5, <2>1, <2>2, <2>3, <2>4, CleanedAddresses, CleanedTunnels, CleanedList,
       CleanedClean DEF RemovalStep, CleanedInv
<1> QED
  BY <1>2, <1>3, <1>4, <1>5 DEF LifecycleNext

LEMMA DoneIsFree ==
    ASSUME LifecycleTypeInv, ForgottenInv, CleanedInv, [LifecycleNext]_allVars,
           NEW r \in Removals, rpc[r] = "clean", rpc'[r] = "done"
    PROVE  LET b == target[r] IN
           /\ \A q \in nautobot[b] : q[1] \in Endpoints \cup {<<"profile", 1>>}
           /\ paRunning[b] = Nothing /\ paCandidate[b] = Nothing
<1>1. FinishDestroy(r)
  <2>1. ~UNCHANGED allVars /\ ~Restart /\ \A a \in Attempts : ~Deploying(a)
    BY DEF allVars, removal, Restart, Deploying, LifecycleTypeInv, RemovalTypeOK, Removing
  <2>2. PICK s \in Removals : Destroy(s) \/ RemovalStep(s)
    BY <2>1 DEF LifecycleNext
  <2>3. FinishDestroy(s)
    BY <2>2 DEF Destroy, RemovalStep, PaDelete, PaDeleteCommit, CommitRefused, FindAddress,
                DropTunnel, ListBranchEndpoints, Clean, RemovalTo, LifecycleTypeInv,
                RemovalTypeOK
  <2>4. s = r
    BY <2>3 DEF FinishDestroy, RemovalTo, LifecycleTypeInv, RemovalTypeOK
  <2> QED
    BY <2>3, <2>4
<1>2. rtodo[r] = {} /\ ~warned[r]
  BY <1>1 DEF FinishDestroy, RemovesArtifacts, RemovalTo, LifecycleTypeInv, RemovalTypeOK
<1> QED
  BY <1>2 DEF CleanedInv, CleanedOK, Remains, ForgottenInv, Cleaning

THEOREM CleanedInvariance ==
    ASSUME Serial, CleanLookup
    PROVE  LifecycleSpec => []CleanedInv
<1>1. LifecycleInit => CleanedInv
  BY DEF LifecycleInit, CleanedInv, CleanedOK
<1>2. SeenDestroy
  BY DEF SeenDestroy, CleanLookup
<1> QED
  BY <1>1, <1>2, CleanedStep, LifecycleTypeInvariance, ForgottenInvariance, PTL
     DEF LifecycleSpec

\* A destroy that ends without a warning has freed its branch: whatever an
\* earlier one left half-way, whatever DELETE failed there or was answered too
\* late, and wherever the server was restarted.
THEOREM DestroyedIsFreed ==
    ASSUME Serial, CleanLookup
    PROVE  LifecycleSpec => DestroyedIsFree
<1>1. SeenDestroy
  BY DEF SeenDestroy, CleanLookup
<1>2. ASSUME LifecycleTypeInv, ForgottenInv, CleanedInv, [LifecycleNext]_allVars
      PROVE  \A r \in Removals : rpc[r] = "clean" /\ rpc'[r] = "done" =>
                 LET b == target[r] IN
                 /\ \A q \in nautobot[b] : q[1] \in Endpoints \cup {<<"profile", 1>>}
                 /\ paRunning[b] = Nothing /\ paCandidate[b] = Nothing
  BY <1>2, DoneIsFree
<1> QED
  BY <1>1, <1>2, LifecycleTypeInvariance, ForgottenInvariance, CleanedInvariance, PTL
     DEF LifecycleSpec, DestroyedIsFree
=============================================================================
