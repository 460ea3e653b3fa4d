------------------------ MODULE BranchDeploymentProofs ------------------------
(***************************************************************************)
(* Proofs about BranchDeployment, for every number of tunnels, branches,    *)
(* FortiGates and deployments, and for every set and number of faults; then,*)
(* for deployments sent one at a time, that they implement BranchLease.     *)
(***************************************************************************)
EXTENDS BranchDeployment, TLAPS

-----------------------------------------------------------------------------
(* The resources and the loops over them.                                   *)

LEMMA ResourceSubsets ==
    /\ Basic \subseteq Resources
    /\ Policies \subseteq Resources
    /\ LookedUp \subseteq Resources
    /\ Prefixes \subseteq Resources
    /\ IPs \subseteq Resources
  BY DEF Resources, Basic, LookedUp

LEMMA NextIsMember ==
    ASSUME NEW S
    PROVE  /\ NextToLookUp(S) \subseteq S
           /\ NextToCreate(S) \subseteq S
           /\ NextPolicy(S) \subseteq S
           /\ NextToRelease(S) \subseteq S
  BY DEF NextToLookUp, NextToCreate, NextPolicy, NextToRelease

LEMMA RecordedIsBasic ==
    ASSUME NEW o \in Basic
    PROVE  RecordedWith(o) \subseteq Basic
  BY DEF RecordedWith

\* What remains of a configuration after a part of the commands is one.
LEMMA PartIsConfig ==
    /\ \A config \in PaConfigs, d \in FortiGates :
           PaTakenInPart(config, d) \subseteq PaConfigs \ {Nothing}
    /\ \A config \in FgConfigs, b \in Branches :
           FgTakenInPart(config, b) \subseteq {b} \X (0..Entire)
<1>1. ASSUME NEW config \in PaConfigs, NEW d \in FortiGates
      PROVE  PaTakenInPart(config, d) \subseteq {d} \X BOOLEAN
  <2>1. <<d, TRUE>> \in {d} \X BOOLEAN
    OBVIOUS
  <2>2. CASE config = <<d, TRUE>>
    BY <2>1, <2>2 DEF PaTakenInPart
  <2>3. CASE config # <<d, TRUE>>
    BY <2>3, Zenon DEF PaTakenInPart
  <2> QED
    BY <2>2, <2>3
<1>2. ASSUME NEW config \in FgConfigs, NEW b \in Branches
      PROVE  FgTakenInPart(config, b) \subseteq {b} \X (0..Entire)
  <2> DEFINE kept == IF config # Nothing /\ config[1] = b THEN config[2] ELSE 0
  <2>1. kept \in 0..Entire
    BY DEF FgConfigs, Entire
  <2>2. kept..Entire \subseteq 0..Entire
    BY <2>1 DEF Entire
  <2> QED
    BY <2>2 DEF FgTakenInPart
<1>3. \A d \in FortiGates : {d} \X BOOLEAN \subseteq PaConfigs \ {Nothing}
  BY DEF PaConfigs, Nothing
<1> QED
  BY <1>1, <1>2, <1>3

LEMMA StampsHold == Attempts \subseteq Stamps
  BY DEF Stamps

-----------------------------------------------------------------------------
(* Type correctness.  The invariant adds that a deployment under way has a  *)
(* candidate, which the indices of the other variables rest on.             *)

Underway == Working \cup {"planned"}

\* The control part of the type invariant: reserve only ever visits the
\* resources it creates.
ControlOK ==
    /\ pc \in [Attempts -> States]
    /\ todo \in [Attempts -> SUBSET Resources]
    /\ \A a \in Attempts : pc[a] = "create" => todo[a] \subseteq Basic

TypeInv ==
    /\ TypeOK
    /\ ControlOK
    /\ \A a \in Attempts : pc[a] \in Underway => cand[a] \in Branches \X FortiGates

LEMMA BranchOfCandidate ==
    ASSUME TypeInv, NEW a \in Attempts, pc[a] \in Underway
    PROVE  /\ Branch(a) \in Branches
           /\ Device(a) \in FortiGates
           /\ Inventory(a) \subseteq Objects
  BY DEF TypeInv, TypeOK, Branch, Device, Inventory

\* A failing deployment either ends or starts the loop of release.
LEMMA FailureKeepsControl ==
    ASSUME TypeInv, NEW a \in Attempts, Fail(a) \/ Undo(a)
    PROVE  ControlOK' /\ pc'[a] \in {"undo", "failed"}
                      /\ \A c \in Attempts \ {a} : pc'[c] = pc[c]
<1>1. RecordedResources(a) \subseteq Resources
  BY DEF TypeInv, TypeOK, RecordedResources, Objects
<1> QED
  BY <1>1 DEF TypeInv, TypeOK, ControlOK, Fail, Undo, GoTo, States, Working, Ended

\* What a step must still show once its control part is known.
LEMMA TypeStep ==
    ASSUME TypeInv, NEW a \in Attempts, ControlOK',
           cand' = cand, pc[a] \in Underway,
           \A c \in Attempts \ {a} : pc'[c] = pc[c],
           nautobot' \in [Branches -> SUBSET Objects],
           held' \in [Attempts -> SUBSET Objects],
           paCandidate' \in [Branches -> PaConfigs],
           paRunning' \in [Branches -> PaConfigs],
           fgConfig' \in [FortiGates -> FgConfigs],
           artifacts' \subseteq Branches,
           own' \in [Attempts -> BOOLEAN],
           changed' \in [Attempts -> BOOLEAN],
           Fine \/ \E kind : Fault(kind)
    PROVE  TypeInv'
<1>1. faults' \in 0..MaxFaults /\ crashes' \in 0..MaxCrashes
  BY DeploymentAssumption DEF TypeInv, TypeOK, Fine, Fault, history
<1> QED
  BY <1>1 DEF TypeInv, TypeOK, ControlOK

LEMMA TypeStarts == Init => TypeInv
<1> USE DEF Underway, Working, Ended, States
<1> SUFFICES ASSUME Init PROVE TypeInv
  OBVIOUS
<1>1. nautobot \in [Branches -> SUBSET Objects]
  <2>1. PICK entered \in SUBSET ForeignObjects : nautobot = EnteredByHand(entered)
    BY DEF Init
  <2>2. ASSUME NEW b \in Branches, NEW f \in entered
        PROVE  <<f[2], Foreign>> \in Objects
    BY DeploymentAssumption, ResourceSubsets DEF Objects, Stamps
  <2> QED
    BY <2>1, <2>2 DEF EnteredByHand
<1> QED
  BY <1>1, DeploymentAssumption
     DEF Init, TypeInv, TypeOK, ControlOK, PaConfigs, FgConfigs, States, Working,
         Underway

LEMMA TypeKept ==
    ASSUME TypeInv, [Next]_vars
    PROVE  TypeInv'
<1> USE DEF Underway, Working, Ended, States
<1>1. CASE UNCHANGED vars
  BY <1>1 DEF vars, firewalls, history, TypeInv, TypeOK, ControlOK
<1>2. CASE Crash
  BY <1>2, DeploymentAssumption
     DEF Crash, firewalls, TypeInv, TypeOK, ControlOK, States, Working, Ended,
         Underway
<1>3. ASSUME NEW a \in Attempts, NEW c \in Attempts, DeployAgain(a, c)
      PROVE  TypeInv'
  BY <1>3
     DEF DeployAgain, GoTo, firewalls, history, TypeInv, TypeOK, ControlOK,
        States,
         Working, Ended
<1>4. ASSUME NEW a \in Attempts, Plan(a)
      PROVE  TypeInv'
  BY <1>4
     DEF Plan, GoTo, firewalls, history, TypeInv, TypeOK, ControlOK, States,
         Working, Ended
<1>5. ASSUME NEW a \in Attempts, Preflight(a)
      PROVE  TypeInv'
  <2>0. pc[a] \in Underway
    BY <1>5 DEF Preflight, Underway, Working
  <2>1. ControlOK' /\ (\A c \in Attempts \ {a} : pc'[c] = pc[c])
                  /\ (Fine \/ \E kind : Fault(kind))
    BY <1>5, ResourceSubsets DEF Preflight, Fine, TypeInv, TypeOK,
       ControlOK, GoTo, States, Working, Ended
  <2> QED
    BY <1>5, <2>0, <2>1, TypeStep DEF Preflight, TypeInv, TypeOK, firewalls
<1>6. ASSUME NEW a \in Attempts, LookUp(a)
      PROVE  TypeInv'
  <2>0. pc[a] \in Underway
    BY <1>6 DEF LookUp, Underway, Working
  <2>1. ControlOK' /\ (\A c \in Attempts \ {a} : pc'[c] = pc[c])
                  /\ (Fine \/ \E kind : Fault(kind))
    BY <1>6 DEF LookUp, Fine, TypeInv, TypeOK, ControlOK, GoTo,
       States, Working, Ended, Visited
  <2>2. \A o : {o} \X Ids(Inventory(a), o) \subseteq {o} \X Stamps
    BY DEF Ids
  <2>3. held' \in [Attempts -> SUBSET Objects]
    BY <1>6, <2>2, NextIsMember DEF LookUp, TypeInv, TypeOK, Objects
  <2> QED
    BY <1>6, <2>0, <2>1, <2>2, <2>3, TypeStep DEF LookUp, TypeInv,
       TypeOK, firewalls
<1>7. ASSUME NEW a \in Attempts, Decide(a)
      PROVE  TypeInv'
  <2>0. pc[a] \in Underway
    BY <1>7 DEF Decide, Underway, Working
  <2>1. ControlOK' /\ (\A c \in Attempts \ {a} : pc'[c] = pc[c])
                  /\ (Fine \/ \E kind : Fault(kind))
    BY <1>7, ResourceSubsets DEF Decide, Fine, TypeInv, TypeOK,
       ControlOK, GoTo, States, Working, Ended
  <2> QED
    BY <1>7, <2>0, <2>1, TypeStep DEF Decide, TypeInv, TypeOK, firewalls
<1>8. ASSUME NEW a \in Attempts, ListEndpoints(a)
      PROVE  TypeInv'
  <2>0. pc[a] \in Underway
    BY <1>8 DEF ListEndpoints, Underway, Working
  <2>1. ControlOK' /\ (\A c \in Attempts \ {a} : pc'[c] = pc[c])
                  /\ (Fine \/ \E kind : Fault(kind))
    BY <1>8, ResourceSubsets DEF ListEndpoints, Fine, TypeInv, TypeOK,
       ControlOK, GoTo, States, Working, Ended
  <2>2. MatchedEndpoints(Inventory(a), held[a]) \subseteq Objects
    BY <2>0, BranchOfCandidate DEF MatchedEndpoints
  <2>3. held' \in [Attempts -> SUBSET Objects]
    BY <1>8, <2>2 DEF ListEndpoints, TypeInv, TypeOK
  <2> QED
    BY <1>8, <2>0, <2>1, <2>2, <2>3, TypeStep DEF ListEndpoints,
       TypeInv, TypeOK, firewalls
<1>9. ASSUME NEW a \in Attempts, Create(a)
      PROVE  TypeInv'
  <2>0. pc[a] \in Underway
    BY <1>9 DEF Create, Underway, Working
  <2>1. ControlOK' /\ (\A c \in Attempts \ {a} : pc'[c] = pc[c])
                  /\ (Fine \/ \E kind : Fault(kind))
    BY <1>9, FailureKeepsControl DEF Create, Fine, TypeInv, TypeOK,
       ControlOK, GoTo, States, Working, Ended, Visited
  <2>2. \A o \in todo[a] : RecordedWith(o) \X {a} \subseteq Objects /\ <<o, a>> \in Objects
    BY <1>9, RecordedIsBasic, ResourceSubsets, StampsHold DEF Create,
       TypeInv, ControlOK, Objects
  <2>3. Branch(a) \in Branches
    BY <2>0, BranchOfCandidate
  <2>4. held' \in [Attempts -> SUBSET Objects]
    <3>1. PICK o \in todo[a] :
              held' = [held EXCEPT ![a] = @ \cup (RecordedWith(o) \X {a})] \/ held' = held
      <4>1. PICK o \in NextToCreate(todo[a]) :
                held' = [held EXCEPT ![a] = @ \cup (RecordedWith(o) \X {a})] \/ held' = held
        BY <1>9 DEF Create
      <4> QED
        BY <4>1, NextIsMember
    <3>2. PICK new \in SUBSET Objects :
              held' = [held EXCEPT ![a] = @ \cup new] \/ held' = held
      BY <2>2, <3>1
    <3> QED
      BY <3>2 DEF TypeInv, TypeOK
  <2>5. nautobot' \in [Branches -> SUBSET Objects]
    BY <1>9, <2>2, <2>3, NextIsMember DEF Create, Post, TypeInv, TypeOK
  <2> QED
    BY <1>9, <2>0, <2>1, <2>2, <2>3, <2>4, <2>5, TypeStep DEF Create,
       TypeInv, TypeOK, firewalls
<1>10. ASSUME NEW a \in Attempts, Reserved(a)
      PROVE  TypeInv'
  <2>0. pc[a] \in Underway
    BY <1>10 DEF Reserved, Underway, Working
  <2>1. ControlOK' /\ (\A c \in Attempts \ {a} : pc'[c] = pc[c])
                  /\ (Fine \/ \E kind : Fault(kind))
    BY <1>10, ResourceSubsets DEF Reserved, Fine, TypeInv, TypeOK,
       ControlOK, GoTo, States, Working, Ended
  <2> QED
    BY <1>10, <2>0, <2>1, TypeStep DEF Reserved, TypeInv, TypeOK, firewalls
<1>11. ASSUME NEW a \in Attempts, FindPolicy(a)
      PROVE  TypeInv'
  <2>0. pc[a] \in Underway
    BY <1>11 DEF FindPolicy, Underway, Working
  <2>1. ControlOK' /\ (\A c \in Attempts \ {a} : pc'[c] = pc[c])
                  /\ (Fine \/ \E kind : Fault(kind))
    BY <1>11, FailureKeepsControl DEF FindPolicy, Fine, TypeInv,
       TypeOK, ControlOK, GoTo, States, Working, Ended, Visited
  <2> QED
    BY <1>11, <2>0, <2>1, TypeStep DEF FindPolicy, TypeInv, TypeOK,
       firewalls
<1>12. ASSUME NEW a \in Attempts, CreatePolicy(a)
      PROVE  TypeInv'
  <2>0. pc[a] \in Underway
    BY <1>12 DEF CreatePolicy, Underway, Working
  <2>1. ControlOK' /\ (\A c \in Attempts \ {a} : pc'[c] = pc[c])
                  /\ (Fine \/ \E kind : Fault(kind))
    BY <1>12, FailureKeepsControl DEF CreatePolicy, Fine, TypeInv,
       TypeOK, ControlOK, GoTo, States, Working, Ended, Visited
  <2>2. \A o \in todo[a] : <<o, a>> \in Objects
    BY StampsHold DEF TypeInv, TypeOK, Objects
  <2>3. Branch(a) \in Branches
    BY <2>0, BranchOfCandidate
  <2>4. nautobot' \in [Branches -> SUBSET Objects]
    BY <1>12, <2>2, <2>3, NextIsMember DEF CreatePolicy, Post,
       TypeInv, TypeOK
  <2> QED
    BY <1>12, <2>0, <2>1, <2>2, <2>3, <2>4, TypeStep DEF CreatePolicy,
       TypeInv, TypeOK, firewalls
<1>13. ASSUME NEW a \in Attempts, RecordPolicies(a)
      PROVE  TypeInv'
  <2>0. pc[a] \in Underway
    BY <1>13 DEF RecordPolicies, Underway, Working
  <2>1. ControlOK' /\ (\A c \in Attempts \ {a} : pc'[c] = pc[c])
                  /\ (Fine \/ \E kind : Fault(kind))
    BY <1>13 DEF RecordPolicies, Fine, TypeInv, TypeOK, ControlOK,
       GoTo, States, Working, Ended
  <2>2. CreatedPolicies(a) \subseteq Objects
    BY <2>0, BranchOfCandidate DEF CreatedPolicies
  <2>3. held' \in [Attempts -> SUBSET Objects]
    BY <1>13, <2>2 DEF RecordPolicies, TypeInv, TypeOK
  <2> QED
    BY <1>13, <2>0, <2>1, <2>2, <2>3, TypeStep DEF RecordPolicies,
       TypeInv, TypeOK, firewalls
<1>14. ASSUME NEW a \in Attempts, Patch(a)
      PROVE  TypeInv'
  <2>0. pc[a] \in Underway
    BY <1>14 DEF Patch, Underway, Working
  <2>1. ControlOK' /\ (\A c \in Attempts \ {a} : pc'[c] = pc[c])
                  /\ (Fine \/ \E kind : Fault(kind))
    BY <1>14, FailureKeepsControl DEF Patch, Fine, TypeInv, TypeOK,
       ControlOK, GoTo, States, Working, Ended
  <2> QED
    BY <1>14, <2>0, <2>1, TypeStep DEF Patch, TypeInv, TypeOK, firewalls
<1>15. ASSUME NEW a \in Attempts, WriteArtifacts(a)
      PROVE  TypeInv'
  <2>0. pc[a] \in Underway
    BY <1>15 DEF WriteArtifacts, Underway, Working
  <2>1. ControlOK' /\ (\A c \in Attempts \ {a} : pc'[c] = pc[c])
                  /\ (Fine \/ \E kind : Fault(kind))
    BY <1>15, FailureKeepsControl DEF WriteArtifacts, Fine, TypeInv,
       TypeOK, ControlOK, GoTo, States, Working, Ended, ArtifactsFailed
  <2>2. Branch(a) \in Branches
    BY <2>0, BranchOfCandidate
  <2> QED
    BY <1>15, <2>0, <2>1, <2>2, TypeStep DEF WriteArtifacts, TypeInv,
       TypeOK, firewalls
<1>16. ASSUME NEW a \in Attempts, PaSet(a)
      PROVE  TypeInv'
  <2>0. pc[a] \in Underway
    BY <1>16 DEF PaSet, Underway, Working
  <2>1. ControlOK' /\ (\A c \in Attempts \ {a} : pc'[c] = pc[c])
                  /\ (Fine \/ \E kind : Fault(kind))
    BY <1>16, FailureKeepsControl DEF PaSet, Fine, TypeInv, TypeOK,
       ControlOK, GoTo, States, Working, Ended
  <2>2. Branch(a) \in Branches /\ Device(a) \in FortiGates
    BY <2>0, BranchOfCandidate
  <2>3. /\ <<Device(a), TRUE>> \in PaConfigs
        /\ PaTakenInPart(paCandidate[Branch(a)], Device(a)) \subseteq PaConfigs
    BY <2>2, PartIsConfig DEF PaConfigs, TypeInv, TypeOK
  <2>4. paCandidate' \in [Branches -> PaConfigs]
    <3>1. PICK new \in PaConfigs :
              paCandidate' = [paCandidate EXCEPT ![Branch(a)] = new] \/ paCandidate' = paCandidate
      BY <1>16, <2>2, <2>3 DEF PaSet, TypeInv, TypeOK
    <3> QED
      BY <2>2, <3>1 DEF TypeInv, TypeOK
  <2> QED
    BY <1>16, <2>0, <2>1, <2>4, TypeStep DEF PaSet, TypeInv, TypeOK,
       firewalls
<1>17. ASSUME NEW a \in Attempts, PaCommit(a)
      PROVE  TypeInv'
  <2>0. pc[a] \in Underway
    BY <1>17 DEF PaCommit, Underway, Working
  <2>1. ControlOK' /\ (\A c \in Attempts \ {a} : pc'[c] = pc[c])
                  /\ (Fine \/ \E kind : Fault(kind))
    BY <1>17, FailureKeepsControl DEF PaCommit, Fine, TypeInv, TypeOK,
       ControlOK, GoTo, States, Working, Ended
  <2> QED
    BY <1>17, <2>0, <2>1, TypeStep DEF PaCommit, TypeInv, TypeOK, firewalls
<1>18. ASSUME NEW a \in Attempts, FgApply(a)
      PROVE  TypeInv'
  <2>0. pc[a] \in Underway
    BY <1>18 DEF FgApply, Underway, Working
  <2>1. ControlOK' /\ (\A c \in Attempts \ {a} : pc'[c] = pc[c])
                  /\ (Fine \/ \E kind : Fault(kind))
    BY <1>18, FailureKeepsControl DEF FgApply, Fine, TypeInv, TypeOK,
       ControlOK, GoTo, States, Working, Ended
  <2>2. Branch(a) \in Branches /\ Device(a) \in FortiGates
    BY <2>0, BranchOfCandidate
  <2>3. /\ <<Branch(a), Entire>> \in FgConfigs
        /\ FgTakenInPart(fgConfig[Device(a)], Branch(a)) \subseteq FgConfigs
    BY <2>2, PartIsConfig DEF FgConfigs, Entire, TypeInv, TypeOK
  <2>4. fgConfig' \in [FortiGates -> FgConfigs]
    <3>1. PICK new \in FgConfigs :
              fgConfig' = [fgConfig EXCEPT ![Device(a)] = new] \/ fgConfig' = fgConfig
      BY <1>18, <2>2, <2>3 DEF FgApply, TakeInPart, TypeInv, TypeOK
    <3> QED
      BY <2>2, <3>1 DEF TypeInv, TypeOK
  <2> QED
    BY <1>18, <2>0, <2>1, <2>4, TypeStep DEF FgApply, TypeInv, TypeOK,
       firewalls
<1>19. ASSUME NEW a \in Attempts, Validate(a)
      PROVE  TypeInv'
  <2>0. pc[a] \in Underway
    BY <1>19 DEF Validate, Underway, Working
  <2>1. ControlOK' /\ (\A c \in Attempts \ {a} : pc'[c] = pc[c])
                  /\ (Fine \/ \E kind : Fault(kind))
    BY <1>19, FailureKeepsControl DEF Validate, Fine, TypeInv, TypeOK,
       ControlOK, GoTo, States, Working, Ended
  <2> QED
    BY <1>19, <2>0, <2>1, TypeStep DEF Validate, TypeInv, TypeOK, firewalls
<1>20. ASSUME NEW a \in Attempts, Operate(a)
      PROVE  TypeInv'
  <2>0. pc[a] \in Underway
    BY <1>20 DEF Operate, Underway, Working
  <2>1. ControlOK' /\ (\A c \in Attempts \ {a} : pc'[c] = pc[c])
                  /\ (Fine \/ \E kind : Fault(kind))
    BY <1>20, FailureKeepsControl DEF Operate, Fine, TypeInv, TypeOK,
       ControlOK, GoTo, States, Working, Ended
  <2> QED
    BY <1>20, <2>0, <2>1, TypeStep DEF Operate, TypeInv, TypeOK, firewalls
<1>21. ASSUME NEW a \in Attempts, SaveDevice(a)
      PROVE  TypeInv'
  <2>0. pc[a] \in Underway
    BY <1>21 DEF SaveDevice, Underway, Working
  <2>1. ControlOK' /\ (\A c \in Attempts \ {a} : pc'[c] = pc[c])
                  /\ (Fine \/ \E kind : Fault(kind))
    BY <1>21 DEF SaveDevice, Fine, TypeInv, TypeOK, ControlOK, GoTo,
       States, Working, Ended
  <2> QED
    BY <1>21, <2>0, <2>1, TypeStep DEF SaveDevice, TypeInv, TypeOK,
       firewalls
<1>22. ASSUME NEW a \in Attempts, Release(a)
      PROVE  TypeInv'
  <2>0. pc[a] \in Underway
    BY <1>22 DEF Release, Underway, Working
  <2>1. ControlOK' /\ (\A c \in Attempts \ {a} : pc'[c] = pc[c])
                  /\ (Fine \/ \E kind : Fault(kind))
    BY <1>22 DEF Release, Fine, TypeInv, TypeOK, ControlOK, GoTo,
       States, Working, Ended, Visited
  <2>2. nautobot' \in [Branches -> SUBSET Objects]
    BY <1>22, <2>0, BranchOfCandidate DEF Release, TypeInv, TypeOK
  <2> QED
    BY <1>22, <2>0, <2>1, <2>2, TypeStep DEF Release, TypeInv, TypeOK,
       firewalls
<1>23. ASSUME NEW a \in Attempts, Released(a)
      PROVE  TypeInv'
  <2>0. pc[a] \in Underway
    BY <1>23 DEF Released, Underway, Working
  <2>1. ControlOK' /\ (\A c \in Attempts \ {a} : pc'[c] = pc[c])
                  /\ (Fine \/ \E kind : Fault(kind))
    BY <1>23 DEF Released, Fine, TypeInv, TypeOK, ControlOK, GoTo,
       States, Working, Ended
  <2> QED
    BY <1>23, <2>0, <2>1, TypeStep DEF Released, TypeInv, TypeOK, firewalls
<1> QED
  BY <1>1, <1>2, <1>3, <1>4, <1>5, <1>6, <1>7, <1>8, <1>9, <1>10, <1>11,
     <1>12, <1>13, <1>14, <1>15, <1>16, <1>17, <1>18, <1>19, <1>20, <1>21,
     <1>22, <1>23 DEF Next, Request, Step

THEOREM TypeInvariance == Spec => []TypeInv
  BY TypeStarts, TypeKept, PTL DEF Spec

\* Every variable keeps its type, for every value of the constants.
THEOREM TypeCorrect == Spec => []TypeOK
  BY TypeInvariance, PTL DEF TypeInv

-----------------------------------------------------------------------------
(* Release.  A deployment that can come to undo its reservation lists only  *)
(* objects it created, and has changed no firewall.                         *)

BeforeReserve == {"idle", "planned", "lookup", "endpoints", "create"}
BeforeCommit  == BeforeReserve \cup {"policy", "post", "patch", "artifacts",
                                     "paset", "pacommit", "undo"}

OwnObjects(a) == \A q \in held[a] : q[2] = a

OwnInv ==
    \A a \in Attempts :
        /\ pc[a] \in BeforeReserve => ~own[a]
        /\ pc[a] \in BeforeCommit => ~changed[a]
        /\ pc[a] \in {"idle", "planned"} => held[a] = {}
        /\ own[a] \/ pc[a] \in {"create", "undo"} => OwnObjects(a)

LEMMA OwnStep ==
    ASSUME TypeInv, OwnInv, [Next]_vars
    PROVE  OwnInv'
<1> USE DEF OwnInv, OwnObjects, BeforeReserve, BeforeCommit
<1>1. CASE UNCHANGED vars
  BY <1>1 DEF vars
<1>2. CASE Crash
  BY <1>2 DEF Crash, TypeInv, TypeOK
<1>3. ASSUME NEW a \in Attempts, NEW c \in Attempts, DeployAgain(a, c)
      PROVE  OwnInv'
  BY <1>3 DEF DeployAgain, GoTo, TypeInv, TypeOK
<1>4. ASSUME NEW a \in Attempts, Plan(a)
      PROVE  OwnInv'
  BY <1>4 DEF Plan, GoTo, TypeInv, TypeOK
<1>5. ASSUME NEW a \in Attempts, Preflight(a)
      PROVE  OwnInv'
  BY <1>5 DEF Preflight, GoTo, Fail, Undo, MayRelease, TypeInv, TypeOK
<1>6. ASSUME NEW a \in Attempts, LookUp(a)
      PROVE  OwnInv'
  BY <1>6 DEF LookUp, GoTo, Fail, Undo, MayRelease, TypeInv, TypeOK, Visited
<1>7. ASSUME NEW a \in Attempts, Decide(a)
      PROVE  OwnInv'
  BY <1>7 DEF Decide, GoTo, TypeInv, TypeOK
<1>8. ASSUME NEW a \in Attempts, ListEndpoints(a)
      PROVE  OwnInv'
  BY <1>8 DEF ListEndpoints, GoTo, Fail, Undo, MayRelease, TypeInv, TypeOK
<1>9. ASSUME NEW a \in Attempts, Create(a)
      PROVE  OwnInv'
  BY <1>9 DEF Create, GoTo, Fail, Undo, MayRelease, TypeInv, TypeOK, Visited
<1>10. ASSUME NEW a \in Attempts, Reserved(a)
      PROVE  OwnInv'
  BY <1>10 DEF Reserved, GoTo, Fail, Undo, MayRelease, TypeInv, TypeOK
<1>11. ASSUME NEW a \in Attempts, FindPolicy(a)
      PROVE  OwnInv'
  BY <1>11 DEF FindPolicy, GoTo, Fail, Undo, MayRelease, TypeInv, TypeOK, Visited
<1>12. ASSUME NEW a \in Attempts, CreatePolicy(a)
      PROVE  OwnInv'
  BY <1>12 DEF CreatePolicy, GoTo, Fail, Undo, MayRelease, TypeInv, TypeOK, Visited
<1>13. ASSUME NEW a \in Attempts, RecordPolicies(a)
      PROVE  OwnInv'
  BY <1>13 DEF RecordPolicies, GoTo, Fail, Undo, MayRelease, TypeInv, TypeOK,
     CreatedPolicies
<1>14. ASSUME NEW a \in Attempts, Patch(a)
      PROVE  OwnInv'
  BY <1>14 DEF Patch, GoTo, Fail, Undo, MayRelease, TypeInv, TypeOK
<1>15. ASSUME NEW a \in Attempts, WriteArtifacts(a)
      PROVE  OwnInv'
  BY <1>15 DEF WriteArtifacts, GoTo, Fail, Undo, MayRelease, TypeInv, TypeOK,
     ArtifactsFailed
<1>16. ASSUME NEW a \in Attempts, PaSet(a)
      PROVE  OwnInv'
  <2>1. UNCHANGED <<held, own, changed>> /\ (Fail(a) \/ GoTo(a, "pacommit"))
    BY <1>16 DEF PaSet
  <2>2. CASE Fail(a)
    BY <2>1, <2>2 DEF GoTo, Fail, Undo, MayRelease, TypeInv, TypeOK
  <2>3. CASE GoTo(a, "pacommit")
    BY <1>16, <2>1, <2>3 DEF PaSet, GoTo, TypeInv, TypeOK
  <2> QED
    BY <2>1, <2>2, <2>3
<1>17. ASSUME NEW a \in Attempts, PaCommit(a)
      PROVE  OwnInv'
  BY <1>17 DEF PaCommit, GoTo, Fail, Undo, MayRelease, TypeInv, TypeOK
<1>18. ASSUME NEW a \in Attempts, FgApply(a)
      PROVE  OwnInv'
  <2>1. UNCHANGED <<held, own, changed>> /\ (Fail(a) \/ GoTo(a, "validate"))
    BY <1>18 DEF FgApply
  <2>2. CASE Fail(a)
    BY <2>1, <2>2 DEF GoTo, Fail, Undo, MayRelease, TypeInv, TypeOK
  <2>3. CASE GoTo(a, "validate")
    BY <1>18, <2>1, <2>3 DEF FgApply, GoTo, TypeInv, TypeOK
  <2> QED
    BY <2>1, <2>2, <2>3
<1>19. ASSUME NEW a \in Attempts, Validate(a)
      PROVE  OwnInv'
  BY <1>19 DEF Validate, GoTo, Fail, Undo, MayRelease, TypeInv, TypeOK
<1>20. ASSUME NEW a \in Attempts, Operate(a)
      PROVE  OwnInv'
  BY <1>20 DEF Operate, GoTo, Fail, Undo, MayRelease, TypeInv, TypeOK
<1>21. ASSUME NEW a \in Attempts, SaveDevice(a)
      PROVE  OwnInv'
  BY <1>21 DEF SaveDevice, GoTo, Fail, Undo, MayRelease, TypeInv, TypeOK
<1>22. ASSUME NEW a \in Attempts, Release(a)
      PROVE  OwnInv'
  BY <1>22 DEF Release, GoTo, Fail, Undo, MayRelease, TypeInv, TypeOK, Visited
<1>23. ASSUME NEW a \in Attempts, Released(a)
      PROVE  OwnInv'
  BY <1>23 DEF Released, GoTo, Fail, Undo, MayRelease, TypeInv, TypeOK
<1> QED
  BY <1>1, <1>2, <1>3, <1>4, <1>5, <1>6, <1>7, <1>8, <1>9, <1>10, <1>11, <1>12,
     <1>13, <1>14, <1>15, <1>16, <1>17, <1>18, <1>19, <1>20, <1>21, <1>22, <1>23
     DEF Next, Request, Step

LEMMA OwnStarts == Init => OwnInv
  BY DEF Init, OwnInv, OwnObjects, BeforeReserve, BeforeCommit

THEOREM OwnInvariance == Spec => []OwnInv
  BY OwnStarts, OwnStep, TypeInvariance, PTL DEF Spec

\* The DELETEs of release are the only steps that take an object away.
LEMMA OnlyReleaseRemoves ==
    ASSUME TypeInv, [Next]_vars, NEW b \in Branches,
           NEW q \in nautobot[b], q \notin nautobot'[b]
    PROVE  \E a \in Attempts : pc[a] = "undo" /\ q \in held[a]
<1>1. nautobot' # nautobot
  OBVIOUS
<1>2. PICK a \in Attempts : Create(a) \/ CreatePolicy(a) \/ Release(a)
  BY <1>1 DEF vars, Next, Crash, Request, Plan, DeployAgain, Step, Preflight,
     LookUp, Decide, ListEndpoints, Reserved, FindPolicy, RecordPolicies, Patch,
     WriteArtifacts, PaSet, PaCommit, FgApply, Validate, Operate, SaveDevice,
     Released
<1>3. CASE Create(a) \/ CreatePolicy(a)
  <2>1. PICK o : nautobot' = nautobot \/ Post(a, o)
    BY <1>3 DEF Create, CreatePolicy
  <2> QED
    BY <1>1, <2>1 DEF Post, TypeInv, TypeOK
<1>4. CASE Release(a)
  BY <1>1, <1>4 DEF Release, TypeInv, TypeOK
<1> QED
  BY <1>2, <1>3, <1>4

\* Nothing but the rollback of the deployment that created it ever removes an
\* object, and that rollback runs only while no firewall was changed.
THEOREM OnlyOwnIsReleased == Spec => OnlyOwnReleased
<1>1. ASSUME TypeInv, OwnInv, [Next]_vars
      PROVE  \A b \in Branches : \A q \in nautobot[b] \ nautobot'[b] :
                 q[2] \in Attempts /\ pc[q[2]] = "undo" /\ ~changed[q[2]]
  <2> SUFFICES ASSUME NEW b \in Branches, NEW q \in nautobot[b], q \notin nautobot'[b]
               PROVE  q[2] \in Attempts /\ pc[q[2]] = "undo" /\ ~changed[q[2]]
    OBVIOUS
  <2>1. PICK a \in Attempts : pc[a] = "undo" /\ q \in held[a]
    BY <1>1, OnlyReleaseRemoves
  <2> QED
    BY <1>1, <2>1 DEF OwnInv, OwnObjects, BeforeCommit, BeforeReserve
<1> QED
  BY <1>1, TypeInvariance, OwnInvariance, PTL DEF Spec, OnlyOwnReleased

-----------------------------------------------------------------------------
(* Everything configured is listed: the artifacts are written before the    *)
(* Palo Alto is touched, and nothing here removes them.                     *)

ListInv ==
    /\ ConfiguredMeansListed
    /\ \A a \in Attempts : pc[a] \in {"paset", "pacommit"} => Branch(a) \in artifacts

LEMMA ListStep ==
    ASSUME TypeInv, ListInv, [Next]_vars
    PROVE  ListInv'
<1> USE DEF ListInv, ConfiguredMeansListed, Branch
<1>1. CASE UNCHANGED vars
  BY <1>1 DEF vars, firewalls
<1>2. CASE Crash
  BY <1>2 DEF Crash, firewalls, TypeInv, TypeOK, Working
<1>3. ASSUME NEW a \in Attempts, Plan(a)
      PROVE  ListInv'
  BY <1>3 DEF Plan, GoTo, Fail, Undo, firewalls, TypeInv, TypeOK
<1>4. ASSUME NEW a \in Attempts, Preflight(a)
      PROVE  ListInv'
  BY <1>4 DEF Preflight, GoTo, Fail, Undo, firewalls, TypeInv, TypeOK
<1>5. ASSUME NEW a \in Attempts, LookUp(a)
      PROVE  ListInv'
  BY <1>5 DEF LookUp, GoTo, Fail, Undo, firewalls, TypeInv, TypeOK
<1>6. ASSUME NEW a \in Attempts, Decide(a)
      PROVE  ListInv'
  BY <1>6 DEF Decide, GoTo, Fail, Undo, firewalls, TypeInv, TypeOK
<1>7. ASSUME NEW a \in Attempts, ListEndpoints(a)
      PROVE  ListInv'
  BY <1>7 DEF ListEndpoints, GoTo, Fail, Undo, firewalls, TypeInv, TypeOK
<1>8. ASSUME NEW a \in Attempts, Create(a)
      PROVE  ListInv'
  BY <1>8 DEF Create, GoTo, Fail, Undo, firewalls, TypeInv, TypeOK
<1>9. ASSUME NEW a \in Attempts, Reserved(a)
      PROVE  ListInv'
  BY <1>9 DEF Reserved, GoTo, Fail, Undo, firewalls, TypeInv, TypeOK
<1>10. ASSUME NEW a \in Attempts, FindPolicy(a)
      PROVE  ListInv'
  BY <1>10 DEF FindPolicy, GoTo, Fail, Undo, firewalls, TypeInv, TypeOK
<1>11. ASSUME NEW a \in Attempts, CreatePolicy(a)
      PROVE  ListInv'
  BY <1>11 DEF CreatePolicy, GoTo, Fail, Undo, firewalls, TypeInv, TypeOK
<1>12. ASSUME NEW a \in Attempts, RecordPolicies(a)
      PROVE  ListInv'
  BY <1>12 DEF RecordPolicies, GoTo, Fail, Undo, firewalls, TypeInv, TypeOK
<1>13. ASSUME NEW a \in Attempts, Patch(a)
      PROVE  ListInv'
  BY <1>13 DEF Patch, GoTo, Fail, Undo, firewalls, TypeInv, TypeOK
<1>14. ASSUME NEW a \in Attempts, WriteArtifacts(a)
      PROVE  ListInv'
  <2>1. UNCHANGED <<paCandidate, paRunning, cand>>
    BY <1>14 DEF WriteArtifacts, firewalls
  <2>2. CASE artifacts' = artifacts \cup {Branch(a)} /\ GoTo(a, "paset")
    BY <2>1, <2>2 DEF GoTo, TypeInv, TypeOK
  <2>3. CASE artifacts' \in {artifacts, artifacts \cup {Branch(a)}} /\ Fail(a)
    BY <2>1, <2>3 DEF Fail, Undo, GoTo, TypeInv, TypeOK
  <2> QED
    BY <1>14, <2>2, <2>3 DEF WriteArtifacts, ArtifactsFailed
<1>15. ASSUME NEW a \in Attempts, PaSet(a)
      PROVE  ListInv'
  <2>1. /\ UNCHANGED <<paRunning, artifacts, cand>>
        /\ \A c \in Attempts : pc'[c] \in {"paset", "pacommit"}
                                   => pc[c] \in {"paset", "pacommit"}
    BY <1>15 DEF PaSet, GoTo, Fail, Undo, TypeInv, TypeOK
  <2>2. PICK new : paCandidate' = [paCandidate EXCEPT ![Branch(a)] = new] \/ paCandidate' = paCandidate
    BY <1>15 DEF PaSet
  <2>3. Branch(a) \in artifacts
    BY <1>15 DEF PaSet
  <2> QED
    BY <2>1, <2>2, <2>3 DEF TypeInv, TypeOK
<1>16. ASSUME NEW a \in Attempts, PaCommit(a)
      PROVE  ListInv'
  <2>1. /\ UNCHANGED <<paCandidate, artifacts, cand>>
        /\ paRunning' \in {paRunning, paCandidate}
    BY <1>16 DEF PaCommit
  <2>2. \A c \in Attempts : pc'[c] \in {"paset", "pacommit"}
                                => pc[c] \in {"paset", "pacommit"}
    BY <1>16 DEF PaCommit, GoTo, Fail, Undo, TypeInv, TypeOK
  <2> QED
    BY <2>1, <2>2
<1>17. ASSUME NEW a \in Attempts, FgApply(a)
      PROVE  ListInv'
  BY <1>17 DEF FgApply, GoTo, Fail, Undo, firewalls, TypeInv, TypeOK
<1>18. ASSUME NEW a \in Attempts, Validate(a)
      PROVE  ListInv'
  BY <1>18 DEF Validate, GoTo, Fail, Undo, firewalls, TypeInv, TypeOK
<1>19. ASSUME NEW a \in Attempts, Operate(a)
      PROVE  ListInv'
  BY <1>19 DEF Operate, GoTo, Fail, Undo, firewalls, TypeInv, TypeOK
<1>20. ASSUME NEW a \in Attempts, SaveDevice(a)
      PROVE  ListInv'
  BY <1>20 DEF SaveDevice, GoTo, Fail, Undo, firewalls, TypeInv, TypeOK
<1>21. ASSUME NEW a \in Attempts, Release(a)
      PROVE  ListInv'
  BY <1>21 DEF Release, GoTo, Fail, Undo, firewalls, TypeInv, TypeOK
<1>22. ASSUME NEW a \in Attempts, Released(a)
      PROVE  ListInv'
  BY <1>22 DEF Released, GoTo, Fail, Undo, firewalls, TypeInv, TypeOK
<1>23. ASSUME NEW a \in Attempts, NEW c \in Attempts, DeployAgain(a, c)
      PROVE  ListInv'
  BY <1>23 DEF DeployAgain, GoTo, firewalls, TypeInv, TypeOK
<1> QED
  BY <1>1, <1>2, <1>3, <1>4, <1>5, <1>6, <1>7, <1>8, <1>9, <1>10, <1>11, <1>12,
     <1>13, <1>14, <1>15, <1>16, <1>17, <1>18, <1>19, <1>20, <1>21, <1>22, <1>23
     DEF Next, Request, Step

\* Whatever any deployment left on the Palo Alto, committed or not, the
\* deployments page lists its branch.
THEOREM ConfiguredIsListed == Spec => []ConfiguredMeansListed
<1>1. Init => ListInv
  BY DEF Init, ListInv, ConfiguredMeansListed
<1> QED
  BY <1>1, ListStep, TypeInvariance, PTL DEF Spec, ListInv

-----------------------------------------------------------------------------
(* What is served is reserved.  This needs deployments that are sent one at *)
(* a time and a Palo Alto that never keeps part of a deployment that then   *)
(* fails; SafeInv says why it suffices.                                     *)

CleanPaloAlto == Faults \cap {"partial", "commit", "commitlost"} = {}

\* Reserved, and not yet on the Palo Alto.
BeforePaloAlto == {"policy", "post", "patch", "artifacts", "paset"}
\* The Palo Alto is configured.
AfterCommit == {"fgapply", "validate", "operate", "save"}

Untouched(b) == paCandidate[b] = Nothing /\ paRunning[b] = Nothing

\* One deployment at a time.
AloneInv == \A a, c \in Attempts : pc[a] \in Working /\ pc[c] \in Working => a = c

\* Only complete reservations reach the Palo Alto, committed or not.
KeptInv == \A b \in Branches : Untouched(b) \/ Complete(nautobot[b])

\* The lookups of ensure_reserved have seen everything that is there.
LookupOK(a) ==
    /\ pc[a] \in {"lookup", "endpoints"} => held[a] \subseteq Inventory(a)
    /\ pc[a] = "lookup" =>
           \A o \in LookedUp \ todo[a] : \A i \in Stamps :
               <<o, i>> \in Inventory(a) => <<o, i>> \in held[a]
    /\ pc[a] = "endpoints" => NothingMissing(held[a])

\* reserve has created what it has visited.
CreateOK(a) ==
    pc[a] = "create" => \A o \in Basic \ todo[a] : <<o, a>> \in Inventory(a)

\* From then on the reservation is complete.
HoldOK(a) ==
    pc[a] \in BeforePaloAlto \cup {"pacommit"} \cup AfterCommit
        => Complete(Inventory(a))

\* A deployment that may still release its branch has not configured it, and
\* nobody else has.
FreshOK(a) ==
    /\ pc[a] \in {"create", "undo"} => Untouched(Branch(a))
    /\ pc[a] \in BeforePaloAlto /\ own[a] => Untouched(Branch(a))
    /\ pc[a] \in AfterCommit => changed[a]

Local(a) == LookupOK(a) /\ CreateOK(a) /\ HoldOK(a) /\ FreshOK(a)

SafeInv == AloneInv /\ KeptInv /\ \A a \in Attempts : Local(a)

LEMMA MoreIsComplete ==
    ASSUME NEW S, NEW T, S \subseteq T, Complete(S)
    PROVE  Complete(T)
  BY DEF Complete

\* Without the LAN prefix a branch is not complete.
LEMMA FirstPrefix ==
    /\ <<"prefix", 1>> \in LookedUp
    /\ <<"prefix", 1>> \in Basic
<1>1. 1 \in 1..(2 + NumTunnels)
  BY InventoryAssumption
<1> QED
  BY <1>1 DEF LookedUp, Basic, Prefixes, Numbered, Endpoints

\* Every endpoint belongs to a tunnel.
LEMMA EndpointHasTunnel ==
    ASSUME NEW e \in Endpoints
    PROVE  \E u \in TunnelObjs : e \in EndpointsOf(u)
<1>1. PICK n \in 1..(2 * NumTunnels) : e = <<"endpoint", n>>
  BY DEF Endpoints, Numbered
<1>2. PICK m \in 1..NumTunnels : n = 2 * m - 1 \/ n = 2 * m
  <2> DEFINE half == (n + 1) \div 2
  <2>1. half \in Int /\ (n = 2 * half - 1 \/ n = 2 * half)
    OBVIOUS
  <2>2. half \in 1..NumTunnels
    BY <2>1, InventoryAssumption
  <2> QED
    BY <2>1, <2>2
<1>3. <<"tunnel", m>> \in TunnelObjs /\ e \in EndpointsOf(<<"tunnel", m>>)
  BY <1>1, <1>2 DEF TunnelObjs, Numbered, EndpointsOf
<1> QED
  BY <1>3

\* What ensure_reserved accepts as an existing reservation is complete.
LEMMA AcceptedIsComplete ==
    ASSUME NEW inv, NEW found, found \subseteq inv, NothingMissing(found),
           EndpointsAgree(MatchedEndpoints(inv, found), found)
    PROVE  Complete(inv)
<1>1. ASSUME NEW e \in Endpoints
      PROVE  \E i \in Attempts : <<e, i>> \in inv
  <2>1. PICK u \in TunnelObjs : e \in EndpointsOf(u)
    BY EndpointHasTunnel
  <2>2. u \in LookedUp
    BY DEF LookedUp, Basic, TunnelObjs, Endpoints, Numbered
  <2>3. PICK i \in Attempts : <<u, i>> \in found
    BY <2>2 DEF NothingMissing
  <2>4. <<e, i>> \in ReferencedEndpoints(found)
    BY <2>1, <2>3 DEF ReferencedEndpoints
  <2> QED
    BY <2>4 DEF EndpointsAgree, MatchedEndpoints
<1> QED
  BY <1>1 DEF Complete, NothingMissing, LookedUp

\* A deployment that is not under way has nothing to keep.
LEMMA AtRest ==
    ASSUME NEW a \in Attempts, pc'[a] \notin Working
    PROVE  Local(a)'
  BY DEF Local, LookupOK, CreateOK, HoldOK, FreshOK, Working, BeforePaloAlto,
         AfterCommit

\* Only the deployment that is under way moves.
LEMMA SoloStep ==
    ASSUME TypeInv, SafeInv, NEW a \in Attempts,
           \A c \in Attempts \ {a} : pc'[c] = pc[c] /\ pc[c] \notin Working,
           KeptInv', Local(a)'
    PROVE  SafeInv'
<1>1. ASSUME NEW c \in Attempts \ {a}
      PROVE  pc'[c] \notin Working /\ Local(c)'
  BY <1>1, AtRest
<1>2. AloneInv'
  <2> SUFFICES ASSUME NEW b \in Attempts, NEW c \in Attempts,
                      pc'[b] \in Working, pc'[c] \in Working
               PROVE  b = c
    BY DEF AloneInv
  <2> QED
    BY <1>1
<1> QED
  BY <1>1, <1>2 DEF SafeInv

\* Rolling back is safe, and a deployment that fails otherwise is at rest.
LEMMA SafeFailure ==
    ASSUME TypeInv, OwnInv, SafeInv, NEW a \in Attempts,
           Fail(a), UNCHANGED <<cand, paCandidate, paRunning>>,
           pc[a] \in BeforePaloAlto \cup AfterCommit
    PROVE  Local(a)'
<1>1. CASE MayRelease(a)
  <2>1. pc'[a] = "undo"
    BY <1>1 DEF Fail, Undo, GoTo, TypeInv, TypeOK
  <2>2. Untouched(Branch(a))'
    BY <1>1 DEF SafeInv, Local, FreshOK, MayRelease, Untouched, Branch
  <2> QED
    BY <2>1, <2>2 DEF Local, LookupOK, CreateOK, HoldOK, FreshOK, BeforePaloAlto,
                      AfterCommit
<1>2. CASE ~MayRelease(a)
  <2>1. pc'[a] = "failed"
    BY <1>2 DEF Fail, GoTo, TypeInv, TypeOK
  <2> QED
    BY <2>1, AtRest DEF Working
<1> QED
  BY <1>1, <1>2

\* Everything the step of a deployment under way leaves alone.
LEMMA Alone ==
    ASSUME SafeInv, NEW a \in Attempts, pc[a] \in Working
    PROVE  \A c \in Attempts \ {a} : pc[c] \notin Working
  BY DEF SafeInv, AloneInv

LEMMA KeptWhenGrowing ==
    ASSUME SafeInv, UNCHANGED <<paCandidate, paRunning>>,
           \A b \in Branches : nautobot[b] \subseteq nautobot'[b]
    PROVE  KeptInv'
  BY MoreIsComplete DEF SafeInv, KeptInv, Untouched

\* The requests: nothing that is reserved or configured changes.
LEMMA SafeRequest ==
    ASSUME Serial, TypeInv, OwnInv, SafeInv,
           NEW a \in Attempts, Request(a)
    PROVE  SafeInv'
<1> USE DEF firewalls
<1>1. KeptInv'
  BY DEF Request, Plan, DeployAgain, Preflight, SafeInv, KeptInv, Untouched
<1>2. CASE Plan(a) \/ \E c \in Attempts : DeployAgain(a, c)
  <2>1. /\ pc[a] = "idle" /\ pc' = [pc EXCEPT ![a] = "planned"]
        /\ UNCHANGED <<nautobot, paCandidate, paRunning, todo, held, own, changed>>
        /\ \A c \in Attempts \ {a} : cand'[c] = cand[c]
    BY <1>2 DEF Plan, DeployAgain, GoTo, TypeInv, TypeOK
  <2>2. \A c \in Attempts \ {a} : pc'[c] = pc[c] /\ Branch(c)' = Branch(c)
    BY <2>1 DEF TypeInv, TypeOK, Branch
  <2>3. ASSUME NEW c \in Attempts \ {a}
        PROVE  Local(c)'
    BY <2>1, <2>2 DEF SafeInv, Local, LookupOK, CreateOK, HoldOK, FreshOK,
       Inventory,
                      Untouched
  <2>4. pc'[a] = "planned"
    BY <2>1 DEF TypeInv, TypeOK
  <2>5. Local(a)'
    BY <2>4, AtRest DEF Working
  <2>6. AloneInv'
    BY <2>2, <2>4 DEF SafeInv, AloneInv, Working
  <2> QED
    BY <1>1, <2>3, <2>5, <2>6 DEF SafeInv
<1>3. CASE Preflight(a)
  <2>1. /\ pc[a] = "planned"
        /\ UNCHANGED <<nautobot, paCandidate, paRunning, held>>
        /\ \A c \in Attempts \ {a} : pc'[c] = pc[c] /\ pc[c] \notin Working
    BY <1>3 DEF Preflight, GoTo, Busy, TypeInv, TypeOK
  <2>2. CASE pc'[a] = "lookup" /\ todo'[a] = LookedUp
    <3>1. held[a] = {}
      BY <2>1 DEF OwnInv
    <3> QED
      BY <1>1, <2>1, <2>2, <3>1, SoloStep
         DEF Local, LookupOK, CreateOK, HoldOK, FreshOK, BeforePaloAlto, AfterCommit
  <2>3. CASE pc'[a] = "failed"
    BY <1>1, <2>1, <2>3, AtRest, SoloStep DEF Working
  <2> QED
    BY <1>3, <2>2, <2>3 DEF Preflight, GoTo, TypeInv, TypeOK
<1> QED
  BY <1>2, <1>3 DEF Request

\* ensure_reserved: the lookups and what is made of them.
LEMMA SafeEnsure ==
    ASSUME TypeInv, OwnInv, SafeInv, NEW a \in Attempts,
           LookUp(a) \/ Decide(a) \/ ListEndpoints(a)
    PROVE  SafeInv'
<1>1. /\ UNCHANGED <<nautobot, paCandidate, paRunning, cand, own>>
      /\ pc[a] \in {"lookup", "endpoints"}
      /\ \A c \in Attempts \ {a} : pc'[c] = pc[c]
  BY DEF LookUp, Decide, ListEndpoints, firewalls, GoTo, TypeInv, TypeOK
<1>2. KeptInv' /\ \A c \in Attempts \ {a} : pc[c] \notin Working
  BY <1>1, KeptWhenGrowing, Alone DEF Working
<1>3. Local(a)
  BY DEF SafeInv
<1>4. CASE pc'[a] = "failed"
  BY <1>1, <1>2, <1>4, AtRest, SoloStep DEF Working
<1>5. CASE LookUp(a) /\ pc'[a] # "failed"
  <2>1. PICK o \in LookedUp \cup todo[a] :
            /\ held'[a] = held[a] \cup ({o} \X Ids(Inventory(a), o))
            /\ todo'[a] = todo[a] \ {o}
    BY <1>5, NextIsMember DEF LookUp, Visited, GoTo, TypeInv, TypeOK
  <2>2. pc[a] = "lookup" /\ pc'[a] = "lookup"
    BY <1>5 DEF LookUp, GoTo, TypeInv, TypeOK
  <2>3. LookupOK(a)'
    BY <1>1, <1>3, <2>1, <2>2 DEF Local, LookupOK, Inventory, Branch, Ids
  <2>4. Local(a)'
    BY <2>2, <2>3 DEF Local, CreateOK, HoldOK, FreshOK, BeforePaloAlto, AfterCommit
  <2> QED
    BY <1>1, <1>2, <2>4, SoloStep
<1>6. CASE Decide(a) /\ pc'[a] # "failed"
  <2>1. pc[a] = "lookup" /\ todo[a] = {} /\ held' = held
    BY <1>6 DEF Decide
  <2>2. CASE held[a] = {} /\ pc'[a] = "create" /\ todo'[a] = Basic
    <3>1. \A i \in Attempts : <<<<"prefix", 1>>, i>> \notin Inventory(a)
      BY <1>3, <2>1, <2>2, FirstPrefix, StampsHold DEF Local, LookupOK
    <3>2. ~Complete(Inventory(a))
      BY <3>1, FirstPrefix DEF Complete
    <3>3. Untouched(Branch(a))
      BY <1>1, <3>2, BranchOfCandidate DEF SafeInv, KeptInv, Inventory,
         Underway, Working
    <3>4. Local(a)'
      BY <1>1, <2>2, <3>3 DEF Local, LookupOK, CreateOK, HoldOK, FreshOK, Untouched,
                              Branch, BeforePaloAlto, AfterCommit
    <3> QED
      BY <1>1, <1>2, <3>4, SoloStep
  <2>3. CASE NothingMissing(held[a]) /\ pc'[a] = "endpoints"
    <3>1. Local(a)'
      BY <1>1, <1>3, <2>1, <2>3
         DEF Local, LookupOK, CreateOK, HoldOK, FreshOK, Inventory, Branch,
             BeforePaloAlto, AfterCommit
    <3> QED
      BY <1>1, <1>2, <3>1, SoloStep
  <2> QED
    BY <1>6, <2>2, <2>3 DEF Decide, GoTo, TypeInv, TypeOK
<1>7. CASE ListEndpoints(a) /\ pc'[a] # "failed"
  <2>1. /\ pc[a] = "endpoints" /\ pc'[a] = "policy"
        /\ EndpointsAgree(MatchedEndpoints(Inventory(a), held[a]), held[a])
    BY <1>7 DEF ListEndpoints, GoTo, TypeInv, TypeOK
  <2>2. Complete(Inventory(a))
    BY <1>3, <2>1, AcceptedIsComplete DEF Local, LookupOK
  <2>3. ~own'[a]
    BY <1>1, <2>1 DEF OwnInv, BeforeReserve
  <2>4. Local(a)'
    BY <1>1, <2>1, <2>2, <2>3
       DEF Local, LookupOK, CreateOK, HoldOK, FreshOK, Inventory, Branch,
          AfterCommit
  <2> QED
    BY <1>1, <1>2, <2>4, SoloStep
<1> QED
  BY <1>4, <1>5, <1>6, <1>7

\* reserve: what it created stays, and at its end everything is there.
LEMMA SafeReserve ==
    ASSUME TypeInv, OwnInv, SafeInv, NEW a \in Attempts, Create(a) \/ Reserved(a)
    PROVE  SafeInv'
<1>1. /\ UNCHANGED <<paCandidate, paRunning, cand>>
      /\ pc[a] = "create"
      /\ \A c \in Attempts \ {a} : pc'[c] = pc[c]
  BY DEF Create, Reserved, firewalls, GoTo, Undo, TypeInv, TypeOK
<1>2. \A c \in Attempts \ {a} : pc[c] \notin Working
  BY <1>1, Alone DEF Working
<1>3. Branch(a) \in Branches /\ Branch(a)' = Branch(a)
  BY <1>1, BranchOfCandidate DEF Underway, Working, Branch
<1>4. Local(a) /\ Untouched(Branch(a))
  BY <1>1 DEF SafeInv, Local, FreshOK
<1>5. \A b \in Branches : nautobot[b] \subseteq nautobot'[b]
  BY <1>3 DEF Create, Reserved, Post, TypeInv, TypeOK
<1>6. KeptInv'
  BY <1>1, <1>5, KeptWhenGrowing
<1>7. CASE pc'[a] = "undo"
  <2>1. Local(a)'
    BY <1>1, <1>3, <1>4, <1>7
       DEF Local, LookupOK, CreateOK, HoldOK, FreshOK, Untouched, BeforePaloAlto,
           AfterCommit
  <2> QED
    BY <1>1, <1>2, <1>6, <2>1, SoloStep
<1>8. CASE Create(a) /\ pc'[a] # "undo"
  <2>1. PICK o : /\ Post(a, o)
                 /\ todo'[a] = todo[a] \ {o}
                 /\ pc'[a] = "create"
    BY <1>8 DEF Create, Visited, Undo, GoTo, TypeInv, TypeOK
  <2>2. <<o, a>> \in Inventory(a)'
    BY <1>3, <2>1 DEF Post, Inventory, TypeInv, TypeOK
  <2>3. CreateOK(a)'
    <3> SUFFICES ASSUME NEW p \in Basic \ todo'[a]
                 PROVE  <<p, a>> \in Inventory(a)'
      BY DEF CreateOK
    <3>1. CASE p = o
      BY <2>2, <3>1
    <3>2. CASE p # o
      <4>1. <<p, a>> \in Inventory(a)
        BY <1>1, <1>4, <2>1, <3>2 DEF Local, CreateOK
      <4> QED
        BY <1>3, <1>5, <4>1 DEF Inventory
    <3> QED
      BY <3>1, <3>2
  <2>4. Local(a)'
    BY <1>1, <1>3, <1>4, <2>1, <2>3
       DEF Local, LookupOK, HoldOK, FreshOK, Untouched, BeforePaloAlto, AfterCommit
  <2> QED
    BY <1>1, <1>2, <1>6, <2>4, SoloStep
<1>9. CASE Reserved(a)
  <2>1. pc'[a] = "policy" /\ todo[a] = {} /\ nautobot' = nautobot
    BY <1>9 DEF Reserved, GoTo, TypeInv, TypeOK
  <2>2. Complete(Inventory(a))
    BY <1>1, <1>4, <2>1 DEF Local, CreateOK, Complete
  <2>3. Local(a)'
    BY <1>1, <1>3, <1>4, <2>1, <2>2
       DEF Local, LookupOK, CreateOK, HoldOK, FreshOK, Untouched, Inventory,
          AfterCommit
  <2> QED
    BY <1>1, <1>2, <1>6, <2>3, SoloStep
<1> QED
  BY <1>7, <1>8, <1>9

\* enrich_reservation and the artifacts: a failure here may release.
LEMMA SafeEnrich ==
    ASSUME TypeInv, OwnInv, SafeInv, NEW a \in Attempts,
           \/ FindPolicy(a) \/ CreatePolicy(a) \/ RecordPolicies(a)
           \/ Patch(a) \/ WriteArtifacts(a)
    PROVE  SafeInv'
<1> USE DEF FindPolicy, CreatePolicy, RecordPolicies, Patch, WriteArtifacts, ArtifactsFailed
<1>1. /\ UNCHANGED <<paCandidate, paRunning, cand, own>>
      /\ pc[a] \in BeforePaloAlto
  BY DEF firewalls, BeforePaloAlto
<1>2. \/ Fail(a)
      \/ pc' = pc
      \/ \E state \in BeforePaloAlto : GoTo(a, state)
  BY DEF BeforePaloAlto
<1>3. \A c \in Attempts \ {a} : pc'[c] = pc[c] /\ pc[c] \notin Working
  BY <1>1, <1>2, Alone DEF Fail, Undo, GoTo, TypeInv, TypeOK, BeforePaloAlto,
     Working
<1>4. Branch(a) \in Branches /\ Branch(a)' = Branch(a)
  BY <1>1, BranchOfCandidate DEF Underway, Working, BeforePaloAlto, Branch
<1>5. \A b \in Branches : nautobot[b] \subseteq nautobot'[b]
  <2>1. nautobot' = nautobot \/ \E o : Post(a, o)
    BY DEF firewalls
  <2> QED
    BY <1>4, <2>1 DEF Post, TypeInv, TypeOK
<1>6. KeptInv'
  BY <1>1, <1>5, KeptWhenGrowing
<1>7. CASE Fail(a)
  BY <1>1, <1>3, <1>6, <1>7, SafeFailure, SoloStep
<1>8. CASE pc'[a] \in BeforePaloAlto
  <2>1. Complete(Inventory(a)) /\ (own[a] => Untouched(Branch(a)))
    BY <1>1 DEF SafeInv, Local, HoldOK, FreshOK
  <2>2. Complete(Inventory(a))'
    BY <1>4, <1>5, <2>1, MoreIsComplete DEF Inventory
  <2>3. Local(a)'
    BY <1>1, <1>4, <1>8, <2>1, <2>2
       DEF Local, LookupOK, CreateOK, HoldOK, FreshOK, Untouched, BeforePaloAlto,
           AfterCommit
  <2> QED
    BY <1>3, <1>6, <2>3, SoloStep
<1> QED
  BY <1>1, <1>2, <1>7, <1>8 DEF GoTo, TypeInv, TypeOK

\* The Palo Alto is given complete reservations only, and what fails after
\* its commit is not released.
LEMMA SafePaloAlto ==
    ASSUME CleanPaloAlto, TypeInv, OwnInv, SafeInv,
           NEW a \in Attempts, PaSet(a) \/ PaCommit(a)
    PROVE  SafeInv'
<1>1. /\ UNCHANGED <<nautobot, cand, own>>
      /\ pc[a] \in {"paset", "pacommit"}
  BY DEF PaSet, PaCommit
<1>2. /\ Branch(a) \in Branches
      /\ Branch(a)' = Branch(a)
      /\ Inventory(a)' = Inventory(a)
  BY <1>1, BranchOfCandidate DEF Underway, Working, Branch, Inventory
<1>3. Complete(Inventory(a))
  BY <1>1 DEF SafeInv, Local, HoldOK, BeforePaloAlto
<1>4. \A c \in Attempts \ {a} : pc[c] \notin Working
  BY <1>1, Alone DEF Working
<1>5. CASE PaSet(a) /\ ~Fail(a)
  <2>1. PICK new : paCandidate' = [paCandidate EXCEPT ![Branch(a)] = new]
    BY <1>5, Zenon DEF PaSet, CleanPaloAlto, Fault
  <2>2. pc' = [pc EXCEPT ![a] = "pacommit"] /\ paRunning' = paRunning
    BY <1>5 DEF PaSet, CleanPaloAlto, Fault, GoTo
  <2>3. \A b \in Branches \ {Branch(a)} : paCandidate'[b] = paCandidate[b]
    BY <2>1 DEF TypeInv, TypeOK
  <2>4. KeptInv'
    BY <1>1, <1>3, <2>2, <2>3 DEF SafeInv, KeptInv, Untouched, Inventory
  <2>5. Local(a)'
    BY <1>2, <1>3, <2>2
       DEF Local, LookupOK, CreateOK, HoldOK, FreshOK, BeforePaloAlto, AfterCommit,
           TypeInv, TypeOK
  <2> QED
    BY <1>4, <2>2, <2>4, <2>5, SoloStep DEF TypeInv, TypeOK
<1>6. CASE PaSet(a) /\ Fail(a)
  <2>1. UNCHANGED <<paCandidate, paRunning>> /\ pc[a] = "paset"
    BY <1>6 DEF PaSet, CleanPaloAlto, Fault, Fail, Undo, GoTo, TypeInv, TypeOK
  <2>2. KeptInv' /\ Local(a)'
    BY <1>1, <1>6, <2>1, KeptWhenGrowing, SafeFailure DEF BeforePaloAlto
  <2> QED
    BY <1>4, <1>6, <2>2, SoloStep DEF Fail, Undo, GoTo, TypeInv, TypeOK
<1>7. CASE PaCommit(a)
  <2>1. /\ paRunning' \in {paRunning, paCandidate} /\ paCandidate' = paCandidate
        /\ pc' = [pc EXCEPT ![a] = "fgapply"]
        /\ changed' = [changed EXCEPT ![a] = TRUE]
    BY <1>7 DEF PaCommit, CleanPaloAlto, Fault, GoTo
  <2>2. KeptInv'
    BY <1>1, <2>1 DEF SafeInv, KeptInv, Untouched
  <2>3. Local(a)'
    BY <1>2, <1>3, <2>1
       DEF Local, LookupOK, CreateOK, HoldOK, FreshOK, BeforePaloAlto, AfterCommit,
           TypeInv, TypeOK
  <2> QED
    BY <1>4, <2>1, <2>2, <2>3, SoloStep DEF TypeInv, TypeOK
<1> QED
  BY <1>5, <1>6, <1>7

LEMMA SafeFortiGate ==
    ASSUME TypeInv, OwnInv, SafeInv, NEW a \in Attempts,
           FgApply(a) \/ Validate(a) \/ Operate(a) \/ SaveDevice(a)
    PROVE  SafeInv'
<1> USE DEF FgApply, Validate, Operate, SaveDevice
<1>1. /\ UNCHANGED <<nautobot, paCandidate, paRunning, cand, own, changed>>
      /\ pc[a] \in AfterCommit
  BY DEF firewalls, AfterCommit
<1>2. \/ Fail(a)
      \/ \E state \in AfterCommit \cup {"ok", "unsaved"} : GoTo(a, state)
  BY DEF AfterCommit
<1>3. KeptInv' /\ \A c \in Attempts \ {a} : pc'[c] = pc[c] /\ pc[c] \notin Working
  BY <1>1, <1>2, KeptWhenGrowing, Alone
     DEF Fail, Undo, GoTo, TypeInv, TypeOK, AfterCommit, Working
<1>4. CASE Fail(a)
  BY <1>1, <1>3, <1>4, SafeFailure, SoloStep
<1>5. CASE pc'[a] \in AfterCommit
  <2>1. Complete(Inventory(a))' /\ changed'[a]
    BY <1>1 DEF SafeInv, Local, HoldOK, FreshOK, Inventory, Branch
  <2>2. Local(a)'
    BY <1>5, <2>1
       DEF Local, LookupOK, CreateOK, HoldOK, FreshOK, BeforePaloAlto, AfterCommit
  <2> QED
    BY <1>3, <2>2, SoloStep
<1>6. CASE pc'[a] \in {"ok", "unsaved"}
  BY <1>3, <1>6, AtRest, SoloStep DEF Working
<1> QED
  BY <1>2, <1>4, <1>5, <1>6 DEF GoTo, TypeInv, TypeOK

\* A branch that is being released is on no firewall.
LEMMA SafeRelease ==
    ASSUME TypeInv, OwnInv, SafeInv, NEW a \in Attempts, Release(a) \/ Released(a)
    PROVE  SafeInv'
<1>1. /\ UNCHANGED <<paCandidate, paRunning, cand>>
      /\ pc[a] = "undo"
      /\ pc'[a] \in {"undo", "failed"}
      /\ \A c \in Attempts \ {a} : pc'[c] = pc[c]
      /\ \A b \in Branches \ {Branch(a)} : nautobot'[b] = nautobot[b]
  BY DEF Release, Released, firewalls, GoTo, TypeInv, TypeOK
<1>2. Untouched(Branch(a)) /\ Untouched(Branch(a))'
  BY <1>1 DEF SafeInv, Local, FreshOK, Untouched, Branch
<1>3. KeptInv'
  BY <1>1, <1>2 DEF SafeInv, KeptInv, Untouched, Branch
<1>4. Local(a)'
  BY <1>1, <1>2
     DEF Local, LookupOK, CreateOK, HoldOK, FreshOK, BeforePaloAlto, AfterCommit
<1> QED
  BY <1>1, <1>3, <1>4, Alone, SoloStep DEF Working

LEMMA SafeStarts == Init => SafeInv
  BY DEF Init, SafeInv, AloneInv, KeptInv, Untouched, Local, LookupOK, CreateOK,
         HoldOK, FreshOK, Working, BeforePaloAlto, AfterCommit

LEMMA SafeStep ==
    ASSUME Serial, CleanPaloAlto, TypeInv, OwnInv, SafeInv, [Next]_vars
    PROVE  SafeInv'
<1>1. CASE UNCHANGED vars
  BY <1>1
     DEF vars, firewalls, SafeInv, AloneInv, KeptInv, Untouched, Local, LookupOK,
         CreateOK, HoldOK, FreshOK, Inventory, Branch
<1>2. CASE Crash
  <2>1. \A a \in Attempts : pc'[a] \notin Working
    BY <1>2 DEF Crash, TypeInv, TypeOK, Working
  <2>2. KeptInv'
    BY <1>2 DEF Crash, firewalls, SafeInv, KeptInv, Untouched
  <2> QED
    BY <2>1, <2>2, AtRest DEF SafeInv, AloneInv
<1> QED
  BY <1>1, <1>2, SafeRequest, SafeEnsure, SafeReserve, SafeEnrich, SafePaloAlto,
     SafeFortiGate, SafeRelease
     DEF Next, Step

THEOREM SafeInvariance ==
    ASSUME Serial, CleanPaloAlto
    PROVE  Spec => []SafeInv
  BY SafeStarts, SafeStep, TypeInvariance, OwnInvariance, PTL DEF Spec

\* With deployments sent one at a time and no half-done Palo Alto step, a
\* branch in service never loses its reservation: whatever fails in Nautobot,
\* on the FortiGate or in between, and wherever the server is restarted.
THEOREM ServedIsReserved ==
    ASSUME Serial, CleanPaloAlto
    PROVE  Spec => []ServedMeansReserved
<1>1. SafeInv => ServedMeansReserved
  BY DEF SafeInv, KeptInv, Untouched, ServedMeansReserved
<1> QED
  BY <1>1, SafeInvariance, PTL

-----------------------------------------------------------------------------
(* The reservation: what a deployment has recorded it releases, and neither *)
(* the creation nor the release leaves an object that refers to nothing.    *)
(* Requests interleave freely; a DELETE of a rollback must not fail, since   *)
(* the loop goes on after one that did.                                     *)


CompleteRelease == "undeleted" \notin Faults

-----------------------------------------------------------------------------
(* The orders of creation and release.                                      *)

LEMMA PoliciesApart == Policies \cap Basic = {}
  BY DEF Policies, Basic, Prefixes, IPs, Vpns, Endpoints, TunnelObjs, Numbered

LEMMA ReferencesAreBasic ==
    /\ \A e \in Endpoints : AddressOf(e) \in IPs
    /\ \A u \in TunnelObjs : EndpointsOf(u) \subseteq Endpoints /\ VpnOf(u) \in Vpns
<1>1. ASSUME NEW u \in TunnelObjs
      PROVE  EndpointsOf(u) \subseteq Endpoints
  <2>1. PICK t \in 1..NumTunnels : u = <<"tunnel", t>>
    BY DEF TunnelObjs, Numbered
  <2>2. 2 * t - 1 \in 1..(2 * NumTunnels) /\ 2 * t \in 1..(2 * NumTunnels)
    BY InventoryAssumption
  <2> QED
    BY <2>1, <2>2 DEF EndpointsOf, Endpoints, Numbered
<1> QED
  BY <1>1 DEF AddressOf, VpnOf, Endpoints, IPs, TunnelObjs, Vpns, Numbered

\* An endpoint and its address, a tunnel and what it names, are of one overlay.
LEMMA SameOverlay ==
    /\ \A e \in Endpoints : OverlayOf(AddressOf(e)) = OverlayOf(e)
    /\ \A u \in TunnelObjs : \A p \in EndpointsOf(u) \cup {VpnOf(u)} :
           OverlayOf(p) = OverlayOf(u)
<1>1. ASSUME NEW e \in Endpoints
      PROVE  OverlayOf(AddressOf(e)) = OverlayOf(e)
  BY DEF Endpoints, Numbered, AddressOf, OverlayOf
<1>2. ASSUME NEW u \in TunnelObjs, NEW p \in EndpointsOf(u) \cup {VpnOf(u)}
      PROVE  OverlayOf(p) = OverlayOf(u)
  <2>1. PICK t \in 1..NumTunnels : u = <<"tunnel", t>>
    BY DEF TunnelObjs, Numbered
  <2>2. OverlayOf(u) = t
    BY <2>1 DEF OverlayOf
  <2>3. CASE p = <<"endpoint", 2 * t - 1>>
    <3>1. ((2 * t - 1) + 1) \div 2 = t
      BY InventoryAssumption
    <3> QED
      BY <2>2, <2>3, <3>1 DEF OverlayOf
  <2>4. CASE p = <<"endpoint", 2 * t>>
    <3>1. (2 * t + 1) \div 2 = t
      BY InventoryAssumption
    <3> QED
      BY <2>2, <2>4, <3>1 DEF OverlayOf
  <2>5. CASE p = <<"vpn", t>>
    BY <2>2, <2>5 DEF OverlayOf
  <2> QED
    BY <2>1, <2>3, <2>4, <2>5 DEF EndpointsOf, VpnOf
<1> QED
  BY <1>1, <1>2

LEMMA CreatePositions ==
    /\ \A o \in IPs : Position(CreateOrder, o) = 2
    /\ \A o \in Vpns : Position(CreateOrder, o) = 3
    /\ \A o \in Endpoints : Position(CreateOrder, o) = 4
    /\ \A o \in TunnelObjs : Position(CreateOrder, o) = 5
<1> USE DEF Position, CreateOrder
<1>1. ASSUME NEW o \in IPs PROVE Position(CreateOrder, o) = 2
  BY DEF IPs, Numbered
<1>2. ASSUME NEW o \in Vpns PROVE Position(CreateOrder, o) = 3
  BY DEF Vpns, Numbered
<1>3. ASSUME NEW o \in Endpoints PROVE Position(CreateOrder, o) = 4
  BY DEF Endpoints, Numbered
<1>4. ASSUME NEW o \in TunnelObjs PROVE Position(CreateOrder, o) = 5
  BY DEF TunnelObjs, Numbered
<1> QED
  BY <1>1, <1>2, <1>3, <1>4

LEMMA ReleasePositions ==
    /\ \A o \in TunnelObjs : Position(ReleaseOrder, o) = 1
    /\ \A o \in Endpoints : Position(ReleaseOrder, o) = 2
    /\ \A o \in Vpns : Position(ReleaseOrder, o) = 3
    /\ \A o \in IPs : Position(ReleaseOrder, o) = 7
<1> USE DEF Position, ReleaseOrder
<1>1. ASSUME NEW o \in TunnelObjs PROVE Position(ReleaseOrder, o) = 1
  BY DEF TunnelObjs, Numbered
<1>2. ASSUME NEW o \in Endpoints PROVE Position(ReleaseOrder, o) = 2
  BY DEF Endpoints, Numbered
<1>3. ASSUME NEW o \in Vpns PROVE Position(ReleaseOrder, o) = 3
  BY DEF Vpns, Numbered
<1>4. ASSUME NEW o \in IPs PROVE Position(ReleaseOrder, o) = 7
  BY DEF IPs, Numbered
<1> QED
  BY <1>1, <1>2, <1>3, <1>4

LEMMA KindsDiffer ==
    /\ \A e \in Endpoints, i \in IPs : e[1] # i[1]
    /\ \A u \in TunnelObjs, p \in Endpoints \cup Vpns : u[1] # p[1]
  BY DEF Endpoints, IPs, TunnelObjs, Vpns, Numbered

\* What an object refers to is created before it.
LEMMA CreatedAfterReferences ==
    ASSUME NEW S, NEW o \in NextToCreate(S)
    PROVE  /\ o \in Endpoints => AddressOf(o) \notin S
           /\ o \in TunnelObjs => (EndpointsOf(o) \cup {VpnOf(o)}) \cap S = {}
<1>1. ASSUME NEW p \in S, OverlayOf(p) = OverlayOf(o), OverlayOf(o) \in Int, p[1] # o[1]
      PROVE  Position(CreateOrder, o) < Position(CreateOrder, p)
  BY <1>1 DEF NextToCreate, Ascending
<1>2. \A p \in Endpoints \cup TunnelObjs : OverlayOf(p) \in Int
  BY DEF Endpoints, TunnelObjs, Numbered, OverlayOf
<1>3. ASSUME o \in Endpoints, AddressOf(o) \in S
      PROVE  FALSE
  BY <1>1, <1>2, <1>3, ReferencesAreBasic, SameOverlay, CreatePositions, KindsDiffer
<1>4. ASSUME o \in TunnelObjs, NEW p \in EndpointsOf(o) \cup {VpnOf(o)}, p \in S
      PROVE  FALSE
  BY <1>1, <1>2, <1>4, ReferencesAreBasic, SameOverlay, CreatePositions, KindsDiffer
<1> QED
  BY <1>3, <1>4

\* What refers to an object is released before it.
LEMMA ReleasedBeforeReferences ==
    ASSUME NEW S, NEW o \in NextToRelease(S)
    PROVE  /\ o \in IPs => Endpoints \cap S = {}
           /\ o \in Endpoints \cup Vpns => TunnelObjs \cap S = {}
<1>1. ASSUME NEW p \in S, p[1] # o[1]
      PROVE  Position(ReleaseOrder, o) < Position(ReleaseOrder, p)
  BY <1>1 DEF NextToRelease, Descending
<1> QED
  BY <1>1, ReleasePositions, KindsDiffer

-----------------------------------------------------------------------------
(* The invariant.                                                           *)

\* Nothing that reserve creates is there by deployment a.
BasicFree(a) == \A b \in Branches : \A q \in nautobot[b] : q[2] = a => q[1] \notin Basic

\* A deployment without a reservation of its own has created policies at most.
Reusing == {"idle", "planned", "lookup", "endpoints", "policy", "post", "patch", "artifacts",
            "paset", "pacommit", "fgapply", "validate", "operate", "save"}
FreeOK(a) == pc[a] \in Reusing /\ ~own[a] => BasicFree(a)

\* Of an overlay all objects are recorded, or none.
WholeOverlays(a) ==
    \A q \in held[a] : q[1] \in Basic \ Prefixes =>
        \A p \in Basic \ Prefixes : OverlayOf(p) = OverlayOf(q[1]) => <<p, a>> \in held[a]
HeldOK(a) == own[a] \/ pc[a] \in {"create", "undo"} => WholeOverlays(a)

\* What the loop of release has passed is gone.
UndoOK(a) ==
    pc[a] = "undo" => \A o \in Resources : <<o, a>> \in held[a] /\ o \notin todo[a]
                                                => <<o, a>> \notin Inventory(a)

FailedOK(a) ==
    pc[a] = "failed" /\ ~changed[a] /\ cand[a] # NoCandidate
        => \A q \in held[a] :
              q[2] = a /\ (own[a] \/ q[1] \in Basic) => q \notin Inventory(a)

\* The enrichment visits nothing but policies.
PolicyOK(a) == pc[a] \in {"policy", "post"} => todo[a] \subseteq Policies

ReleaseLocal(a) ==
    FreeOK(a) /\ CreateOK(a) /\ HeldOK(a) /\ PolicyOK(a) /\ UndoOK(a) /\ FailedOK(a)

ReleaseInv == NoDanglingReference /\ \A a \in Attempts : ReleaseLocal(a)

LEMMA BranchOfFailed ==
    ASSUME TypeInv, NEW a \in Attempts, cand[a] # NoCandidate
    PROVE  Branch(a) \in Branches
  BY DEF TypeInv, TypeOK, Branch

\* A deployment is not concerned by objects of other stamps.
LEMMA OthersKept ==
    ASSUME TypeInv, TypeInv', NEW c \in Attempts, ReleaseLocal(c),
           pc'[c] = pc[c], todo'[c] = todo[c], held'[c] = held[c], own'[c] = own[c],
           changed'[c] = changed[c], cand'[c] = cand[c],
           \A b \in Branches : \A o \in Resources :
               <<o, c>> \in nautobot'[b] <=> <<o, c>> \in nautobot[b]
    PROVE  ReleaseLocal(c)'
<1>1. FreeOK(c)'
  <2>1. ASSUME BasicFree(c) PROVE BasicFree(c)'
    <3>1. \A b \in Branches : nautobot'[b] \subseteq Objects
      BY DEF TypeInv, TypeOK
    <3> QED
      BY <2>1, <3>1 DEF BasicFree, Objects
  <2> QED
    BY <2>1 DEF ReleaseLocal, FreeOK
<1>2. ASSUME Branch(c) \in Branches
      PROVE  \A o \in Resources : <<o, c>> \in Inventory(c)' <=> <<o, c>> \in Inventory(c)
  BY <1>2 DEF Inventory, Branch
<1>3. CreateOK(c)'
  BY <1>2, BranchOfCandidate, ResourceSubsets DEF ReleaseLocal, CreateOK, Underway, Working
<1>4. HeldOK(c)'
  BY DEF ReleaseLocal, HeldOK, WholeOverlays
<1>5. UndoOK(c)'
  BY <1>2, BranchOfCandidate DEF ReleaseLocal, UndoOK, Underway, Working
<1>6. FailedOK(c)'
  <2> SUFFICES ASSUME pc[c] = "failed", ~changed[c], cand[c] # NoCandidate,
                      NEW q \in held[c], q[2] = c, own[c] \/ q[1] \in Basic
               PROVE  q \notin Inventory(c)'
    BY DEF FailedOK
  <2>1. q = <<q[1], c>> /\ q[1] \in Resources
    BY ResourceSubsets DEF TypeInv, TypeOK, Objects
  <2> QED
    BY <1>2, <2>1, BranchOfFailed DEF ReleaseLocal, FailedOK
<1> QED
  BY <1>1, <1>3, <1>4, <1>5, <1>6 DEF ReleaseLocal, PolicyOK

\* A failure begins the release, or had nothing to release.
LEMMA FailureReleases ==
    ASSUME TypeInv, OwnInv, NEW a \in Attempts, ReleaseLocal(a), Fail(a),
           UNCHANGED <<cand, held, own, changed>>, pc[a] \in Reusing,
           \A b \in Branches : nautobot'[b] \subseteq nautobot[b] \cup (Policies \X {a})
    PROVE  ReleaseLocal(a)'
<1>1. CASE MayRelease(a)
  <2>1. pc'[a] = "undo" /\ todo'[a] = {q[1] : q \in held[a]}
    BY <1>1 DEF Fail, Undo, GoTo, RecordedResources, TypeInv, TypeOK
  <2>2. UndoOK(a)'
    BY <2>1 DEF UndoOK
  <2>3. HeldOK(a)'
    BY <1>1 DEF ReleaseLocal, HeldOK, WholeOverlays, MayRelease
  <2> QED
    BY <2>1, <2>2, <2>3 DEF ReleaseLocal, FreeOK, Reusing, CreateOK, PolicyOK,
                               FailedOK
<1>2. CASE ~MayRelease(a)
  <2>1. pc'[a] = "failed"
    BY <1>2 DEF Fail, GoTo, TypeInv, TypeOK
  <2>2. FailedOK(a)'
    <3> SUFFICES ASSUME ~changed[a], cand[a] # NoCandidate,
                        NEW q \in held[a], q[2] = a, own[a] \/ q[1] \in Basic,
                        q \in Inventory(a)'
                 PROVE  FALSE
      BY DEF FailedOK
    <3>1. ~own[a] /\ BasicFree(a) /\ Branch(a) \in Branches
      BY <1>2, BranchOfFailed DEF MayRelease, ReleaseLocal, FreeOK
    <3>2. q \in nautobot[Branch(a)] \cup (Policies \X {a})
      BY <3>1 DEF Inventory, Branch
    <3> QED
      BY <3>1, <3>2, PoliciesApart DEF BasicFree
  <2>3. HeldOK(a)'
    BY <2>1 DEF ReleaseLocal, HeldOK, WholeOverlays
  <2> QED
    BY <2>1, <2>2, <2>3 DEF ReleaseLocal, FreeOK, Reusing, CreateOK, PolicyOK,
                               UndoOK
<1> QED
  BY <1>1, <1>2

-----------------------------------------------------------------------------
(* The steps.                                                               *)

\* What deployment a has of its own, and what others have.
LocalTo(a) == \A c \in Attempts \ {a} :
    /\ pc'[c] = pc[c] /\ todo'[c] = todo[c] /\ held'[c] = held[c]
    /\ own'[c] = own[c] /\ changed'[c] = changed[c] /\ cand'[c] = cand[c]

\* It is enough to look at the deployment that moves.
LEMMA ReleaseSolo ==
    ASSUME TypeInv, TypeInv', ReleaseInv, NEW a \in Attempts, LocalTo(a),
           \A b \in Branches : \A o \in Resources : \A c \in Attempts \ {a} :
               <<o, c>> \in nautobot'[b] <=> <<o, c>> \in nautobot[b],
           NoDanglingReference', ReleaseLocal(a)'
    PROVE  ReleaseInv'
<1>1. ASSUME NEW c \in Attempts \ {a} PROVE ReleaseLocal(c)'
  BY OthersKept DEF ReleaseInv, LocalTo
<1> QED
  BY <1>1 DEF ReleaseInv

LEMMA ReleaseQuiet ==
    ASSUME TypeInv, TypeInv', ReleaseInv, NEW a \in Attempts, LocalTo(a),
           UNCHANGED nautobot, ReleaseLocal(a)'
    PROVE  ReleaseInv'
<1>1. NoDanglingReference'
  BY DEF ReleaseInv, NoDanglingReference
<1> QED
  BY <1>1, ReleaseSolo

LEMMA ReleaseRequest ==
    ASSUME TypeInv, TypeInv', OwnInv, ReleaseInv, NEW a \in Attempts, Request(a)
    PROVE  ReleaseInv'
<1>1. /\ UNCHANGED <<nautobot, held, own, changed>> /\ LocalTo(a)
      /\ pc[a] \in {"idle", "planned"}
      /\ pc'[a] \in {"planned", "lookup", "failed"}
  BY DEF Request, Plan, DeployAgain, Preflight, GoTo, LocalTo, TypeInv, TypeOK
<1>2. ~own[a] /\ held[a] = {} /\ BasicFree(a)
  BY <1>1 DEF OwnInv, BeforeReserve, ReleaseInv, ReleaseLocal, FreeOK, Reusing
<1>3. ReleaseLocal(a)'
  BY <1>1, <1>2 DEF ReleaseLocal, FreeOK, BasicFree, CreateOK, HeldOK, PolicyOK,
                      UndoOK, FailedOK
<1> QED
  BY <1>1, <1>3, ReleaseQuiet

LEMMA ReleaseEnsure ==
    ASSUME TypeInv, TypeInv', OwnInv, ReleaseInv, NEW a \in Attempts,
           LookUp(a) \/ Decide(a) \/ ListEndpoints(a)
    PROVE  ReleaseInv'
<1>1. /\ UNCHANGED <<nautobot, cand, own, changed>> /\ LocalTo(a)
      /\ pc[a] \in {"lookup", "endpoints"}
  BY DEF LookUp, Decide, ListEndpoints, Visited, GoTo, LocalTo, TypeInv, TypeOK
<1>2. ~own[a] /\ BasicFree(a)
  BY <1>1 DEF OwnInv, BeforeReserve, ReleaseInv, ReleaseLocal, FreeOK, Reusing
<1>3. BasicFree(a)' /\ ~own'[a]
  BY <1>1, <1>2 DEF BasicFree
<1>4. ASSUME pc'[a] \in {"lookup", "endpoints", "policy"}, PolicyOK(a)'
      PROVE  ReleaseLocal(a)'
  <2>1. FreeOK(a)' /\ CreateOK(a)'
    BY <1>3, <1>4 DEF FreeOK, CreateOK
  <2>2. HeldOK(a)'
    BY <1>3, <1>4 DEF HeldOK
  <2>3. UndoOK(a)' /\ FailedOK(a)'
    BY <1>4 DEF UndoOK, FailedOK
  <2> QED
    BY <1>4, <2>1, <2>2, <2>3 DEF ReleaseLocal
<1>5. ASSUME pc'[a] = "create", todo'[a] = Basic, held'[a] = {}
      PROVE  ReleaseLocal(a)'
  <2>1. FreeOK(a)' /\ CreateOK(a)'
    BY <1>3, <1>5 DEF FreeOK, CreateOK
  <2>2. HeldOK(a)'
    BY <1>5 DEF HeldOK, WholeOverlays
  <2>3. UndoOK(a)' /\ FailedOK(a)'
    BY <1>5 DEF UndoOK, FailedOK
  <2> QED
    BY <1>5, <2>1, <2>2, <2>3 DEF ReleaseLocal, PolicyOK
<1>6. ASSUME pc'[a] = "failed"
      PROVE  ReleaseLocal(a)'
  <2>1. FailedOK(a)'
    BY <1>1, <1>3, BranchOfFailed DEF FailedOK, BasicFree, Inventory, Branch
  <2>2. FreeOK(a)' /\ CreateOK(a)'
    BY <1>3, <1>6 DEF FreeOK, CreateOK
  <2>3. HeldOK(a)'
    BY <1>3, <1>6 DEF HeldOK
  <2>4. UndoOK(a)'
    BY <1>6 DEF UndoOK
  <2> QED
    BY <1>6, <2>1, <2>2, <2>3, <2>4 DEF ReleaseLocal, PolicyOK
<1>7. ReleaseLocal(a)'
  <2>1. CASE LookUp(a)
    <3>1. pc'[a] \in {"lookup", "failed"}
      BY <2>1 DEF LookUp, GoTo, TypeInv, TypeOK
    <3> QED
      BY <1>4, <1>6, <3>1 DEF PolicyOK
  <2>2. CASE Decide(a)
    <3>1. \/ pc'[a] \in {"endpoints", "failed"}
          \/ pc'[a] = "create" /\ todo'[a] = Basic /\ held'[a] = {}
      BY <2>2 DEF Decide, GoTo, TypeInv, TypeOK
    <3> QED
      BY <1>4, <1>5, <1>6, <3>1 DEF PolicyOK
  <2>3. CASE ListEndpoints(a)
    <3>1. \/ pc'[a] = "failed"
          \/ pc'[a] = "policy" /\ todo'[a] = Policies
      BY <2>3 DEF ListEndpoints, GoTo, TypeInv, TypeOK
    <3> QED
      BY <1>4, <1>6, <3>1 DEF PolicyOK
  <2> QED
    BY <2>1, <2>2, <2>3
<1> QED
  BY <1>1, <1>7, ReleaseQuiet

\* An object is created in an inventory that has what it refers to.
LEMMA CreateRefersToSomething ==
    ASSUME TypeInv, NoDanglingReference, NEW a \in Attempts, NEW o \in Resources,
           Branch(a) \in Branches, Post(a, o),
           o \in Endpoints => <<AddressOf(o), a>> \in Inventory(a),
           o \in TunnelObjs => (EndpointsOf(o) \cup {VpnOf(o)}) \X {a} \subseteq Inventory(a)
    PROVE  NoDanglingReference'
<1>1. /\ \A b \in Branches \ {Branch(a)} : nautobot'[b] = nautobot[b]
      /\ nautobot'[Branch(a)] = Inventory(a) \cup {<<o, a>>}
  BY DEF Post, Inventory, TypeInv, TypeOK
<1>2. ASSUME NEW b \in Branches, NEW q \in nautobot'[b]
      PROVE  /\ q[1] \in Endpoints => <<AddressOf(q[1]), q[2]>> \in nautobot'[b]
             /\ q[1] \in TunnelObjs =>
                   (EndpointsOf(q[1]) \cup {VpnOf(q[1])}) \X {q[2]} \subseteq nautobot'[b]
  <2>1. nautobot[b] \subseteq nautobot'[b]
    BY <1>1 DEF Inventory
  <2>2. CASE q \in nautobot[b]
    BY <2>1, <2>2 DEF NoDanglingReference
  <2>3. CASE b = Branch(a) /\ q = <<o, a>>
    BY <1>1, <2>3
  <2> QED
    BY <1>1, <1>2, <2>2, <2>3 DEF Inventory
<1> QED
  BY <1>2 DEF NoDanglingReference

LEMMA RecordedOverlay ==
    ASSUME NEW o \in Basic, NEW p \in RecordedWith(o), p \in Basic \ Prefixes
    PROVE  /\ o[1] = "tunnel"
           /\ OverlayOf(p) = OverlayOf(o)
           /\ \A q \in Basic \ Prefixes : OverlayOf(q) = OverlayOf(o) => q \in RecordedWith(o)
<1>1. \A q \in Basic : q[1] = "prefix" <=> q \in Prefixes
  BY DEF Basic, Prefixes, IPs, Vpns, Endpoints, TunnelObjs, Numbered
<1> QED
  BY <1>1 DEF RecordedWith

LEMMA ReleaseCreate ==
    ASSUME TypeInv, TypeInv', OwnInv, ReleaseInv, NEW a \in Attempts, Create(a)
    PROVE  ReleaseInv'
<1>1. /\ UNCHANGED <<cand, own, changed>> /\ LocalTo(a) /\ pc[a] = "create"
  BY DEF Create, Undo, Visited, GoTo, LocalTo, TypeInv, TypeOK
<1>2. Branch(a) \in Branches /\ Branch(a)' = Branch(a) /\ todo[a] \subseteq Basic
  BY <1>1, BranchOfCandidate DEF Underway, Working, Branch, TypeInv, ControlOK
<1>3. PICK o \in NextToCreate(todo[a]) :
          \/ /\ Post(a, o)
             /\ held' = [held EXCEPT ![a] = @ \cup (RecordedWith(o) \X {a})]
             /\ Visited(a, o) /\ UNCHANGED pc
          \/ Undo(a) /\ UNCHANGED held /\ (Post(a, o) \/ UNCHANGED nautobot)
  BY DEF Create
<1>4. o \in Basic /\ o \in Resources
  BY <1>2, <1>3, NextIsMember, ResourceSubsets
<1>5. CreateOK(a) /\ WholeOverlays(a)
  BY <1>1 DEF ReleaseInv, ReleaseLocal, HeldOK
<1>6. ASSUME Post(a, o) PROVE NoDanglingReference'
  <2>1. o \in Endpoints => <<AddressOf(o), a>> \in Inventory(a)
    BY <1>1, <1>3, <1>5, CreatedAfterReferences, ReferencesAreBasic DEF CreateOK, Basic
  <2>2. o \in TunnelObjs => (EndpointsOf(o) \cup {VpnOf(o)}) \X {a} \subseteq Inventory(a)
    BY <1>1, <1>3, <1>5, CreatedAfterReferences, ReferencesAreBasic DEF CreateOK, Basic
  <2> QED
    BY <1>2, <1>4, <1>6, <2>1, <2>2, CreateRefersToSomething DEF ReleaseInv
<1>7. NoDanglingReference'
  <2>1. CASE UNCHANGED nautobot
    BY <2>1 DEF ReleaseInv, NoDanglingReference
  <2> QED
    BY <1>3, <1>6, <2>1
<1>8. \A b \in Branches : \A p \in Resources : \A c \in Attempts \ {a} :
          <<p, c>> \in nautobot'[b] <=> <<p, c>> \in nautobot[b]
  <2>1. CASE UNCHANGED nautobot
    BY <2>1
  <2>2. CASE Post(a, o)
    BY <1>2, <2>2 DEF Post, TypeInv, TypeOK
  <2> QED
    BY <1>3, <2>1, <2>2
<1>9. CASE Post(a, o) /\ Visited(a, o) /\ UNCHANGED pc
           /\ held' = [held EXCEPT ![a] = @ \cup (RecordedWith(o) \X {a})]
  <2>1. /\ Inventory(a)' = Inventory(a) \cup {<<o, a>>}
        /\ todo'[a] = todo[a] \ {o}
        /\ held'[a] = held[a] \cup (RecordedWith(o) \X {a})
    BY <1>2, <1>9 DEF Post, Visited, Inventory, TypeInv, TypeOK
  <2>2. CreateOK(a)'
    BY <1>1, <1>5, <2>1 DEF CreateOK
  <2>3. WholeOverlays(a)'
    <3> SUFFICES ASSUME NEW q \in held'[a], q[1] \in Basic \ Prefixes,
                        NEW p \in Basic \ Prefixes, OverlayOf(p) = OverlayOf(q[1])
                 PROVE  <<p, a>> \in held'[a]
      BY DEF WholeOverlays
    <3>1. CASE q \in held[a]
      BY <1>5, <2>1, <3>1 DEF WholeOverlays
    <3>2. CASE q[1] \in RecordedWith(o)
      <4>1. p \in RecordedWith(o)
        BY <1>4, <3>2, RecordedOverlay
      <4> QED
        BY <2>1, <4>1
    <3> QED
      BY <2>1, <3>1, <3>2
  <2>4. ReleaseLocal(a)'
    BY <1>1, <1>9, <2>2, <2>3 DEF ReleaseLocal, FreeOK, Reusing, HeldOK, PolicyOK, UndoOK,
                                       FailedOK
  <2> QED
    BY <1>1, <1>7, <1>8, <2>4, ReleaseSolo
<1>10. CASE Undo(a) /\ UNCHANGED held
  <2>1. pc'[a] = "undo" /\ todo'[a] = {q[1] : q \in held[a]}
    BY <1>10 DEF Undo, GoTo, RecordedResources, TypeInv, TypeOK
  <2>2. UndoOK(a)'
    BY <1>10, <2>1 DEF UndoOK
  <2>3. WholeOverlays(a)'
    BY <1>5, <1>10 DEF WholeOverlays
  <2>4. ReleaseLocal(a)'
    BY <2>1, <2>2, <2>3 DEF ReleaseLocal, FreeOK, Reusing, CreateOK, HeldOK, PolicyOK,
                               FailedOK
  <2> QED
    BY <1>1, <1>7, <1>8, <2>4, ReleaseSolo
<1> QED
  BY <1>3, <1>9, <1>10

LEMMA ReleaseReserved ==
    ASSUME TypeInv, TypeInv', OwnInv, ReleaseInv, NEW a \in Attempts, Reserved(a)
    PROVE  ReleaseInv'
<1>1. /\ UNCHANGED <<nautobot, held>> /\ LocalTo(a)
      /\ pc[a] = "create" /\ pc'[a] = "policy" /\ own'[a] /\ todo'[a] = Policies
  BY DEF Reserved, GoTo, LocalTo, TypeInv, TypeOK
<1>2. WholeOverlays(a)'
  BY <1>1 DEF ReleaseInv, ReleaseLocal, HeldOK, WholeOverlays
<1>3. ReleaseLocal(a)'
  BY <1>1, <1>2 DEF ReleaseLocal, FreeOK, CreateOK, HeldOK, PolicyOK, UndoOK, FailedOK
<1> QED
  BY <1>1, <1>3, ReleaseQuiet

\* From the enrichment to the firewalls: only policies are added.
Configuring == {"policy", "post", "patch", "artifacts", "paset", "pacommit",
                "fgapply", "validate", "operate", "save"}

LEMMA GoingOn ==
    ASSUME TypeInv, TypeInv', NEW a \in Attempts, ReleaseLocal(a), PolicyOK(a)',
           pc[a] \in Configuring, pc'[a] \in Configuring \cup {"ok", "unsaved"},
           UNCHANGED own,
           \A q \in held'[a] : q \in held[a] \/ q[1] \in Policies,
           held[a] \subseteq held'[a],
           \A b \in Branches : nautobot'[b] \subseteq nautobot[b] \cup (Policies \X {a})
    PROVE  ReleaseLocal(a)'
<1>1. FreeOK(a)'
  <2>1. ASSUME ~own[a] PROVE BasicFree(a)'
    <3>1. BasicFree(a)
      BY <2>1 DEF ReleaseLocal, FreeOK, Reusing, Configuring
    <3> QED
      BY <3>1, PoliciesApart DEF BasicFree
  <2> QED
    BY <2>1 DEF FreeOK
<1>2. HeldOK(a)'
  <2>1. ASSUME own[a] PROVE WholeOverlays(a)'
    <3>1. WholeOverlays(a)
      BY <2>1 DEF ReleaseLocal, HeldOK
    <3> QED
      BY <3>1, PoliciesApart DEF WholeOverlays
  <2> QED
    BY <2>1 DEF HeldOK, Configuring
<1>3. CreateOK(a)' /\ UndoOK(a)' /\ FailedOK(a)'
  BY DEF CreateOK, UndoOK, FailedOK, Configuring
<1> QED
  BY <1>1, <1>2, <1>3 DEF ReleaseLocal

LEMMA ReleaseConfigure ==
    ASSUME TypeInv, TypeInv', OwnInv, ReleaseInv, NEW a \in Attempts,
           \/ FindPolicy(a) \/ CreatePolicy(a) \/ RecordPolicies(a)
           \/ Patch(a) \/ WriteArtifacts(a) \/ PaSet(a) \/ PaCommit(a)
           \/ FgApply(a) \/ Validate(a) \/ Operate(a) \/ SaveDevice(a)
    PROVE  ReleaseInv'
<1>1. /\ UNCHANGED <<cand, own>>
      /\ pc[a] \in Configuring /\ pc[a] \in Reusing
  BY DEF FindPolicy, CreatePolicy, RecordPolicies, Patch, WriteArtifacts, PaSet,
         PaCommit, FgApply, Validate, Operate, SaveDevice, Configuring, Reusing
<1>2. /\ Branch(a) \in Branches /\ ReleaseLocal(a) /\ PolicyOK(a)
  BY <1>1, BranchOfCandidate
     DEF Underway, Working, Configuring, ReleaseInv, ReleaseLocal
<1>3. UNCHANGED nautobot \/ \E o \in Policies : Post(a, o)
  <2>1. CASE CreatePolicy(a)
    <3>1. PICK o \in NextPolicy(todo[a]) : UNCHANGED nautobot \/ Post(a, o)
      BY <2>1 DEF CreatePolicy
    <3>2. o \in Policies
      BY <1>2, <2>1, NextIsMember DEF CreatePolicy, PolicyOK
    <3> QED
      BY <3>1, <3>2
  <2>2. CASE ~CreatePolicy(a)
    BY <2>2 DEF FindPolicy, RecordPolicies, Patch, WriteArtifacts, PaSet, PaCommit,
                FgApply, Validate, Operate, SaveDevice
  <2> QED
    BY <2>1, <2>2
<1>4. /\ \A b \in Branches : nautobot'[b] \subseteq nautobot[b] \cup (Policies \X {a})
      /\ \A b \in Branches : \A p \in Resources : \A c \in Attempts \ {a} :
             <<p, c>> \in nautobot'[b] <=> <<p, c>> \in nautobot[b]
  <2>1. CASE UNCHANGED nautobot
    BY <2>1
  <2>2. ASSUME NEW o \in Policies, Post(a, o)
        PROVE  \A b \in Branches : nautobot'[b] = nautobot[b]
                                    \/ nautobot'[b] = nautobot[b] \cup {<<o, a>>}
    BY <1>2, <2>2 DEF Post, TypeInv, TypeOK
  <2> QED
    BY <1>3, <2>1, <2>2
<1>5. NoDanglingReference'
  <2>1. CASE UNCHANGED nautobot
    BY <2>1 DEF ReleaseInv, NoDanglingReference
  <2>2. ASSUME NEW o \in Policies, Post(a, o)
        PROVE  NoDanglingReference'
    <3>1. o \in Resources /\ o \notin Endpoints /\ o \notin TunnelObjs
      BY ResourceSubsets, PoliciesApart DEF Basic
    <3> QED
      BY <1>2, <2>2, <3>1, CreateRefersToSomething DEF ReleaseInv
  <2> QED
    BY <1>3, <2>1, <2>2
<1>6. /\ \A c \in Attempts \ {a} : changed'[c] = changed[c] /\ held'[c] = held[c]
      /\ \A q \in held'[a] : q \in held[a] \/ q[1] \in Policies
      /\ held[a] \subseteq held'[a]
  <2>1. CASE RecordPolicies(a)
    BY <2>1 DEF RecordPolicies, CreatedPolicies, TypeInv, TypeOK
  <2>2. CASE PaCommit(a)
    BY <2>2 DEF PaCommit, TypeInv, TypeOK
  <2>3. CASE ~RecordPolicies(a) /\ ~PaCommit(a)
    <3>1. UNCHANGED <<held, changed>>
      BY <2>3 DEF FindPolicy, CreatePolicy, Patch, WriteArtifacts, PaSet,
                  FgApply, Validate, Operate, SaveDevice
    <3> QED
      BY <3>1
  <2> QED
    BY <2>1, <2>2, <2>3
<1>7. \/ Fail(a) /\ UNCHANGED <<held, changed>>
      \/ /\ \A c \in Attempts \ {a} : pc'[c] = pc[c] /\ todo'[c] = todo[c]
         /\ pc'[a] \in Configuring \cup {"ok", "unsaved"}
         /\ PolicyOK(a)'
  <2> DEFINE Goes(state) == GoTo(a, state) /\ UNCHANGED todo
  <2>1. CASE FindPolicy(a) \/ CreatePolicy(a)
    BY <1>2, <2>1 DEF FindPolicy, CreatePolicy, Visited, GoTo, PolicyOK, Configuring,
                      TypeInv, TypeOK
  <2>2. CASE ~FindPolicy(a) /\ ~CreatePolicy(a)
    <3>1. \/ Fail(a) /\ UNCHANGED <<held, changed>>
          \/ \E state \in (Configuring \ {"policy", "post"}) \cup {"ok", "unsaved"} :
                 Goes(state)
      BY <2>2 DEF RecordPolicies, Patch, WriteArtifacts, ArtifactsFailed, PaSet,
                  PaCommit, FgApply, Validate, Operate, SaveDevice, Configuring
    <3> QED
      BY <3>1 DEF GoTo, PolicyOK, TypeInv, TypeOK
  <2> QED
    BY <2>1, <2>2
<1>8. CASE Fail(a) /\ UNCHANGED <<held, changed>>
  <2>1. ReleaseLocal(a)'
    BY <1>1, <1>2, <1>4, <1>8, FailureReleases
  <2>2. LocalTo(a)
    BY <1>1, <1>8 DEF LocalTo, Fail, Undo, GoTo, TypeInv, TypeOK
  <2> QED
    BY <1>4, <1>5, <2>1, <2>2, ReleaseSolo
<1>9. CASE /\ \A c \in Attempts \ {a} : pc'[c] = pc[c] /\ todo'[c] = todo[c]
           /\ pc'[a] \in Configuring \cup {"ok", "unsaved"}
           /\ PolicyOK(a)'
  <2>1. ReleaseLocal(a)'
    BY <1>1, <1>2, <1>4, <1>6, <1>9, GoingOn
  <2>2. LocalTo(a)
    BY <1>1, <1>6, <1>9 DEF LocalTo
  <2> QED
    BY <1>4, <1>5, <2>1, <2>2, ReleaseSolo
<1> QED
  BY <1>7, <1>8, <1>9

\* One DELETE: what refers to the object has gone before it.
LEMMA ReleaseDelete ==
    ASSUME CompleteRelease, TypeInv, TypeInv', OwnInv, ReleaseInv,
           NEW a \in Attempts, Release(a)
    PROVE  ReleaseInv'
<1>1. /\ UNCHANGED <<pc, cand, held, own, changed>> /\ LocalTo(a) /\ pc[a] = "undo"
  BY DEF Release, Visited, LocalTo, TypeInv, TypeOK
<1>2. Branch(a) \in Branches /\ Branch(a)' = Branch(a)
  BY <1>1, BranchOfCandidate DEF Underway, Working, Branch
<1>3. PICK o \in NextToRelease(todo[a]) :
          /\ todo'[a] = todo[a] \ {o}
          /\ nautobot' = [nautobot EXCEPT ![Branch(a)] =
                             @ \ {q \in held[a] : q[1] = o}]
  BY DEF Release, Visited, Fault, CompleteRelease, TypeInv, TypeOK
<1>4. o \in Resources
  BY <1>3, NextIsMember DEF TypeInv, TypeOK
<1>5. /\ UndoOK(a) /\ WholeOverlays(a) /\ OwnObjects(a)
  BY <1>1 DEF ReleaseInv, ReleaseLocal, HeldOK, OwnInv
<1>6. \A q \in held[a] : q[1] = o => q = <<o, a>>
  BY <1>5 DEF OwnObjects, TypeInv, TypeOK, Objects
<1>7. /\ \A b \in Branches \ {Branch(a)} : nautobot'[b] = nautobot[b]
      /\ nautobot'[Branch(a)] = Inventory(a) \ (held[a] \cap {<<o, a>>})
      /\ Inventory(a)' = Inventory(a) \ (held[a] \cap {<<o, a>>})
  <2>1. {q \in held[a] : q[1] = o} = held[a] \cap {<<o, a>>}
    BY <1>6
  <2> QED
    BY <1>2, <1>3, <2>1 DEF Inventory, TypeInv, TypeOK
\* What still refers to the released object would have been recorded with it,
\* and released before it.
<1>8. ASSUME NEW p \in Basic \ Prefixes, <<p, a>> \in Inventory(a),
             OverlayOf(p) = OverlayOf(o), o \in Basic \ Prefixes, <<o, a>> \in held[a]
      PROVE  p \in todo[a]
  <2>1. <<p, a>> \in held[a]
    BY <1>5, <1>8 DEF WholeOverlays
  <2> QED
    BY <1>1, <1>5, <1>8, <2>1, ResourceSubsets DEF UndoOK
<1>9. NoDanglingReference'
  <2>1. ASSUME NEW q \in Inventory(a), q[1] \in Endpoints,
               <<AddressOf(q[1]), q[2]>> \notin Inventory(a)'
        PROVE  FALSE
    <3>1. <<AddressOf(q[1]), q[2]>> \in Inventory(a)
      BY <1>2, <2>1 DEF ReleaseInv, NoDanglingReference, Inventory
    <3>2. AddressOf(q[1]) = o /\ q[2] = a /\ <<o, a>> \in held[a]
      BY <1>7, <2>1, <3>1
    <3>3. o \in IPs /\ OverlayOf(q[1]) = OverlayOf(o)
      BY <2>1, <3>2, ReferencesAreBasic, SameOverlay
    <3>4. q[1] \in Basic \ Prefixes /\ o \in Basic \ Prefixes
      BY <2>1, <3>3 DEF Basic, Prefixes, IPs, Endpoints, Numbered
    <3>5. q = <<q[1], a>>
      BY <1>1, <2>1, <3>2, BranchOfCandidate DEF Objects, Underway, Working
    <3>6. q[1] \in todo[a]
      BY <1>8, <2>1, <3>2, <3>3, <3>4, <3>5
    <3> QED
      BY <2>1, <3>3, <3>6, <1>3, ReleasedBeforeReferences
  <2>2. ASSUME NEW q \in Inventory(a), q[1] \in TunnelObjs,
               NEW p \in EndpointsOf(q[1]) \cup {VpnOf(q[1])},
               <<p, q[2]>> \notin Inventory(a)'
        PROVE  FALSE
    <3>1. <<p, q[2]>> \in Inventory(a)
      BY <1>2, <2>2 DEF ReleaseInv, NoDanglingReference, Inventory
    <3>2. p = o /\ q[2] = a /\ <<o, a>> \in held[a]
      BY <1>7, <2>2, <3>1
    <3>3. o \in Endpoints \cup Vpns /\ OverlayOf(q[1]) = OverlayOf(o)
      BY <2>2, <3>2, ReferencesAreBasic, SameOverlay
    <3>4. q[1] \in Basic \ Prefixes /\ o \in Basic \ Prefixes
      BY <2>2, <3>3 DEF Basic, Prefixes, Vpns, Endpoints, TunnelObjs, Numbered
    <3>5. q = <<q[1], a>>
      BY <1>1, <2>2, <3>2, BranchOfCandidate DEF Objects, Underway, Working
    <3>6. q[1] \in todo[a]
      BY <1>8, <2>2, <3>2, <3>3, <3>4, <3>5
    <3> QED
      BY <2>2, <3>3, <3>6, <1>3, ReleasedBeforeReferences
  <2>3. ASSUME NEW b \in Branches, NEW q \in nautobot'[b]
        PROVE  /\ q[1] \in Endpoints => <<AddressOf(q[1]), q[2]>> \in nautobot'[b]
               /\ q[1] \in TunnelObjs =>
                     (EndpointsOf(q[1]) \cup {VpnOf(q[1])}) \X {q[2]} \subseteq nautobot'[b]
    <3>1. CASE b # Branch(a)
      BY <1>7, <3>1 DEF ReleaseInv, NoDanglingReference
    <3>2. CASE b = Branch(a)
      <4>1. q \in Inventory(a) /\ nautobot'[b] = Inventory(a)'
        BY <1>7, <2>3, <3>2
      <4> QED
        BY <2>1, <2>2, <4>1
    <3> QED
      BY <3>1, <3>2
  <2> QED
    BY <2>3 DEF NoDanglingReference
<1>10. UndoOK(a)'
  BY <1>1, <1>3, <1>5, <1>7 DEF UndoOK
<1>11. ReleaseLocal(a)'
  <2>1. WholeOverlays(a)'
    BY <1>1, <1>5 DEF WholeOverlays
  <2> QED
    BY <1>1, <1>10, <2>1
       DEF ReleaseLocal, FreeOK, Reusing, CreateOK, HeldOK, PolicyOK, FailedOK
<1>12. \A b \in Branches : \A p \in Resources : \A c \in Attempts \ {a} :
           <<p, c>> \in nautobot'[b] <=> <<p, c>> \in nautobot[b]
  BY <1>7 DEF Inventory
<1> QED
  BY <1>1, <1>9, <1>11, <1>12, ReleaseSolo

LEMMA ReleaseEnd ==
    ASSUME TypeInv, TypeInv', OwnInv, ReleaseInv, NEW a \in Attempts, Released(a)
    PROVE  ReleaseInv'
<1>1. /\ UNCHANGED <<nautobot, cand, held, own>> /\ LocalTo(a)
      /\ pc[a] = "undo" /\ todo[a] = {} /\ pc'[a] = "failed"
  BY DEF Released, GoTo, LocalTo, TypeInv, TypeOK
<1>2. UndoOK(a) /\ WholeOverlays(a)
  BY <1>1 DEF ReleaseInv, ReleaseLocal, HeldOK
<1>3. FailedOK(a)'
  <2> SUFFICES ASSUME NEW q \in held[a], q[2] = a
               PROVE  q \notin Inventory(a)'
    BY <1>1 DEF FailedOK
  <2>1. q = <<q[1], a>> /\ q[1] \in Resources
    BY DEF TypeInv, TypeOK, Objects
  <2> QED
    BY <1>1, <1>2, <2>1 DEF UndoOK, Inventory, Branch
<1>4. WholeOverlays(a)'
  BY <1>1, <1>2 DEF WholeOverlays
<1>5. ReleaseLocal(a)'
  BY <1>1, <1>3, <1>4
     DEF ReleaseLocal, FreeOK, Reusing, CreateOK, HeldOK, PolicyOK, UndoOK
<1> QED
  BY <1>1, <1>5, ReleaseQuiet

\* A restart forgets the candidates: what it interrupts is not released.
LEMMA ReleaseCrash ==
    ASSUME TypeInv, ReleaseInv, Crash
    PROVE  ReleaseInv'
<1>1. NoDanglingReference'
  BY DEF ReleaseInv, NoDanglingReference, Crash
<1>2. ASSUME NEW a \in Attempts
      PROVE  ReleaseLocal(a)'
  <2>1. /\ pc'[a] \in {"idle", "dead"} \cup Ended
        /\ pc'[a] = "idle" => pc[a] = "idle"
        /\ UNCHANGED <<nautobot, held, own>> /\ cand'[a] = NoCandidate
    BY DEF Crash, TypeInv, TypeOK, States
  <2>2. ReleaseLocal(a)
    BY DEF ReleaseInv
  <2>3. FreeOK(a)'
    BY <2>1, <2>2 DEF ReleaseLocal, FreeOK, Reusing, BasicFree, Ended
  <2>4. HeldOK(a)'
    BY <2>1, <2>2 DEF ReleaseLocal, HeldOK, WholeOverlays, Ended
  <2> QED
    BY <2>1, <2>3, <2>4 DEF ReleaseLocal, CreateOK, PolicyOK, UndoOK, FailedOK, Ended
<1> QED
  BY <1>1, <1>2 DEF ReleaseInv

LEMMA ReleaseStarts == Init => ReleaseInv
<1> SUFFICES ASSUME Init PROVE ReleaseInv
  OBVIOUS
<1>1. ASSUME NEW b \in Branches, NEW q \in nautobot[b]
      PROVE  q[1] \in Prefixes \cup IPs /\ q[2] = Foreign
  <2>1. PICK entered \in SUBSET ForeignObjects : nautobot = EnteredByHand(entered)
    BY DEF Init
  <2>2. PICK f \in entered : q = <<f[2], Foreign>>
    BY <1>1, <2>1 DEF EnteredByHand
  <2>3. f[2] \in Prefixes \cup IPs
    BY <2>2, DeploymentAssumption
  <2> QED
    BY <2>2, <2>3
<1>2. NoDanglingReference
  BY <1>1 DEF NoDanglingReference, Prefixes, IPs, Endpoints, TunnelObjs, Numbered
<1>3. ASSUME NEW a \in Attempts
      PROVE  ReleaseLocal(a)
  <2>1. BasicFree(a)
    BY <1>1, InventoryAssumption DEF BasicFree
  <2>2. pc[a] = "idle" /\ held[a] = {}
    BY DEF Init
  <2> QED
    BY <2>1, <2>2 DEF ReleaseLocal, FreeOK, CreateOK, HeldOK, WholeOverlays, PolicyOK,
                      UndoOK, FailedOK
<1> QED
  BY <1>2, <1>3 DEF ReleaseInv

LEMMA ReleaseStep ==
    ASSUME CompleteRelease, TypeInv, OwnInv, ReleaseInv, [Next]_vars
    PROVE  ReleaseInv'
<1>1. TypeInv'
  BY TypeKept
<1>2. CASE UNCHANGED vars
  BY <1>2 DEF vars, ReleaseInv, NoDanglingReference, ReleaseLocal, FreeOK, BasicFree,
              CreateOK, HeldOK, WholeOverlays, PolicyOK, UndoOK, FailedOK, Inventory,
              Branch
<1> QED
  BY <1>1, <1>2, ReleaseCrash, ReleaseRequest, ReleaseEnsure, ReleaseCreate,
     ReleaseReserved, ReleaseConfigure, ReleaseDelete, ReleaseEnd
     DEF Next, Step

THEOREM ReleaseInvariance ==
    ASSUME CompleteRelease
    PROVE  Spec => []ReleaseInv
  BY ReleaseStarts, ReleaseStep, TypeInvariance, OwnInvariance, PTL DEF Spec

\* However deployments interleave, wherever the server is restarted and
\* whatever else fails: a rollback whose DELETEs do not fail removes every
\* object its deployment created and recorded for a reservation of its own,
\* the policies included.
THEOREM RecordedIsReleasedAlways ==
    ASSUME CompleteRelease
    PROVE  Spec => []RecordedIsReleased
<1>1. ReleaseInv => RecordedIsReleased
  BY DEF ReleaseInv, ReleaseLocal, FailedOK, RecordedIsReleased
<1> QED
  BY <1>1, ReleaseInvariance, PTL

\* Neither does any order of creations and DELETEs leave an endpoint without
\* its address, or a tunnel without its endpoints or its VPN.
THEOREM ReferencesStayWhole ==
    ASSUME CompleteRelease
    PROVE  Spec => []NoDanglingReference
<1>1. ReleaseInv => NoDanglingReference
  BY DEF ReleaseInv
<1> QED
  BY <1>1, ReleaseInvariance, PTL

-----------------------------------------------------------------------------
(* The sites: deployments sent one at a time, whose candidates are not     *)
(* outdated and which the Palo Alto takes whole or not at all, implement    *)
(* BranchLease and give a branch to one FortiGate only.                     *)

OneByOne == Serial /\ ~StaleCandidates /\ CleanPaloAlto

\* The FortiGate a Palo Alto configuration is for, the branch a FortiGate
\* configuration is for.
For(config) == config[1]

-----------------------------------------------------------------------------
(* The invariant: whatever is configured for a branch is for the FortiGate  *)
(* of every candidate of it that is, or can be, deployed.                   *)

\* One candidate at a time is planned or deployed.
OneUnderway ==
    \A a, c \in Attempts : pc[a] \in Underway /\ pc[c] \in Underway => a = c

IdleIsFresh == \A a \in Attempts : pc[a] = "idle" => cand[a] = NoCandidate

\* What the Palo Alto runs it still has in its candidate configuration.
RunningKept ==
    \A b \in Branches : paRunning[b] # Nothing
        => paCandidate[b] # Nothing /\ For(paCandidate[b]) = For(paRunning[b])

\* A FortiGate holds a branch the Palo Alto was configured with for it.
FortiGateKept ==
    \A d \in FortiGates : fgConfig[d] # Nothing
        => /\ paCandidate[For(fgConfig[d])] # Nothing
           /\ For(paCandidate[For(fgConfig[d])]) = d

\* The deployment under way is for the FortiGate its branch is configured for.
SameSite(a) ==
    pc[a] \in Underway /\ paCandidate[Branch(a)] # Nothing
        => For(paCandidate[Branch(a)]) = Device(a)

\* A branch that is configured has no candidate, or one for its FortiGate.
SiteKnown ==
    \A b \in Branches : \A a \in Attempts :
        paCandidate[b] # Nothing /\ cand[a] # NoCandidate /\ Branch(a) = b
            => \E c \in Attempts : cand[c] = <<b, For(paCandidate[b])>>

AfterPaSet == {"pacommit", "fgapply"}
Begun(a) == pc[a] \in AfterPaSet => paCandidate[Branch(a)] # Nothing

SiteInv ==
    /\ OneUnderway
    /\ IdleIsFresh
    /\ RunningKept
    /\ FortiGateKept
    /\ SiteKnown
    /\ \A a \in Attempts : SameSite(a) /\ Begun(a)

-----------------------------------------------------------------------------
(* The steps that leave candidates and firewalls alone.                     *)

Quiet ==
    /\ UNCHANGED <<paCandidate, paRunning, fgConfig, cand>>
    /\ \A c \in Attempts :
           /\ pc'[c] \in Underway => pc[c] \in Underway
           /\ pc'[c] \in AfterPaSet => pc[c] \in AfterPaSet
           /\ pc'[c] = "idle" => pc[c] = "idle"

LEMMA SiteQuiet ==
    ASSUME SiteInv, Quiet
    PROVE  SiteInv'
<1> USE DEF SiteInv, Quiet
<1>1. OneUnderway' /\ IdleIsFresh'
  BY DEF OneUnderway, IdleIsFresh
<1>2. RunningKept' /\ FortiGateKept'
  BY DEF RunningKept, FortiGateKept, For
<1>3. SiteKnown'
  BY DEF SiteKnown, Branch, For
<1>4. ASSUME NEW a \in Attempts PROVE SameSite(a)' /\ Begun(a)'
  BY DEF SameSite, Begun, Branch, Device, For
<1> QED
  BY <1>1, <1>2, <1>3, <1>4

LEMMA QuietMove ==
    ASSUME TypeInv, NEW a \in Attempts, pc[a] \in Underway,
           UNCHANGED <<paCandidate, paRunning, fgConfig, cand>>,
           \/ UNCHANGED pc
           \/ Fail(a)
           \/ Undo(a)
           \/ \E state \in States \ ({"idle"} \cup AfterPaSet) : GoTo(a, state)
    PROVE  Quiet
<1>1. UNCHANGED pc \/ \E state \in States \ ({"idle"} \cup AfterPaSet) : GoTo(a, state)
  BY DEF Fail, Undo, States, Working, Ended, AfterPaSet
<1> QED
  BY <1>1 DEF Quiet, GoTo, TypeInv, TypeOK

LEMMA QuietSteps ==
    ASSUME TypeInv, NEW a \in Attempts,
           \/ Preflight(a) \/ LookUp(a) \/ Decide(a) \/ ListEndpoints(a)
           \/ Create(a) \/ Reserved(a)
           \/ FindPolicy(a) \/ CreatePolicy(a) \/ RecordPolicies(a) \/ Patch(a)
           \/ WriteArtifacts(a) \/ Validate(a) \/ Operate(a) \/ SaveDevice(a)
           \/ Release(a) \/ Released(a)
    PROVE  Quiet
<1>1. pc[a] \in Underway /\ UNCHANGED <<paCandidate, paRunning, fgConfig, cand>>
  BY DEF Preflight, LookUp, Decide, ListEndpoints, Create, Reserved, FindPolicy,
         CreatePolicy, RecordPolicies, Patch, WriteArtifacts, Validate, Operate,
         SaveDevice, Release, Released, firewalls, Underway, Working
<1>2. \/ UNCHANGED pc
      \/ Fail(a)
      \/ Undo(a)
      \/ \E state \in States \ ({"idle"} \cup AfterPaSet) : GoTo(a, state)
  BY DEF Preflight, LookUp, Decide, ListEndpoints, Create, Reserved, FindPolicy,
         CreatePolicy, RecordPolicies, Patch, WriteArtifacts, ArtifactsFailed,
         Validate, Operate, SaveDevice, Release, Released, States, Working, Ended,
         AfterPaSet
<1> QED
  BY <1>1, <1>2, QuietMove

-----------------------------------------------------------------------------
(* The other steps.                                                         *)

LEMMA ConfiguredIsTaken ==
    ASSUME SafeInv, NEW b \in Branches, paCandidate[b] # Nothing
    PROVE  Taken(nautobot[b])
<1>1. Complete(nautobot[b])
  BY DEF SafeInv, KeptInv, Untouched
<1>2. <<"prefix", 1>> \in Prefixes
  <2>1. 1 \in 1..(2 + NumTunnels)
    BY InventoryAssumption
  <2> QED
    BY <2>1 DEF Prefixes, Numbered
<1> QED
  BY <1>1, <1>2, FirstPrefix DEF Complete, Taken

\* A candidate is new: nothing is configured for its branch, or it is for the
\* FortiGate the branch is configured for.
LEMMA SiteOfNewCandidate ==
    ASSUME TypeInv, SiteInv, NEW a \in Attempts, pc[a] = "idle",
           \A e \in Attempts : pc[e] \notin Underway,
           UNCHANGED <<paCandidate, paRunning, fgConfig>>,
           GoTo(a, "planned"),
           NEW new \in Branches \X FortiGates, cand' = [cand EXCEPT ![a] = new],
           paCandidate[new[1]] # Nothing
               => /\ For(paCandidate[new[1]]) = new[2]
                  /\ \E c \in Attempts : cand[c] = new
    PROVE  SiteInv'
<1>1. /\ pc'[a] = "planned" /\ cand'[a] = new /\ cand[a] = NoCandidate
      /\ \A c \in Attempts \ {a} : pc'[c] = pc[c] /\ cand'[c] = cand[c]
  BY DEF GoTo, TypeInv, TypeOK, SiteInv, IdleIsFresh
<1>2. OneUnderway' /\ IdleIsFresh'
  BY <1>1 DEF SiteInv, OneUnderway, IdleIsFresh
<1>3. RunningKept' /\ FortiGateKept'
  BY DEF SiteInv, RunningKept, FortiGateKept, For
<1>4. SiteKnown'
  <2> SUFFICES ASSUME NEW b \in Branches, NEW e \in Attempts,
                      paCandidate[b] # Nothing, cand'[e] # NoCandidate,
                      cand'[e][1] = b
               PROVE  \E c \in Attempts : cand'[c] = <<b, For(paCandidate[b])>>
    BY DEF SiteKnown, Branch, For
  <2>1. CASE e = a
    <3>1. new = <<b, For(paCandidate[b])>>
      BY <1>1, <2>1
    <3> QED
      BY <1>1, <3>1
  <2>2. CASE e # a
    <3>1. cand[e] # NoCandidate /\ Branch(e) = b
      BY <1>1, <2>2 DEF Branch
    <3>2. PICK c \in Attempts : cand[c] = <<b, For(paCandidate[b])>>
      BY <3>1 DEF SiteInv, SiteKnown
    <3>3. c # a
      BY <1>1, <3>2 DEF NoCandidate
    <3> QED
      BY <1>1, <3>2, <3>3
  <2> QED
    BY <2>1, <2>2
<1>5. ASSUME NEW e \in Attempts PROVE SameSite(e)' /\ Begun(e)'
  <2>1. CASE e = a
    BY <1>1, <2>1 DEF SameSite, Begun, Branch, Device, For, AfterPaSet
  <2>2. CASE e # a
    BY <1>1, <2>2 DEF SameSite, Begun, AfterPaSet, Underway, Working
  <2> QED
    BY <2>1, <2>2
<1> QED
  BY <1>2, <1>3, <1>4, <1>5 DEF SiteInv

LEMMA SitePlan ==
    ASSUME ~StaleCandidates, TypeInv, SafeInv, SiteInv, NEW a \in Attempts, Plan(a)
    PROVE  SiteInv'
<1>1. PICK b \in Branches, d \in FortiGates :
          NextId(b) /\ cand' = [cand EXCEPT ![a] = <<b, d>>]
  BY DEF Plan
<1>2. paCandidate[b] = Nothing
  BY <1>1, ConfiguredIsTaken DEF NextId
<1>3. /\ pc[a] = "idle" /\ GoTo(a, "planned")
      /\ UNCHANGED <<paCandidate, paRunning, fgConfig>>
      /\ \A e \in Attempts : pc[e] \notin Underway
  BY DEF Plan, Busy, Underway, firewalls
<1> QED
  BY <1>1, <1>2, <1>3, SiteOfNewCandidate

LEMMA SiteAgain ==
    ASSUME ~StaleCandidates, TypeInv, SiteInv,
           NEW a \in Attempts, NEW c \in Attempts, DeployAgain(a, c)
    PROVE  SiteInv'
<1>1. /\ pc[a] = "idle" /\ GoTo(a, "planned")
      /\ UNCHANGED <<paCandidate, paRunning, fgConfig>>
      /\ \A e \in Attempts : pc[e] \notin Underway
      /\ cand' = [cand EXCEPT ![a] = cand[c]] /\ cand[c] # NoCandidate
      /\ \A e \in Attempts : cand[e] # NoCandidate /\ Branch(e) = Branch(c)
                                 => cand[e] = cand[c]
  BY DEF DeployAgain, Busy, Underway, firewalls
<1>2. cand[c] \in Branches \X FortiGates
  BY <1>1 DEF TypeInv, TypeOK
<1>3. ASSUME paCandidate[cand[c][1]] # Nothing
      PROVE  For(paCandidate[cand[c][1]]) = cand[c][2]
  <2>1. PICK e \in Attempts : cand[e] = <<Branch(c), For(paCandidate[Branch(c)])>>
    BY <1>1, <1>2, <1>3 DEF SiteInv, SiteKnown, Branch
  <2>2. cand[e] # NoCandidate /\ Branch(e) = Branch(c)
    BY <2>1 DEF NoCandidate, Branch
  <2>3. cand[c] = <<Branch(c), For(paCandidate[Branch(c)])>>
    BY <1>1, <2>1, <2>2
  <2>4. cand[c][2] = For(paCandidate[Branch(c)])
    BY <2>3
  <2> QED
    BY <2>4 DEF Branch
<1> QED
  BY <1>1, <1>2, <1>3, SiteOfNewCandidate

LEMMA SitePaSet ==
    ASSUME CleanPaloAlto, TypeInv, SiteInv, NEW a \in Attempts, PaSet(a)
    PROVE  SiteInv'
<1>1. pc[a] = "paset" /\ UNCHANGED <<paRunning, fgConfig, cand>>
  BY DEF PaSet
<1>2. Branch(a) \in Branches /\ Device(a) \in FortiGates
  BY <1>1, BranchOfCandidate DEF Underway, Working
<1>3. CASE Fail(a) /\ UNCHANGED paCandidate
  BY <1>1, <1>3, QuietMove, SiteQuiet DEF Underway, Working
<1>4. CASE /\ paCandidate' = [paCandidate EXCEPT ![Branch(a)] = <<Device(a), TRUE>>]
           /\ GoTo(a, "pacommit")
  <2>1. /\ paCandidate'[Branch(a)] = <<Device(a), TRUE>>
        /\ \A b \in Branches \ {Branch(a)} : paCandidate'[b] = paCandidate[b]
        /\ pc'[a] = "pacommit"
        /\ \A c \in Attempts \ {a} : pc'[c] = pc[c] /\ pc[c] \notin Underway
    BY <1>1, <1>2, <1>4
       DEF GoTo, TypeInv, TypeOK, SiteInv, OneUnderway, Underway, Working
  <2>2. For(paCandidate'[Branch(a)]) = Device(a) /\ paCandidate'[Branch(a)] # Nothing
    BY <2>1 DEF For, Nothing
  \* A branch that was configured already was so for the same FortiGate.
  <2>3. \A b \in Branches : paCandidate[b] # Nothing
            => paCandidate'[b] # Nothing /\ For(paCandidate'[b]) = For(paCandidate[b])
    BY <1>1, <2>1, <2>2 DEF SiteInv, SameSite, Underway, Working
  <2>4. OneUnderway' /\ IdleIsFresh'
    <3>1. OneUnderway'
      BY <2>1 DEF OneUnderway
    <3>2. IdleIsFresh'
      BY <1>1, <2>1 DEF SiteInv, IdleIsFresh
    <3> QED
      BY <3>1, <3>2
  <2>5. RunningKept'
    BY <1>1, <2>3 DEF SiteInv, RunningKept, For
  <2>6. FortiGateKept'
    <3> SUFFICES ASSUME NEW d \in FortiGates, fgConfig[d] # Nothing
                 PROVE  /\ paCandidate'[For(fgConfig[d])] # Nothing
                        /\ For(paCandidate'[For(fgConfig[d])]) = d
      BY <1>1 DEF FortiGateKept, For
    <3>1. For(fgConfig[d]) \in Branches
      BY DEF TypeInv, TypeOK, FgConfigs, For
    <3> QED
      BY <2>3, <3>1 DEF SiteInv, FortiGateKept
  <2>7. SiteKnown'
    <3> SUFFICES ASSUME NEW b \in Branches, NEW e \in Attempts,
                        paCandidate'[b] # Nothing, cand[e] # NoCandidate, Branch(e) = b
                 PROVE  \E c \in Attempts : cand[c] = <<b, For(paCandidate'[b])>>
      BY <1>1 DEF SiteKnown, Branch, For
    <3>1. CASE b = Branch(a)
      <4>1. cand[a] = <<b, Device(a)>>
        BY <1>1, <3>1 DEF Branch, Device, TypeInv, Underway, Working
      <4> QED
        BY <2>2, <3>1, <4>1
    <3>2. CASE b # Branch(a)
      BY <2>1, <3>2 DEF SiteInv, SiteKnown
    <3> QED
      BY <3>1, <3>2
  <2>8. ASSUME NEW c \in Attempts PROVE SameSite(c)' /\ Begun(c)'
    <3>1. CASE c = a
      BY <1>1, <2>2, <3>1 DEF SameSite, Begun, Branch, Device, For
    <3>2. CASE c # a
      BY <2>1, <3>2 DEF SameSite, Begun, AfterPaSet, Underway, Working
    <3> QED
      BY <3>1, <3>2
  <2> QED
    BY <2>4, <2>5, <2>6, <2>7, <2>8 DEF SiteInv
<1> QED
  BY <1>3, <1>4 DEF PaSet, CleanPaloAlto, Fault

LEMMA SitePaCommit ==
    ASSUME CleanPaloAlto, TypeInv, SiteInv, NEW a \in Attempts, PaCommit(a)
    PROVE  SiteInv'
<1>1. /\ pc[a] = "pacommit" /\ UNCHANGED <<paCandidate, fgConfig, cand>>
      /\ paRunning' \in {paRunning, paCandidate} /\ GoTo(a, "fgapply")
  BY DEF PaCommit, CleanPaloAlto, Fault
<1>2. pc'[a] = "fgapply" /\ \A c \in Attempts \ {a} : pc'[c] = pc[c]
  BY <1>1 DEF GoTo, TypeInv, TypeOK
<1>3. OneUnderway' /\ IdleIsFresh'
  BY <1>1, <1>2 DEF SiteInv, OneUnderway, IdleIsFresh, Underway, Working
<1>4. RunningKept' /\ FortiGateKept'
  BY <1>1 DEF SiteInv, RunningKept, FortiGateKept, For
<1>5. SiteKnown'
  BY <1>1 DEF SiteInv, SiteKnown, Branch, For
<1>6. ASSUME NEW c \in Attempts PROVE SameSite(c)' /\ Begun(c)'
  BY <1>1, <1>2
     DEF SiteInv, SameSite, Begun, Branch, Device, For, AfterPaSet, Underway, Working
<1> QED
  BY <1>3, <1>4, <1>5, <1>6 DEF SiteInv

LEMMA SiteFgApply ==
    ASSUME TypeInv, SiteInv, NEW a \in Attempts, FgApply(a)
    PROVE  SiteInv'
<1>1. pc[a] = "fgapply" /\ UNCHANGED <<paCandidate, paRunning, cand>>
  BY DEF FgApply
<1>2. Branch(a) \in Branches /\ Device(a) \in FortiGates
  BY <1>1, BranchOfCandidate DEF Underway, Working
<1>3. CASE Fail(a) /\ UNCHANGED fgConfig
  BY <1>1, <1>3, QuietMove, SiteQuiet DEF Underway, Working
<1>4. ASSUME NEW new, For(new) = Branch(a),
             fgConfig' = [fgConfig EXCEPT ![Device(a)] = new],
             GoTo(a, "validate") \/ Fail(a)
      PROVE  SiteInv'
  <2>1. /\ pc'[a] \in {"validate", "undo", "failed"}
        /\ \A c \in Attempts \ {a} : pc'[c] = pc[c]
        /\ fgConfig'[Device(a)] = new
        /\ \A d \in FortiGates \ {Device(a)} : fgConfig'[d] = fgConfig[d]
    BY <1>2, <1>4 DEF GoTo, Fail, Undo, TypeInv, TypeOK
  <2>2. OneUnderway' /\ IdleIsFresh'
    BY <1>1, <2>1 DEF SiteInv, OneUnderway, IdleIsFresh, Underway, Working
  <2>3. RunningKept' /\ SiteKnown'
    BY <1>1 DEF SiteInv, RunningKept, SiteKnown, Branch, For
  <2>4. paCandidate[Branch(a)] # Nothing /\ For(paCandidate[Branch(a)]) = Device(a)
    BY <1>1 DEF SiteInv, SameSite, Begun, AfterPaSet, Underway, Working
  <2>5. FortiGateKept'
    <3> SUFFICES ASSUME NEW d \in FortiGates, fgConfig'[d] # Nothing
                 PROVE  /\ paCandidate[For(fgConfig'[d])] # Nothing
                        /\ For(paCandidate[For(fgConfig'[d])]) = d
      BY <1>1 DEF FortiGateKept, For
    <3> QED
      BY <1>4, <2>1, <2>4 DEF SiteInv, FortiGateKept
  <2>6. ASSUME NEW c \in Attempts PROVE SameSite(c)' /\ Begun(c)'
    BY <1>1, <2>1
       DEF SiteInv, SameSite, Begun, Branch, Device, For, AfterPaSet, Underway, Working
  <2> QED
    BY <2>2, <2>3, <2>5, <2>6 DEF SiteInv
<1>5. FgTakenInPart(fgConfig[Device(a)], Branch(a)) \subseteq {Branch(a)} \X (0..Entire)
  BY <1>2, PartIsConfig DEF TypeInv, TypeOK
<1>6. /\ For(<<Branch(a), Entire>>) = Branch(a)
      /\ \A new \in {Branch(a)} \X (0..Entire) : For(new) = Branch(a)
  BY DEF For
<1>7. CASE Fail(a) /\ TakeInPart(a)
  BY <1>1, <1>4, <1>5, <1>6, <1>7 DEF TakeInPart
<1> QED
  BY <1>1, <1>3, <1>4, <1>5, <1>6, <1>7 DEF FgApply, TakeInPart

LEMMA SiteCrash ==
    ASSUME TypeInv, SiteInv, Crash
    PROVE  SiteInv'
<1>1. /\ UNCHANGED <<paCandidate, paRunning, fgConfig>>
      /\ \A a \in Attempts : cand'[a] = NoCandidate /\ pc'[a] \notin Underway
  BY DEF Crash, firewalls, TypeInv, TypeOK, States, Ended, Underway, Working
<1>2. OneUnderway' /\ IdleIsFresh' /\ SiteKnown'
  BY <1>1 DEF OneUnderway, IdleIsFresh, SiteKnown
<1>3. RunningKept' /\ FortiGateKept'
  BY <1>1 DEF SiteInv, RunningKept, FortiGateKept, For
<1>4. ASSUME NEW a \in Attempts PROVE SameSite(a)' /\ Begun(a)'
  BY <1>1 DEF SameSite, Begun, AfterPaSet, Underway, Working
<1> QED
  BY <1>2, <1>3, <1>4 DEF SiteInv

LEMMA SiteStep ==
    ASSUME OneByOne, TypeInv, SafeInv, SiteInv, [Next]_vars
    PROVE  SiteInv'
<1>1. CASE UNCHANGED vars
  <2>1. Quiet
    BY <1>1 DEF vars, firewalls, Quiet
  <2> QED
    BY <2>1, SiteQuiet
<1> QED
  BY <1>1, SiteCrash, SitePlan, SiteAgain, SitePaSet, SitePaCommit, SiteFgApply,
     QuietSteps, SiteQuiet
     DEF Next, Request, Step, OneByOne

THEOREM SiteInvariance ==
    ASSUME OneByOne
    PROVE  Spec => []SiteInv
<1>1. Init => SiteInv
  BY DEF Init, SiteInv, OneUnderway, IdleIsFresh, RunningKept, FortiGateKept, SiteKnown,
         SameSite, Begun, AfterPaSet, Underway, Working
<1> QED
  BY <1>1, SiteStep, SafeInvariance, TypeInvariance, PTL DEF Spec, OneByOne

\* Two FortiGates never hold the addressing of one branch, whatever fails on
\* the way and wherever the server is restarted.
THEOREM OneSiteAlways ==
    ASSUME OneByOne
    PROVE  Spec => []OneSitePerBranch
<1>1. SiteInv => OneSitePerBranch
  BY DEF SiteInv, FortiGateKept, OneSitePerBranch, For
<1> QED
  BY <1>1, SiteInvariance, PTL

-----------------------------------------------------------------------------
(* The lease.                                                               *)

Leased == {b \in Branches : Complete(nautobot[b])}
Site == [b \in Branches |-> IF paRunning[b] = Nothing THEN Nothing ELSE paRunning[b][1]]

\* Nautobot changes for one branch at a time, by the deployment of it.
LEMMA NautobotStep ==
    ASSUME TypeInv, [Next]_vars, nautobot' # nautobot
    PROVE  \E a \in Attempts :
               /\ pc[a] \in Working /\ Branch(a) \in Branches
               /\ \A b \in Branches \ {Branch(a)} : nautobot'[b] = nautobot[b]
               /\ nautobot[Branch(a)] \subseteq nautobot'[Branch(a)] \/ pc[a] = "undo"
               /\ UNCHANGED paRunning
<1>1. PICK a \in Attempts : Create(a) \/ CreatePolicy(a) \/ Release(a)
  BY DEF vars, Next, Crash, Request, Plan, DeployAgain, Step, Preflight,
     LookUp, Decide, ListEndpoints, Reserved, FindPolicy, RecordPolicies, Patch,
     WriteArtifacts, PaSet, PaCommit, FgApply, Validate, Operate, SaveDevice,
     Released
<1>2. pc[a] \in Working /\ Branch(a) \in Branches /\ UNCHANGED paRunning
  <2>1. pc[a] \in Working /\ UNCHANGED paRunning
    BY <1>1 DEF Create, CreatePolicy, Release, Working, firewalls
  <2> QED
    BY <2>1, BranchOfCandidate DEF Underway
<1>3. CASE Create(a) \/ CreatePolicy(a)
  <2>1. PICK o : Post(a, o)
    BY <1>3 DEF Create, CreatePolicy
  <2> QED
    BY <1>2, <2>1 DEF Post, TypeInv, TypeOK
<1>4. CASE Release(a)
  <2>1. PICK gone : nautobot' = [nautobot EXCEPT ![Branch(a)] = @ \ gone]
    BY <1>4 DEF Release
  <2>2. pc[a] = "undo"
    BY <1>4 DEF Release
  <2> QED
    BY <1>2, <2>1, <2>2 DEF TypeInv, TypeOK
<1> QED
  BY <1>1, <1>3, <1>4

LEMMA PaloAltoStep ==
    ASSUME [Next]_vars, paRunning' # paRunning
    PROVE  paRunning' = paCandidate /\ UNCHANGED nautobot
  BY DEF vars, Next, Crash, Request, Plan, DeployAgain, Step, Preflight, LookUp,
     Decide, ListEndpoints, Create, Reserved, FindPolicy, CreatePolicy,
     RecordPolicies, Patch, WriteArtifacts, PaSet, PaCommit, FgApply, Validate,
     Operate, SaveDevice, Release, Released, firewalls

LEMMA LeaseStarts ==
    ASSUME Init
    PROVE  Leased = {} /\ Site = [b \in Branches |-> Nothing]
<1>1. ASSUME NEW b \in Branches, Complete(nautobot[b])
      PROVE  FALSE
  <2>1. PICK i \in Attempts : <<<<"prefix", 1>>, i>> \in nautobot[b]
    BY <1>1, FirstPrefix DEF Complete
  <2>2. PICK entered \in SUBSET ForeignObjects : nautobot = EnteredByHand(entered)
    BY DEF Init
  <2>3. i = Foreign
    BY <2>1, <2>2 DEF EnteredByHand
  <2> QED
    BY <2>3, InventoryAssumption
<1> QED
  BY <1>1 DEF Init, Leased, Site

\* Every step of the deployments acquires a branch, gives one up, brings
\* branches into service, or changes nothing the lease sees.
LEMMA LeaseStep ==
    ASSUME TypeInv, TypeInv', SafeInv, SiteInv, [Next]_vars
    PROVE  \/ \E b \in Branches :
                  /\ b \notin Leased /\ Site[b] = Nothing
                  /\ Leased' = Leased \cup {b} /\ Site' = Site
           \/ \E b \in Branches :
                  /\ b \in Leased /\ Site[b] = Nothing
                  /\ Leased' = Leased \ {b} /\ Site' = Site
           \/ /\ Site' \in [Branches -> FortiGates \cup {Nothing}]
              /\ \A b \in Branches :
                     Site'[b] # Site[b] => b \in Leased /\ Site[b] = Nothing
              /\ Leased' = Leased
           \/ Leased' = Leased /\ Site' = Site
<1>1. CASE UNCHANGED <<nautobot, paRunning>>
  BY <1>1 DEF Leased, Site
<1>2. CASE nautobot' # nautobot
  <2>1. PICK a \in Attempts :
            /\ pc[a] \in Working /\ Branch(a) \in Branches
            /\ \A b \in Branches \ {Branch(a)} : nautobot'[b] = nautobot[b]
            /\ nautobot[Branch(a)] \subseteq nautobot'[Branch(a)] \/ pc[a] = "undo"
            /\ UNCHANGED paRunning
    BY <1>2, NautobotStep
  <2>2. Site' = Site
    BY <2>1 DEF Site
  <2>3. CASE Branch(a) \in Leased' /\ Branch(a) \notin Leased
    <3>1. Site[Branch(a)] = Nothing
      BY <2>1, <2>3 DEF Leased, Site, SafeInv, KeptInv, Untouched
    <3>2. Leased' = Leased \cup {Branch(a)}
      BY <2>1, <2>3 DEF Leased
    <3> QED
      BY <2>1, <2>2, <2>3, <3>1, <3>2
  <2>4. CASE Branch(a) \notin Leased' /\ Branch(a) \in Leased
    <3>1. pc[a] = "undo"
      BY <2>1, <2>4, MoreIsComplete DEF Leased
    <3>2. Site[Branch(a)] = Nothing
      BY <2>1, <3>1 DEF Site, SafeInv, Local, FreshOK, Untouched
    <3>3. Leased' = Leased \ {Branch(a)}
      BY <2>1, <2>4 DEF Leased
    <3> QED
      BY <2>1, <2>2, <2>4, <3>2, <3>3
  <2>5. CASE Branch(a) \in Leased' <=> Branch(a) \in Leased
    <3>1. Leased' = Leased
      BY <2>1, <2>5 DEF Leased
    <3> QED
      BY <2>2, <3>1
  <2> QED
    BY <2>3, <2>4, <2>5
<1>3. CASE paRunning' # paRunning
  <2>1. paRunning' = paCandidate /\ UNCHANGED nautobot
    BY <1>3, PaloAltoStep
  <2>2. Leased' = Leased
    BY <2>1 DEF Leased
  <2>3. Site' \in [Branches -> FortiGates \cup {Nothing}]
    BY <2>1 DEF TypeInv, TypeOK, PaConfigs, Site
  <2>4. ASSUME NEW b \in Branches, Site'[b] # Site[b]
        PROVE  b \in Leased /\ Site[b] = Nothing
    <3>1. Site'[b] = IF paCandidate[b] = Nothing THEN Nothing ELSE paCandidate[b][1]
      BY <2>1 DEF Site
    <3>2. Site[b] = IF paRunning[b] = Nothing THEN Nothing ELSE paRunning[b][1]
      BY DEF Site
    <3>3. paRunning[b] = Nothing
      BY <2>4, <3>1, <3>2 DEF SiteInv, RunningKept, For
    <3>4. paCandidate[b] # Nothing
      BY <2>4, <3>1, <3>2, <3>3
    <3> QED
      BY <3>2, <3>3, <3>4 DEF Leased, SafeInv, KeptInv, Untouched
  <2> QED
    BY <2>2, <2>3, <2>4
<1> QED
  BY <1>1, <1>2, <1>3

\* Provisioning implements the lease: a branch in service keeps its
\* reservation and its site.
THEOREM LeaseImplemented ==
    ASSUME OneByOne
    PROVE  Spec => ImplementsLease
<1>1. Init => Lease!LeaseInit
  BY LeaseStarts DEF Lease!LeaseInit, Leased, Site
<1>2. ASSUME TypeInv, TypeInv', SafeInv, SiteInv, [Next]_vars
      PROVE  [Lease!LeaseNext]_(Lease!lease)
  BY <1>2, LeaseStep
     DEF Lease!LeaseNext, Lease!Acquire, Lease!GiveUp, Lease!Serve, Lease!lease,
         Leased, Site
<1> QED
  BY <1>1, <1>2, SiteInvariance, SafeInvariance, TypeInvariance, PTL
     DEF Spec, ImplementsLease, Lease!LeaseSpec, OneByOne

-----------------------------------------------------------------------------
(* What a success was checked for still holds when it is reported.          *)

Listed == {"paset", "pacommit", "fgapply", "validate", "operate", "save"}

Served(a) ==
    /\ pc[a] \in Listed => Branch(a) \in artifacts
    /\ pc[a] = "save" => Converges(a)

ServedInv == \A a \in Attempts : Served(a)

LEMMA ServedStep ==
    ASSUME TypeInv, SafeInv, ServedInv, [Next]_vars
    PROVE  ServedInv'
<1>1. CASE UNCHANGED vars
  BY <1>1 DEF vars, firewalls, ServedInv, Served, Branch, Device, Converges,
              FgHolds, PaConfigured
<1>2. CASE Crash
  BY <1>2 DEF Crash, TypeInv, TypeOK, ServedInv, Served, Listed, Working
<1>3. ASSUME NEW a \in Attempts, Request(a)
      PROVE  ServedInv'
  <2>1. /\ UNCHANGED <<artifacts, paRunning, fgConfig>>
        /\ pc'[a] \in {"planned", "lookup", "failed"}
        /\ \A c \in Attempts \ {a} : pc'[c] = pc[c] /\ cand'[c] = cand[c]
    BY <1>3 DEF Request, Plan, DeployAgain, Preflight, GoTo, firewalls, TypeInv, TypeOK
  <2> QED
    BY <2>1 DEF ServedInv, Served, Listed, Branch, Device, Converges, FgHolds, PaConfigured
<1>4. ASSUME NEW a \in Attempts, Step(a)
      PROVE  ServedInv'
  <2>1. pc[a] \in Working /\ UNCHANGED cand /\ artifacts \subseteq artifacts'
    BY <1>4 DEF Step, LookUp, Decide, ListEndpoints, Create, Reserved, FindPolicy,
       CreatePolicy, RecordPolicies, Patch, WriteArtifacts, PaSet, PaCommit, FgApply,
       Validate, Operate, SaveDevice, Release, Released, Working
  <2>2. \A c \in Attempts \ {a} : pc[c] \notin Working
    BY <2>1, Alone
  <2>3. \/ UNCHANGED pc
        \/ Fail(a)
        \/ \E state \in States : GoTo(a, state)
    BY <1>4 DEF Step, LookUp, Decide, ListEndpoints, Create, Reserved, FindPolicy,
       CreatePolicy, RecordPolicies, Patch, WriteArtifacts, ArtifactsFailed, PaSet,
       PaCommit, FgApply, Validate, Operate, SaveDevice, Release, Released, Undo,
       States, Working, Ended
  <2>4. \A c \in Attempts \ {a} : pc'[c] \notin Working
    BY <2>2, <2>3 DEF Fail, Undo, GoTo, TypeInv, TypeOK
  <2>5. pc'[a] = "save" => /\ pc[a] = "operate" /\ Converges(a)
                           /\ UNCHANGED <<paRunning, fgConfig>>
    BY <1>4 DEF Step, LookUp, Decide, ListEndpoints, Create, Reserved, FindPolicy,
       CreatePolicy, RecordPolicies, Patch, WriteArtifacts, ArtifactsFailed, PaSet,
       PaCommit, FgApply, Validate, Operate, SaveDevice, Release, Released, Fail, Undo,
       GoTo, firewalls, TypeInv, TypeOK
  <2>6. pc'[a] \in Listed => pc[a] \in Listed \/ Branch(a) \in artifacts'
    BY <1>4 DEF Step, LookUp, Decide, ListEndpoints, Create, Reserved, FindPolicy,
       CreatePolicy, RecordPolicies, Patch, WriteArtifacts, ArtifactsFailed, PaSet,
       PaCommit, FgApply, Validate, Operate, SaveDevice, Release, Released, Fail, Undo,
       GoTo, Listed, TypeInv, TypeOK
  <2>7. Served(a)'
    BY <2>1, <2>5, <2>6
       DEF ServedInv, Served, Branch, Device, Converges, FgHolds, PaConfigured
  <2>8. ASSUME NEW c \in Attempts \ {a} PROVE Served(c)'
    BY <2>4 DEF Served, Listed, Working
  <2> QED
    BY <2>7, <2>8 DEF ServedInv
<1> QED
  BY <1>1, <1>2, <1>3, <1>4 DEF Next

\* A success is reported only for a branch that is reserved, listed, run by the
\* Palo Alto, and held by its FortiGate with all the two validations look for.
THEOREM SuccessMeansServedAlways ==
    ASSUME Serial, CleanPaloAlto
    PROVE  Spec => SuccessMeansServed
<1>1. Init => ServedInv
  BY DEF Init, ServedInv, Served, Listed
<1>2. ASSUME TypeInv, SafeInv, ServedInv
      PROVE  \A a \in Attempts :
                 pc[a] = "save" /\ pc'[a] = "ok"
                     => /\ Complete(Inventory(a))
                        /\ Branch(a) \in artifacts
                        /\ paRunning[Branch(a)] = <<Device(a), TRUE>>
                        /\ fgConfig[Device(a)]
                               \in {Branch(a)} \X (Operational..Entire)
  BY <1>2 DEF SafeInv, Local, HoldOK, AfterCommit, ServedInv, Served, Listed,
              Converges, FgHolds, PaConfigured
<1> QED
  BY <1>1, <1>2, ServedStep, SafeInvariance, TypeInvariance, PTL DEF Spec, SuccessMeansServed
=============================================================================
