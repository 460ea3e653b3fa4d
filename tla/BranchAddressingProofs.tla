------------------------ MODULE BranchAddressingProofs ------------------------
(***************************************************************************)
(* The addressing properties hold for every range of branch ids.           *)
(***************************************************************************)
EXTENDS BranchAddressing, TLAPS

\* A VPN is identified by its subnet index: from branch 2 upwards, two VPNs
\* with the same index are the same VPN.
LEMMA SubnetIndexInjective ==
    ASSUME NEW b \in OnboardIds, NEW c \in OnboardIds,
           NEW t \in TunnelIndexes, NEW u \in TunnelIndexes,
           SubnetIndex(b, t) = SubnetIndex(c, u)
    PROVE  b = c /\ t = u
  BY MaxBranchAssumption
     DEF OnboardIds, TunnelIndexes, SubnetIndex, AllocationId, TunnelsPerBranch

\* Two /30 blocks that share an address are the same block.
LEMMA OverlappingBlocksCoincide ==
    ASSUME NEW i \in Int, NEW j \in Int, NEW x \in Int,
           x \in (i * 4) .. (i * 4 + 3), x \in (j * 4) .. (j * 4 + 3)
    PROVE  i = j
  OBVIOUS

\* What a search has passed over is in use: the loop's invariant.
PassedIdsAreUsed == 2..(branch - 1) \subseteq ids

\* The inventory holds no branch without a plan, and a search ends, whatever is
\* given back while it runs, at most one id beyond the last that has one.
THEOREM SearchInvariant == Spec => [](TypeOK /\ PassedIdsAreUsed)
<1>1. Init => TypeOK /\ PassedIdsAreUsed
  BY MaxBranchAssumption DEF Init, TypeOK, PassedIdsAreUsed
<1>2. TypeOK /\ PassedIdsAreUsed /\ [Next]_vars => (TypeOK /\ PassedIdsAreUsed)'
  <2> SUFFICES ASSUME TypeOK, PassedIdsAreUsed, [Next]_vars
               PROVE  TypeOK' /\ PassedIdsAreUsed'
    OBVIOUS
  <2> USE MaxBranchAssumption DEF TypeOK, PassedIdsAreUsed, OnboardIds
  <2>1. CASE SkipUsedId
    BY <2>1 DEF SkipUsedId
  <2>2. CASE PlanNextBranch
    <3>1. HasPlan(branch) => branch \in 2..MaxBranch
      BY DEF HasPlan, BranchIds
    <3> QED
      BY <2>2, <3>1 DEF PlanNextBranch
  <2>3. CASE ReleaseBranch
    BY <2>3 DEF ReleaseBranch
  <2>4. CASE UNCHANGED vars
    BY <2>4 DEF vars
  <2> QED
    BY <2>1, <2>2, <2>3, <2>4 DEF Next
<1> QED
  BY <1>1, <1>2, PTL DEF Spec

\* An onboarding is refused for want of an id only when the inventory it read
\* was full: the search stops at the first id not in use, so that an id without
\* a plan, which is beyond all the others, means that they were passed over.
THEOREM RefusalsAreJustified == Spec => []RefusedOnlyWhenFull
<1>1. TypeOK /\ PassedIdsAreUsed => RefusedOnlyWhenFull
  <2> SUFFICES ASSUME TypeOK, PassedIdsAreUsed, ~HasPlan(branch)
               PROVE  ids = OnboardIds
    BY DEF RefusedOnlyWhenFull
  <2>1. branch = MaxBranch + 1
    BY MaxBranchAssumption DEF TypeOK, HasPlan, BranchIds
  <2>2. branch - 1 = MaxBranch
    BY <2>1, MaxBranchAssumption
  <2> QED
    BY <2>2 DEF TypeOK, PassedIdsAreUsed, OnboardIds
<1> QED
  BY <1>1, SearchInvariant, PTL

\* The branch of a plan that is built is one the onboarding may create.
LEMMA PlannedIsOnboarded ==
    ASSUME TypeOK, Planned
    PROVE  branch \in OnboardIds
  BY MaxBranchAssumption DEF TypeOK, Planned, HasPlan, BranchIds, OnboardIds

\* No two VPNs of onboarded branches share an overlay address.
THEOREM VpnBlocksAreDisjoint == Spec => []VpnBlocksDisjoint
<1>1. TypeOK => VpnBlocksDisjoint
  <2> SUFFICES ASSUME TypeOK, Planned,
                      NEW b \in OnboardIds,
                      NEW t \in TunnelIndexes, NEW u \in TunnelIndexes,
                      <<branch, t>> # <<b, u>>
               PROVE  VpnBlock(branch, t) \cap VpnBlock(b, u) = {}
    BY DEF VpnBlocksDisjoint
  <2>1. branch \in OnboardIds
    BY PlannedIsOnboarded
  <2>2. SubnetIndex(branch, t) \in Int /\ SubnetIndex(b, u) \in Int
    BY <2>1, MaxBranchAssumption
       DEF OnboardIds, TunnelIndexes, SubnetIndex, AllocationId, TunnelsPerBranch
  <2>3. SubnetIndex(branch, t) # SubnetIndex(b, u)
    BY <2>1, SubnetIndexInjective
  <2>4. ASSUME NEW x \in VpnBlock(branch, t), x \in VpnBlock(b, u)
        PROVE  FALSE
    <3>1. /\ x \in (SubnetIndex(branch, t) * 4) .. (SubnetIndex(branch, t) * 4 + 3)
          /\ x \in (SubnetIndex(b, u) * 4) .. (SubnetIndex(b, u) * 4 + 3)
          /\ x \in Int
      BY <2>2, <2>4 DEF VpnBlock, VpnNetwork, VpnSubnetSize
    <3> QED
      BY <2>2, <2>3, <3>1, OverlappingBlocksCoincide
  <2> QED
    BY <2>4
<1> QED
  BY <1>1, SearchInvariant, PTL

\* The pool is never exhausted: the error _vpn_prefix raises for it cannot occur.
THEOREM VpnBlocksStayInPool == Spec => []VpnBlocksInPool
<1>1. TypeOK => VpnBlocksInPool
  <2> SUFFICES ASSUME TypeOK, Planned, NEW t \in TunnelIndexes
               PROVE  /\ VpnBlock(branch, t) \subseteq 0..(VpnPoolSize - 1)
                      /\ VpnNetwork(branch, t) % VpnSubnetSize = 0
    BY DEF VpnBlocksInPool
  <2>1. SubnetIndex(branch, t) \in 0..505
    BY PlannedIsOnboarded, MaxBranchAssumption
       DEF OnboardIds, TunnelIndexes, SubnetIndex, AllocationId, TunnelsPerBranch
  <2>2. ASSUME NEW x \in VpnBlock(branch, t)
        PROVE  x \in 0..(VpnPoolSize - 1)
    <3>1. PICK i \in 0..505 : i = SubnetIndex(branch, t)
      BY <2>1
    <3>2. x \in (i * 4) .. (i * 4 + 3)
      BY <3>1 DEF VpnBlock, VpnNetwork, VpnSubnetSize
    <3>3. x \in Int /\ 0 <= x /\ x <= 2023
      BY <3>1, <3>2
    <3>4. VpnPoolSize \in Int /\ 2023 <= VpnPoolSize - 1
      BY DEF VpnPoolSize
    <3> QED
      BY <3>3, <3>4
  <2>3. VpnNetwork(branch, t) % VpnSubnetSize = 0
    BY <2>1 DEF VpnNetwork, VpnSubnetSize
  <2> QED
    BY <2>2, <2>3
<1> QED
  BY <1>1, SearchInvariant, PTL

\* Every VPN of every branch, the golden included, has a Palo Alto tunnel
\* interface of its own.
THEOREM TunnelUnitsAreDistinct == Spec => []TunnelUnitsDistinct
<1>1. TypeOK => TunnelUnitsDistinct
  BY PlannedIsOnboarded, MaxBranchAssumption
     DEF TunnelUnitsDistinct, OnboardIds, BranchIds, TunnelIndexes, TunnelUnit
<1> QED
  BY <1>1, SearchInvariant, PTL

\* The golden branch is rebuilt on the addresses of branch 2 and no other two
\* branches share any.
THEOREM OnlyGoldenIsAlias == Spec => []OnlyGoldenAliases
<1>1. TypeOK => OnlyGoldenAliases
  <2> SUFFICES ASSUME TypeOK, Planned,
                      NEW b \in BranchIds, NEW t \in TunnelIndexes, b # branch
               PROVE  VpnNetwork(b, t) = VpnNetwork(branch, t) <=> {b, branch} = {1, 2}
    BY DEF OnlyGoldenAliases
  <2>1. branch \in Int /\ branch >= 2 /\ b \in Int /\ b >= 1 /\ t \in Int
    BY PlannedIsOnboarded, MaxBranchAssumption DEF OnboardIds, BranchIds, TunnelIndexes
  <2>2. {b, branch} = {1, 2} <=> b = 1 /\ branch = 2
    BY <2>1
  <2>3. VpnNetwork(branch, t) = ((branch - 2) * 2 + t) * 4
    BY <2>1 DEF VpnNetwork, SubnetIndex, AllocationId, TunnelsPerBranch, VpnSubnetSize
  <2>4. CASE b = 1
    <3>1. VpnNetwork(b, t) = t * 4
      BY <2>1, <2>4 DEF VpnNetwork, SubnetIndex, AllocationId, TunnelsPerBranch, VpnSubnetSize
    <3> QED
      BY <2>1, <2>2, <2>3, <2>4, <3>1
  <2>5. CASE b # 1
    <3>1. VpnNetwork(b, t) = ((b - 2) * 2 + t) * 4
      BY <2>1, <2>5 DEF VpnNetwork, SubnetIndex, AllocationId, TunnelsPerBranch, VpnSubnetSize
    <3> QED
      BY <2>1, <2>2, <2>3, <2>5, <3>1
  <2> QED
    BY <2>4, <2>5
<1> QED
  BY <1>1, SearchInvariant, PTL
=============================================================================
