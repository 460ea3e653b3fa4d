--------------------------- MODULE BranchAddressing ---------------------------
(***************************************************************************)
(* The arithmetic behind a branch plan: which addresses branch b receives, *)
(* and which Palo Alto tunnel interfaces carry its two VPNs.  Everything is *)
(* a function of the branch id alone, so that a plan made today and a       *)
(* reservation looked up tomorrow name the same resources.                  *)
(*                                                                          *)
(* Addresses are integers: an address of the VPN pool 169.255.0.0/16 is its *)
(* distance from 169.255.0.0.  The LAN of a branch, 10.0.(b - 1).0/24, is   *)
(* one per id by its form and is left out.                                  *)
(***************************************************************************)
EXTENDS Integers

CONSTANTS MaxBranch,      \* the largest branch id a plan may be built for
          Releasable      \* branches that may be released again (a bound)

ASSUME MaxBranchAssumption  == MaxBranch \in 2..254
ASSUME ReleasableAssumption == Releasable \subseteq 2..MaxBranch

BranchIds    == 1..MaxBranch
\* The ids a branch may be onboarded under; branch 1 is the golden branch.
OnboardIds   == 2..MaxBranch
TunnelIndexes == {0, 1}

VpnPoolSize      == 256 * 256
TunnelsPerBranch == 2

\* (Mutated form: a /24 for a /30.)
WholeOctet == 256

VpnSubnetSize == 4

\* (Mutated form: the golden branch is numbered like any other.)
RawAllocationId(b) == b

\* Branch 1 is rebuilt on the addresses of branch 2, never reserved.
AllocationId(b) == IF b >= 2 THEN b ELSE 2

\* (Mutated form: a branch advances by one tunnel, not by two.)
OverlappingSubnetIndex(b, t) == (AllocationId(b) - 2) + t

SubnetIndex(b, t) == (AllocationId(b) - 2) * TunnelsPerBranch + t

VpnNetwork(b, t) == SubnetIndex(b, t) * VpnSubnetSize

\* The addresses of the /30 of tunnel t.
VpnBlock(b, t) == VpnNetwork(b, t) .. (VpnNetwork(b, t) + VpnSubnetSize - 1)

\* (Mutated form: a branch advances by one unit, not by two.)
TunnelUnitNoOffset(b, t) == (b - 1) + 1 + t

\* tunnel.N units of the Palo Alto; t = 0 is VPN1.
TunnelUnit(b, t) == ((b - 1) * 2 + 1) + t

-----------------------------------------------------------------------------
(* The onboardings of one branch after another.  Each reads the ids in use   *)
(* and tries 2, 3, ... until one is not among them; nothing bounds the       *)
(* search, and only the plan refuses an id no plan exists for.  A branch may *)
(* be released at any time, also while a search goes through the ids it read.*)

VARIABLES reserved,      \* the branches of the inventory
          ids,           \* the ids the search under way has read
          branch         \* the id it has reached

vars == <<reserved, ids, branch>>

\* The plan raises for an id outside its range.
HasPlan(b) == b \in BranchIds

Init == /\ reserved = {}
        /\ ids      = {}
        /\ branch   = 2

\* while branch_id in ids: branch_id += 1
SkipUsedId == /\ branch \in ids
              /\ branch' = branch + 1
              /\ UNCHANGED <<reserved, ids>>

\* (Mutated form: the next search goes on where this one ended.)
PlanFromTheLast == /\ branch \notin ids
                   /\ reserved' = IF HasPlan(branch) THEN reserved \cup {branch}
                                                    ELSE reserved
                   /\ ids'    = reserved'
                   /\ branch' = branch + 1

\* The id found is planned and reserved, or refused; the next onboarding reads
\* the inventory again.
PlanNextBranch == /\ branch \notin ids
                  /\ reserved' = IF HasPlan(branch) THEN reserved \cup {branch}
                                                   ELSE reserved
                  /\ ids'    = reserved'
                  /\ branch' = 2

ReleaseBranch == /\ \E b \in reserved \cap Releasable : reserved' = reserved \ {b}
                 /\ UNCHANGED <<ids, branch>>

Next == SkipUsedId \/ PlanNextBranch \/ ReleaseBranch

Spec == Init /\ [][Next]_vars

-----------------------------------------------------------------------------
(* Properties *)

TypeOK == /\ reserved \subseteq OnboardIds
          /\ ids \subseteq OnboardIds
          /\ branch \in 2..(MaxBranch + 1)

\* A branch plan is built: the search has ended on an id that has one.
Planned == branch \notin ids /\ HasPlan(branch)

\* The search may end on an id no plan exists for, and the onboarding is then
\* refused, but only when the inventory it read had every other id in use: no
\* history of onboardings and releases wastes an id that was given back.
RefusedOnlyWhenFull ==
    branch \notin ids /\ ~HasPlan(branch) => ids = OnboardIds

\* Distinct VPNs of branches the onboarding can create share no overlay
\* address: the closed formula of _vpn_prefix replaces any lookup of what is in
\* use, so this is all that keeps two sites from one /30.
VpnBlocksDisjoint ==
    Planned => \A b \in OnboardIds, t \in TunnelIndexes, u \in TunnelIndexes :
        <<branch, t>> # <<b, u>>
            => VpnBlock(branch, t) \cap VpnBlock(b, u) = {}

\* The pool-exhausted branch of _vpn_prefix is dead code: every id a plan
\* accepts stays inside 169.255.0.0/16 and on a /30 boundary.
VpnBlocksInPool ==
    Planned => \A t \in TunnelIndexes :
        /\ VpnBlock(branch, t) \subseteq 0..(VpnPoolSize - 1)
        /\ VpnNetwork(branch, t) % VpnSubnetSize = 0

\* Only the golden branch is an alias: two different ids share an overlay /30
\* exactly when they are 1 and 2.
OnlyGoldenAliases ==
    Planned => \A b \in BranchIds, t \in TunnelIndexes :
        b # branch =>
            (VpnNetwork(b, t) = VpnNetwork(branch, t)) <=> ({b, branch} = {1, 2})

\* No two VPNs of any two branches, the golden included, are configured on the
\* same Palo Alto tunnel interface: a collision would make one branch's "set"
\* overwrite, and its cleanup delete, the other's interface.
TunnelUnitsDistinct ==
    Planned => \A b \in BranchIds, t \in TunnelIndexes, u \in TunnelIndexes :
        <<branch, t>> # <<b, u>> => TunnelUnit(branch, t) # TunnelUnit(b, u)
=============================================================================
