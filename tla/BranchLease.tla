----------------------------- MODULE BranchLease -----------------------------
(***************************************************************************)
(* What provisioning promises about a branch: its resources are leased as a *)
(* whole, a branch is served to one site while it is leased, and the lease  *)
(* of a served branch is not given up.                                      *)
(***************************************************************************)
CONSTANTS
    LeaseBranches,  \* the branches
    LeaseSites,     \* the sites a branch can be served to
    NoSite          \* the site of a branch that is not served

VARIABLES
    leased,         \* the branches whose resources are all reserved
    site            \* the site each branch is served to

lease == <<leased, site>>

LeaseInit == /\ leased = {}
             /\ site = [b \in LeaseBranches |-> NoSite]

Acquire(b) == /\ b \notin leased
              /\ site[b] = NoSite
              /\ leased' = leased \cup {b}
              /\ UNCHANGED site

GiveUp(b) == /\ b \in leased
             /\ site[b] = NoSite
             /\ leased' = leased \ {b}
             /\ UNCHANGED site

\* One commit may bring several branches into service.
Serve == /\ site' \in [LeaseBranches -> LeaseSites \cup {NoSite}]
         /\ \A b \in LeaseBranches :
                site'[b] # site[b] => b \in leased /\ site[b] = NoSite
         /\ UNCHANGED leased

LeaseNext == Serve \/ \E b \in LeaseBranches : Acquire(b) \/ GiveUp(b)

LeaseSpec == LeaseInit /\ [][LeaseNext]_lease
=============================================================================
