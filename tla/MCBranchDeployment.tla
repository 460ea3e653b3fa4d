-------------------------- MODULE MCBranchDeployment --------------------------
(***************************************************************************)
(* Instances of BranchDeployment for TLC.                                   *)
(***************************************************************************)
EXTENDS BranchDeployment, TLC

CONSTANTS a1, a2, a3, d1, d2, golden, foreign

TwoAttempts   == {a1, a2}
ThreeAttempts == {a1, a2, a3}
Sites         == {d1, d2}
SitesAndGolden == {d1, golden}

TwoBranches == 2..3

NoForeign  == {}
HandEntered == {<<3, <<"prefix", 1>>>>}

\* Failures that leave the firewalls as they were.
NautobotFaults == {"read", "refused", "lost", "undeleted"}
CleanFaults    == NautobotFaults \cup {"connect", "unseen", "rejected", "cutoff",
                                      "link", "removed"}
AllFaults      == CleanFaults \cup {"partial", "commit", "commitlost"}

\* Every failure except that of a DELETE in a rollback.
UnsafeFaults   == AllFaults \ {"undeleted"}

OneRefusal     == {"refused"}
LostCommit     == {"commitlost"}

AttemptSymmetry == Permutations(TwoAttempts) \cup Permutations(Sites)
SerialSymmetry  == Permutations(ThreeAttempts) \cup Permutations(Sites)
=============================================================================
