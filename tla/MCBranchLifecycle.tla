-------------------------- MODULE MCBranchLifecycle --------------------------
(***************************************************************************)
(* Instances of BranchLifecycle for TLC.                                    *)
(***************************************************************************)
EXTENDS BranchLifecycle, TLC

CONSTANTS a1, a2, r1, r2, d1, d2, golden, foreign

TwoAttempts == {a1, a2}
TwoRemovals == {r1, r2}
OneRemoval  == {r1}
Sites       == {d1, d2}
SitesAndGolden == {d1, golden}
OneBranch   == {2}
TwoBranches == 2..3
NoForeign   == {}

\* Failures the deployment survives, and those a destroy notices.
NoticedFaults == {"refused", "lost", "undeleted", "connect", "unseen", "link",
                  "delpartial", "delcommit", "delcommitlost"}
LiveFaults    == NoticedFaults \cup {"read", "unlisted", "rejected", "cutoff",
                                    "removed", "delunseen"}
None          == {}

LifecycleSymmetry ==
    Permutations(TwoAttempts) \cup Permutations(TwoRemovals) \cup Permutations(Sites)
=============================================================================
