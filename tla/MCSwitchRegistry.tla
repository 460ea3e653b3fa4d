--------------------------- MODULE MCSwitchRegistry ---------------------------
(***************************************************************************)
(* Instances of SwitchRegistry for TLC.                                     *)
(***************************************************************************)
EXTENDS SwitchRegistry, TLC

CONSTANTS i1, i2, h1, h2, c1, c2, r1, r2, r3, r4

TwoIds        == {i1, i2}
TwoHosts      == {h1, h2}
TwoLogins     == {c1, c2}
FourRequests  == {r1, r2, r3, r4}

RegistrySymmetry == Permutations(TwoIds) \cup Permutations(TwoHosts)
                    \cup Permutations(TwoLogins) \cup Permutations(FourRequests)
=============================================================================
