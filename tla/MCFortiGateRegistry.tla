------------------------- MODULE MCFortiGateRegistry -------------------------
(***************************************************************************)
(* Instances of FortiGateRegistry for TLC.                                  *)
(***************************************************************************)
EXTENDS FortiGateRegistry, TLC

CONSTANTS i1, i2, i3, h1, h2, c1, c2, r1, r2, r3, r4

ThreeIds     == {i1, i2, i3}
TwoHosts     == {h1, h2}
TwoLogins    == {c1, c2}
FourRequests == {r1, r2, r3, r4}

RegistrySymmetry == Permutations(ThreeIds) \cup Permutations(TwoHosts)
                    \cup Permutations(TwoLogins) \cup Permutations(FourRequests)
=============================================================================
