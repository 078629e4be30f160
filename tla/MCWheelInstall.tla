--------------------------- MODULE MCWheelInstall ---------------------------
(***************************************************************************)
(* WheelInstall for TLC: selectors are interchangeable, and so are digests.*)
(***************************************************************************)
EXTENDS WheelInstall, TLC

Symmetry == Permutations(Selectors) \cup Permutations(Digests)

=============================================================================
