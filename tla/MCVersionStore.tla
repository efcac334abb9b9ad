--------------------------- MODULE MCVersionStore ---------------------------
(* VersionStore for TLC: two directories, limits of one and two versions.  *)
EXTENDS VersionStore, TLC

CONSTANTS dirA, dirB

DirSet == {dirA, dirB}
CapSet == {1, 2}
SameDirs == Permutations(DirSet)
=============================================================================
