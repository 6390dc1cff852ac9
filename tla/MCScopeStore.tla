---------------------------- MODULE MCScopeStore ----------------------------
(* Instances of ScopeStore for TLC. *)
EXTENDS ScopeStore, TLC

CONSTANTS s1, s2, s3, hook

ThreeScopes == {s1, s2, s3}
TwoScopes == {s1, s2}
OneHook == {hook}
ShippedBackoff == <<1, 2>>

\* The uuids are interchangeable.
ScopeSymmetry == Permutations(ScopeIds)
=============================================================================
