--------------------------- MODULE MCMaintenance ---------------------------
(* Instances of Maintenance for TLC. *)
EXTENDS Maintenance

CONSTANTS r1, r2, p1, p2

TwoThreads == {r1, r2}
TwoProfiles == {p1, p2}
Swapped == Permutations(TwoThreads) \cup Permutations(TwoProfiles)
TwoSections == {"base", "hub"}
TwoTables == {"sms", "queue"}
InPackage == {"base", "sms", "queue"}
InSnapshot == {"base", "sms"}
TwoPackages == {"good", "bad"}
GoodOne == {"good"}
TwoLimits == {<<3, 2>>, <<1, 2>>}
=============================================================================
