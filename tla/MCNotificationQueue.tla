------------------------ MODULE MCNotificationQueue ------------------------
(* Instances of NotificationQueue for TLC. *)
EXTENDS NotificationQueue, TLC

CONSTANTS r1, r2, s1, s2

OneRow   == {r1}
TwoRows  == {r1, r2}
OneSlot  == {s1}
TwoSlots == {s1, s2}

\* Rows and slots are interchangeable.
RowSlotSymmetry == Permutations(Rows) \cup Permutations(Slots)
=============================================================================
