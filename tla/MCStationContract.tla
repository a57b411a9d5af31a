---- MODULE MCStationContract ----
EXTENDS StationContract, TLC

CONSTANTS o1, o2, o3, d1, s1

MCSlotOf == [c \in Commands |-> s1]
Symmetry == Permutations(Orders)
====
