---- MODULE MCStation ----
EXTENDS Station

CONSTANTS o1, s1

MCSlotOf == [c \in Commands |-> s1]
====
