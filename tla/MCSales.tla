---- MODULE MCSales ----
EXTENDS Sales

CONSTANTS o1, s1

MCSlotOf == [c \in Commands |-> s1]
====
