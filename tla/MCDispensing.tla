---- MODULE MCDispensing ----
EXTENDS Dispensing, TLC

CONSTANTS o1, o2, d1, s1

MCSlotOf == [c \in Commands |-> s1]
====
