---- MODULE MCKiosk ----
EXTENDS Kiosk
CONSTANTS o1, o2, s1, s2
====
