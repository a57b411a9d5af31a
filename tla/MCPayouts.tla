---- MODULE MCPayouts ----
EXTENDS Payouts
CONSTANTS o1, o2
====
