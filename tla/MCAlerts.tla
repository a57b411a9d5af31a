---- MODULE MCAlerts ----
EXTENDS Alerts
CONSTANTS a1, a2, r1, w1, w2, nobody
====
