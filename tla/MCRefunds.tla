----------------------------- MODULE MCRefunds -----------------------------
(* One customer, who may transfer twice and file more than one claim.      *)
EXTENDS Refunds, TLC

CONSTANTS o1, s1

MCSlotOf == [c \in Commands |-> s1]
=============================================================================
