----------------------------- MODULE MoneyTrail -----------------------------
(***************************************************************************)
(* What the platform promises about each bank transfer it is told of:      *)
(* the money is kept for a spray the customer got or forfeited, or it is   *)
(* owed until staff have paid it back, and it is paid back once.           *)
(* Refunds implements this specification.                                  *)
(***************************************************************************)
CONSTANT Transfers

VARIABLE fate

Fates == {"unknown", "held", "earned", "owed", "paidBack"}

(* "held" is the money of an order that waits for its spray or for the     *)
(* report of it: staff may still pay it back, when the report is lost.     *)
MayTurn(from, to) ==
  <<from, to>> \in {<<"unknown", "held">>, <<"unknown", "owed">>,
                    <<"held", "earned">>, <<"held", "owed">>, <<"held", "paidBack">>,
                    <<"owed", "paidBack">>}

Init == fate = [t \in Transfers |-> "unknown"]

Next ==
  /\ fate' \in [Transfers -> Fates]
  /\ \A t \in Transfers : fate'[t] = fate[t] \/ MayTurn(fate[t], fate'[t])

Spec == Init /\ [][Next]_fate
=============================================================================
