------------------------------ MODULE Tenancy ------------------------------
(***************************************************************************)
(* What renting promises about each slot of a machine: one brand at a time *)
(* has it, or the platform what the brand left there; it is given up       *)
(* before another brand gets it, and the goods of a brand lie only in      *)
(* slots that brand has.  Rentals implements this.                         *)
(***************************************************************************)
CONSTANTS Slots, Brands, Platform, Nobody

VARIABLES
  tenant,  \* the brand that holds or rents the slot, the platform, or Nobody
  goods    \* whose perfume is in it: a brand's, or Nobody's of them

Init ==
  /\ tenant = [s \in Slots |-> Nobody]
  /\ goods = [s \in Slots |-> Nobody]

(* Of one slot: who had it and has it, whose goods were and are in it.     *)
Passes(had, has, were, are) ==
  /\ had \in {Nobody, Platform} \/ has \in {Nobody, Platform, had}
  /\ are \in {Nobody, has} /\ are \in {Nobody, were, had}

Next ==
  /\ tenant' \in [Slots -> Brands \cup {Platform, Nobody}]
  /\ goods' \in [Slots -> Brands \cup {Nobody}]
  /\ \A s \in Slots : Passes(tenant[s], tenant'[s], goods[s], goods'[s])

Spec == Init /\ [][Next]_<<tenant, goods>>
=============================================================================
