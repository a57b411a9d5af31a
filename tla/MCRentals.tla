---- MODULE MCRentals ----
EXTENDS Rentals, TLC

CONSTANTS c1, c2, c3, s1, s2, brandA, brandB

MCBrandOf == [c \in Checkouts |-> IF c = c3 THEN brandB ELSE brandA]
MCCarts == [c \in Checkouts |-> IF c = c2 THEN {} ELSE {{s1}}]
MCSameCart == [c \in Checkouts |-> {{s1}}]
MCPayments == {<<c1, 1>>, <<c1, 2>>, <<c2, 1>>}
MCOnePayment == {<<c1, 1>>, <<c2, 1>>}
MCEachPays == {<<c1, 1>>, <<c2, 1>>, <<c3, 1>>}
====
