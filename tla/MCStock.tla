------------------------------ MODULE MCStock ------------------------------
(***************************************************************************)
(* Small instances of Stock.  A configuration names the sessions, products *)
(* and warehouses and picks the scenario: what is in stock, what clients   *)
(* order, which keys they send, what is delivered.                         *)
(***************************************************************************)
EXTENDS StockInvariant, TLC

CONSTANTS east, west, pen, ink  \* two warehouses and two products

\* inventory.id: some numbering of the rows.
MCInventoryId ==
    CHOOSE id \in [Rows -> 1..Cardinality(Rows)] :
        \A r, s \in Rows : id[r] = id[s] => r = s

OneEach == [r \in Rows |-> 1]
TwoEach == [r \in Rows |-> 2]
TwoInEast == [r \in Rows |-> IF r[2] = east THEN 2 ELSE 1]
MCInitialUsed == [wh \in Warehouses |-> Total(InitialStock, wh)]

Unlimited == [wh \in Warehouses |-> 0]

\* Items that may need both warehouses; two items; one product twice.
Item(product, n) == [product |-> product, quantity |-> n]
SplitCarts == {<<Item(pen, 1)>>, <<Item(pen, 2)>>}
SplitThenInk == {<<Item(pen, 2)>>, <<Item(ink, 1), Item(pen, 1)>>}
RepeatedCarts == SplitCarts \cup {<<Item(pen, 1), Item(pen, 1)>>}
SingleCarts == {<<Item(pen, 1)>>}

WorkerSymmetry == Permutations(Workers)
=============================================================================
