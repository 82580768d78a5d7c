------------------------------- MODULE MCOMS -------------------------------
(***************************************************************************)
(* Small instances of OMS.  A configuration picks what is in stock, what   *)
(* was delivered before, what clients order and return.                    *)
(***************************************************************************)
EXTENDS OMS, TLC

CONSTANTS east, west, pen, ink  \* two warehouses and two products

MCInventoryId ==
    CHOOSE id \in [Rows -> 1..Cardinality(Rows)] :
        \A r, s \in Rows : id[r] = id[s] => r = s

OneEach == [r \in Rows |-> 1]
TwoEach == [r \in Rows |-> 2]
MCInitialUsed == [wh \in Warehouses |-> Total(InitialStock, wh)]

Unlimited == [wh \in Warehouses |-> 0]

Item(product, n) == [product |-> product, quantity |-> n]
From(i, r, n) == [item |-> i, row |-> r, quantity |-> n]
Line(i, n, good) == [item |-> i, quantity |-> n, restockable |-> good]

CrossedCarts == {<<Item(pen, 1), Item(ink, 1)>>, <<Item(ink, 1), Item(pen, 1)>>}
OnePen == {<<Item(pen, 1)>>}
TwoPens == {<<Item(pen, 2)>>}

Order(cart, allocations) ==
    [key |-> NoKey, cart |-> cart, allocations |-> allocations,
     status |-> "DELIVERED", released |-> FALSE]

\* An order of two products, and one of a product from two warehouses.
PenAndInk == <<Order(<<Item(pen, 1), Item(ink, 1)>>,
                     <<From(1, <<pen, east>>, 1), From(2, <<ink, east>>, 1)>>)>>
SplitPens == <<Order(<<Item(pen, 2)>>,
                     <<From(1, <<pen, east>>, 1), From(1, <<pen, west>>, 1)>>)>>

CrossedReturns == {<<Line(1, 1, TRUE), Line(2, 1, TRUE)>>,
                   <<Line(2, 1, TRUE), Line(1, 1, TRUE)>>}
PenReturns == {<<Line(1, 1, TRUE)>>, <<Line(1, 2, TRUE)>>,
               <<Line(1, 1, TRUE), Line(1, 1, FALSE)>>}
NoOrders == <<>>

WholeReturns == {<<Line(1, 2, TRUE)>>}

WorkerSymmetry == Permutations(Workers)
=============================================================================
