----------------------------- MODULE MCCatalog -----------------------------
(***************************************************************************)
(* Small instances of Catalog.                                             *)
(***************************************************************************)
EXTENDS Catalog

CONSTANTS pen, east, west, ann

NothingYet == [r \in Rows |-> 0]
MCInitialUsed == [wh \in Warehouses |-> 0]
CapacityTwo == [wh \in Warehouses |-> 2]

PenAndEast == {<<"products", pen>>, <<"warehouses", east>>}
=============================================================================
