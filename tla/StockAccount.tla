---------------------------- MODULE StockAccount ----------------------------
(***************************************************************************)
(* What the operations on stock promise, taken together: a reservation     *)
(* takes what is available or does not happen, a release returns what is   *)
(* reserved or does not happen, both over all of their rows at once and    *)
(* with their ledger entries; a receipt adds to what is on hand in one row *)
(* and touches no reservation.  No promise is made of what is available    *)
(* after a receipt, except that the row stays balanced.                    *)
(***************************************************************************)
EXTENDS Integers

CONSTANTS Rows, InitialStock

VARIABLES inventory, movements

accountVars == <<inventory, movements>>

AccountInit ==
    /\ inventory = [r \in Rows |-> [on_hand |-> InitialStock[r],
                                    available |-> InitialStock[r], reserved |-> 0]]
    /\ movements = [t \in {"RECEIPT", "RESERVATION", "RELEASE", "RETURN"} |->
                        IF t = "RECEIPT" THEN InitialStock ELSE [r \in Rows |-> 0]]

Entered(type, q) ==
    movements' = [movements EXCEPT ![type] = [r \in Rows |-> @[r] + q[r]]]

\* The change of each row tells how much was taken from it.
ReserveStock ==
    LET taken == [r \in Rows |-> inventory'[r].reserved - inventory[r].reserved]
    IN  /\ \A r \in Rows : taken[r] \in 0..inventory[r].available
        /\ inventory' = [r \in Rows |->
                            [on_hand |-> inventory[r].on_hand,
                             available |-> inventory[r].available - taken[r],
                             reserved |-> inventory[r].reserved + taken[r]]]
        /\ Entered("RESERVATION", taken)

ReleaseReserved ==
    LET given == [r \in Rows |-> inventory[r].reserved - inventory'[r].reserved]
    IN  /\ \A r \in Rows : given[r] \in 0..inventory[r].reserved
        /\ inventory' = [r \in Rows |->
                            [on_hand |-> inventory[r].on_hand,
                             available |-> inventory[r].available + given[r],
                             reserved |-> inventory[r].reserved - given[r]]]
        /\ Entered("RELEASE", given)

ReceiveGoods(r) ==
    LET added == inventory'[r].on_hand - inventory[r].on_hand
        left == inventory'[r].available
    IN  /\ added > 0
        /\ left \in 0..(inventory[r].on_hand + added - inventory[r].reserved)
        /\ inventory' = [inventory EXCEPT ![r] =
                            [on_hand |-> @.on_hand + added, available |-> left,
                             reserved |-> @.reserved]]
        /\ movements' = [movements EXCEPT !["RECEIPT"][r] = @ + added]

AccountNext ==
    \/ ReserveStock
    \/ ReleaseReserved
    \/ \E r \in Rows : ReceiveGoods(r)

AccountSpec == AccountInit /\ [][AccountNext]_accountVars
=============================================================================
