----------------------------- MODULE Inventory -----------------------------
(***************************************************************************)
(* The manual stock operations, POST /inventory/reserve and                *)
(* /inventory/release.  Each waits for the lock of its one row and then    *)
(* validates, changes and commits without waiting again, so the handler is *)
(* one action.  A request its handler refuses changes nothing.             *)
(***************************************************************************)
EXTENDS Store

CONSTANT ManualQuantities  \* the quantities operators ask for

ASSUME InventoryAssumption == ManualQuantities \subseteq Nat \ {0}

\* A mistake: a reservation does not wait for the lock of the row.
ReserveUnlocked(r, q) ==
    /\ requests < MaxRequests
    /\ inventory[r].available >= q
    /\ inventory' = [inventory EXCEPT ![r] = Take(@, q)]
    /\ movements' = [movements EXCEPT !["RESERVATION"][r] = @ + q]
    /\ requests' = requests + 1
    /\ UNCHANGED <<rowLock, whLock, whShare, pc, image, posted>>

Reserve(r, q) ==
    /\ requests < MaxRequests
    /\ rowLock[r] = NoWorker
    /\ inventory[r].available >= q
    /\ inventory' = [inventory EXCEPT ![r] = Take(@, q)]
    /\ movements' = [movements EXCEPT !["RESERVATION"][r] = @ + q]
    /\ requests' = requests + 1
    /\ UNCHANGED <<rowLock, whLock, whShare, pc, image, posted>>

\* A mistake: a release does not compare with what is reserved.
ReleaseUnchecked(r, q) ==
    /\ requests < MaxRequests
    /\ rowLock[r] = NoWorker
    /\ inventory' = [inventory EXCEPT ![r] = GiveBack(@, q)]
    /\ movements' = [movements EXCEPT !["RELEASE"][r] = @ + q]
    /\ requests' = requests + 1
    /\ UNCHANGED <<rowLock, whLock, whShare, pc, image, posted>>

Release(r, q) ==
    /\ requests < MaxRequests
    /\ rowLock[r] = NoWorker
    /\ inventory[r].reserved >= q
    /\ inventory' = [inventory EXCEPT ![r] = GiveBack(@, q)]
    /\ movements' = [movements EXCEPT !["RELEASE"][r] = @ + q]
    /\ requests' = requests + 1
    /\ UNCHANGED <<rowLock, whLock, whShare, pc, image, posted>>

InventoryNext ==
    \E r \in Rows, q \in ManualQuantities : Reserve(r, q) \/ Release(r, q)
=============================================================================
